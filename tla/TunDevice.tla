------------------------------ MODULE TunDevice ------------------------------
(* The TUN device of the tuntap crate, on Linux and on macOS                 *)
(* (platform/linux/device.rs, platform/macos/device.rs, platform/posix/fd.rs,*)
(* platform/posix/split.rs).                                                 *)
(*                                                                           *)
(* A Device owns two descriptors: tun, attached to an interface of the       *)
(* kernel, and ctl, a socket its requests go through.  A request names its   *)
(* interface by the name the Device remembers, so the Device and the kernel  *)
(* must agree on it.  Every device is used by a thread of its own (the calls *)
(* take &mut self), and the calls interleave system call by system call with *)
(* those of other devices and of the administrator.                          *)
(*                                                                           *)
(* The kernel is external: descriptors are the lowest free number, a TUN     *)
(* interface lives as long as its descriptor unless it is persistent, and    *)
(* any system call may fail.                                                 *)
EXTENDS Naturals, FiniteSets, FiniteSetsExt, Sequences, Functions

CONSTANTS
    Devs,        \* the devices of the program
    Fixed,       \* names an interface can have, the kernel's own ones included
    Template,    \* a name such as "tun%d", which the kernel completes
    LongName,    \* a name that does not fit in IFNAMSIZ bytes with its NUL
    RenameTo,    \* the names set_name is called with
    Asks,        \* what configure and the callers ask of an interface, by its name
    TunAttrs,    \* the settings reached by the tun descriptor
    Flags,       \* the flags of an interface: "UP", and others the crate never sets
    Platforms,   \* the platforms the crate is built for
    Utun,        \* the names utun0, utun1, ... of macOS, in this order
    AdminMay,    \* what the administrator may do
    MaxFds,      \* bound: size of the descriptor table
    MaxIfs       \* bound: interfaces alive at once

NoFd == MaxFds
NoIf == 0
NoName == "none"
Fds == 0 .. MaxFds - 1
IfIds == 1 .. MaxIfs
Halves == {"Reader", "Writer"}

ASSUME TunAssumption ==
    /\ MaxFds \in Nat \ {0}
    /\ MaxIfs \in Nat \ {0}
    /\ {Template, LongName, NoName} \cap Fixed = {}
    /\ RenameTo \subseteq Fixed \cup {Template, LongName}
    /\ Asks \subseteq {"address", "destination", "broadcast", "netmask", "mtu", "up", "down"}
    /\ TunAttrs \subseteq {"persist", "owner", "group"}
    /\ "UP" \in Flags /\ "RUNNING" \notin Flags
    /\ Platforms \subseteq {"linux", "macos"}
    /\ \A k \in 1..Len(Utun) : Utun[k] \in Fixed
    /\ AdminMay \subseteq {"flags", "rename", "delete"}

VARIABLES
    dev,     \* the program's handles
    files,   \* the kernel's descriptor table
    ifs,     \* the kernel's interfaces
    platform \* where the crate runs

vars == <<dev, files, ifs, platform>>

IpAttrs == Asks \ {"up", "down"}

Free == [kind |-> "free", iface |-> NoIf]
Files == [kind : {"free", "tun", "ctl"}, iface : IfIds \cup {NoIf}]

Absent == [alive |-> FALSE, foreign |-> FALSE, name |-> NoName, flags |-> {}, set |-> {}]
Interfaces == [alive : BOOLEAN, foreign : BOOLEAN,
               name : Fixed \cup {NoName},
               flags : SUBSET Flags, set : SUBSET (IpAttrs \cup TunAttrs)]

\* configure's order, and the first of what is left to ask.
Order == <<"address", "destination", "broadcast", "netmask", "mtu", "up", "down">>
First(S) == Order[Min({k \in 1..Len(Order) : Order[k] \in S})]

Handle == [pc : {"none", "opened", "attached", "calling", "flags",
                 "ready", "split", "raw"},
           built : BOOLEAN, name : Fixed \cup {Template, NoName},
           tun : Fds \cup {NoFd}, ctl : Fds \cup {NoFd},
           todo : SUBSET Asks,
           flags : SUBSET (Flags \cup {"RUNNING"}), halves : SUBSET Halves]

NoDevice == [pc |-> "none", built |-> FALSE, name |-> NoName, tun |-> NoFd, ctl |-> NoFd,
             todo |-> {}, flags |-> {}, halves |-> {}]

Foreign(n) == [Absent EXCEPT !.alive = TRUE, !.foreign = TRUE, !.name = n,
                              !.flags = Flags \ {"UP"}]

(* An interface of somebody else may already be there.                       *)
Init ==
    /\ dev = [d \in Devs |-> NoDevice]
    /\ files = [f \in Fds |-> Free]
    /\ \E there \in {Absent} \cup {Foreign(n) : n \in Fixed} :
         ifs = [i \in IfIds |-> IF i = 1 THEN there ELSE Absent]
    /\ platform \in Platforms

-----------------------------------------------------------------------------
(* The kernel.                                                               *)

FreeFds == {f \in Fds : files[f] = Free}
Lowest == Min(FreeFds)

Alive == {i \in IfIds : ifs[i].alive}
NewIf == Min((IfIds \ Alive) \cup {MaxIfs + 1})   \* MaxIfs + 1: no room
Named(n) == {i \in Alive : ifs[i].name = n}
FreeNames == {n \in Fixed : Named(n) = {}}
Persistent(i) == "persist" \in ifs[i].set
Attached(i) == \E f \in Fds : files[f].kind = "tun" /\ files[f].iface = i
Mine(d) == IF dev[d].tun = NoFd THEN NoIf ELSE files[dev[d].tun].iface

(* The names the kernel may give to an interface that asks for n.            *)
Completions(n) == IF n \in {Template, NoName} THEN FreeNames ELSE FreeNames \cap {n}

(* close(2) of every descriptor of S that is not -1; an interface goes with  *)
(* its descriptor unless it is persistent.                                   *)
Close(S) ==
    LET gone == {files[f].iface : f \in S \ {NoFd}}
    IN  /\ files' = [f \in Fds |-> IF f \in S THEN Free ELSE files[f]]
        /\ ifs' = [i \in IfIds |-> IF i \in gone /\ ~Persistent(i) THEN Absent ELSE ifs[i]]

-----------------------------------------------------------------------------
(* Device::new.                                                              *)

\* Mutant: the tun descriptor is forgotten.
DropLeaks(d) ==
    /\ dev' = [dev EXCEPT ![d] = NoDevice]
    /\ Close({dev[d].ctl})

(* The handle is dropped: Fd::drop closes both of its descriptors.           *)
Drop(d) ==
    /\ dev' = [dev EXCEPT ![d] = NoDevice]
    /\ Close({dev[d].tun, dev[d].ctl})

\* Mutant: the length of the name is not checked.
NewUnchecked(d) ==
    /\ dev[d].pc = "none"
    /\ FreeFds # {}
    /\ \E n \in Fixed \cup {Template, LongName, NoName} :
         dev' = [dev EXCEPT ![d].pc = "opened", ![d].name = n, ![d].tun = Lowest]
    /\ files' = [files EXCEPT ![Lowest] = [Free EXCEPT !.kind = "tun"]]
    /\ UNCHANGED ifs

(* new opens /dev/net/tun, or a control socket.  It returns before with a    *)
(* name that is too long or, on macOS, not utun and a number, and when the   *)
(* open fails: nothing has happened then.                                    *)
New(d) ==
    /\ dev[d].pc = "none"
    /\ FreeFds # {}
    /\ \E n \in Fixed \cup {Template, LongName, NoName}, S \in SUBSET Asks :
         /\ n # LongName
         /\ platform = "macos" => n = NoName \/ n \in Range(Utun)
         /\ ~ {"up", "down"} \subseteq S
         /\ dev' = [dev EXCEPT ![d].pc = "opened", ![d].name = n, ![d].todo = S,
                               ![d].tun = Lowest]
    /\ files' = [files EXCEPT ![Lowest] = [Free EXCEPT !.kind = "tun"]]
    /\ UNCHANGED ifs

(* TUNSETIFF: creates an interface, or takes a persistent one nobody holds.  *)
(* The Device keeps the name the kernel wrote back into the request.         *)
TunSetIff(d) ==
    /\ platform = "linux" /\ dev[d].pc = "opened"
    /\ \E i \in IfIds, n \in Fixed :
         /\ \/ /\ i = NewIf
               /\ n \in Completions(dev[d].name)
               /\ ifs' = [ifs EXCEPT ![i] = [Absent EXCEPT !.alive = TRUE, !.name = n,
                                                           !.flags = Flags \ {"UP"}]]
            \/ /\ i \in Named(dev[d].name) /\ ~ifs[i].foreign /\ ~Attached(i)
               /\ n = dev[d].name
               /\ UNCHANGED ifs
         /\ dev' = [dev EXCEPT ![d].pc = "attached", ![d].name = n]
         /\ files' = [files EXCEPT ![dev[d].tun].iface = i]

(* macOS: the number behind utun, 0 without a name, is the unit to connect   *)
(* to.  The kernel takes unit 0 for any free one and unit k for utun(k-1).   *)
Id(n) == IF n = NoName THEN 0 ELSE CHOOSE k \in 0..(Len(Utun) - 1) : Utun[k + 1] = n
UnitNames(k) == FreeNames \cap (IF k = 0 THEN Range(Utun) ELSE {Utun[k]})

(* CTLIOCGINFO, connect, which creates the interface, and getsockopt, which  *)
(* asks the kernel for its name.  Nobody else reaches the descriptor between *)
(* them, and an error of any of them drops it (Fails).                       *)
ConnectUtun(d) ==
    /\ platform = "macos" /\ dev[d].pc = "opened"
    /\ \E i \in IfIds \cap {NewIf}, n \in UnitNames(Id(dev[d].name)) :
         /\ ifs' = [ifs EXCEPT ![i] = [Absent EXCEPT !.alive = TRUE, !.name = n,
                                                     !.flags = Flags \ {"UP"}]]
         /\ dev' = [dev EXCEPT ![d].pc = "attached", ![d].name = n]
         /\ files' = [files EXCEPT ![dev[d].tun].iface = i]

(* The end of a request: new goes on with configure, a caller has its        *)
(* result.                                                                   *)
Advance(d, rest) ==
    [dev[d] EXCEPT !.todo = rest, !.flags = {},
                   !.built = (rest = {}),
                   !.pc = IF rest = {} THEN "ready" ELSE "calling"]

Rest(d) == dev[d].todo \ {First(dev[d].todo)}

(* socket(AF_INET, SOCK_DGRAM, 0), and configure begins.                     *)
OpenCtl(d) ==
    /\ dev[d].pc = "attached"
    /\ FreeFds # {}
    /\ dev' = [dev EXCEPT ![d] = [Advance(d, dev[d].todo) EXCEPT !.ctl = Lowest]]
    /\ files' = [files EXCEPT ![Lowest] = [Free EXCEPT !.kind = "ctl"]]
    /\ UNCHANGED ifs

(* A system call fails: an error leaves new, and drops what it holds, and    *)
(* leaves any other call with the Device as it was.                          *)
Fails(d) ==
    /\ dev[d].pc \in {"opened", "attached", "calling", "flags"}
    /\ \/ /\ ~dev[d].built
          /\ Drop(d)
       \/ /\ dev[d].built
          /\ dev' = [dev EXCEPT ![d] = Advance(d, {})]
          /\ UNCHANGED <<files, ifs>>

-----------------------------------------------------------------------------
(* The requests of a Device.                                                 *)

(* One of the calls that go through configure's setters.                     *)
Call(d) ==
    /\ dev[d].pc = "ready"
    /\ \E a \in Asks : dev' = [dev EXCEPT ![d].pc = "calling", ![d].todo = {a}]
    /\ UNCHANGED <<files, ifs>>

(* set_address, set_destination, set_broadcast, set_netmask, set_mtu: one    *)
(* ioctl, on the interface that has the remembered name.                     *)
SetAttr(d) ==
    /\ dev[d].pc = "calling"
    /\ First(dev[d].todo) \in IpAttrs
    /\ \E i \in Named(dev[d].name) :
         ifs' = [ifs EXCEPT ![i].set = @ \cup {First(dev[d].todo)}]
    /\ dev' = [dev EXCEPT ![d] = Advance(d, Rest(d))]
    /\ UNCHANGED files

(* set_alias of macOS: address, broadcast and netmask in one ioctl.          *)
SetAlias(d) ==
    /\ platform = "macos" /\ dev[d].pc = "ready"
    /\ \E i \in Named(dev[d].name) :
         ifs' = [ifs EXCEPT ![i].set = @ \cup (IpAttrs \cap {"address", "broadcast", "netmask"})]
    /\ UNCHANGED <<dev, files>>

(* enabled, first half: SIOCGIFFLAGS, and the flags to write.                *)
GetFlags(d) ==
    /\ dev[d].pc = "calling"
    /\ First(dev[d].todo) \in {"up", "down"}
    /\ \E i \in Named(dev[d].name) :
         dev' = [dev EXCEPT ![d].pc = "flags",
                            ![d].flags = IF First(dev[d].todo) = "up"
                                         THEN ifs[i].flags \cup {"UP", "RUNNING"}
                                         ELSE ifs[i].flags \ {"UP"}]
    /\ UNCHANGED <<files, ifs>>

(* enabled, second half: SIOCSIFFLAGS; RUNNING is not the kernel's to take.  *)
SetFlags(d) ==
    /\ dev[d].pc = "flags"
    /\ \E i \in Named(dev[d].name) :
         ifs' = [ifs EXCEPT ![i].flags = dev[d].flags \ {"RUNNING"}]
    /\ dev' = [dev EXCEPT ![d] = Advance(d, Rest(d))]
    /\ UNCHANGED files

\* Mutant: the new name is remembered before it is known to be taken.
SetNameEager(d) ==
    /\ platform = "linux" /\ dev[d].pc = "ready"
    /\ \E v \in RenameTo \ {LongName}, i \in Named(dev[d].name) :
         /\ \/ /\ "UP" \notin ifs[i].flags
               /\ \E n \in Completions(v) : ifs' = [ifs EXCEPT ![i].name = n]
            \/ UNCHANGED ifs
         /\ dev' = [dev EXCEPT ![d].name = v]
    /\ UNCHANGED files

(* set_name: SIOCSIFNAME, which refuses an interface that is up and a name   *)
(* in use, and completes a template; the Device remembers what it asked for. *)
(* On macOS set_name always returns an error.                                *)
SetName(d) ==
    /\ platform = "linux" /\ dev[d].pc = "ready"
    /\ \E v \in RenameTo \ {LongName}, i \in Named(dev[d].name) :
         /\ "UP" \notin ifs[i].flags
         /\ \E n \in Completions(v) : ifs' = [ifs EXCEPT ![i].name = n]
         /\ dev' = [dev EXCEPT ![d].name = v]
    /\ UNCHANGED files

(* persist, user, group (Linux): one ioctl on the tun descriptor.            *)
TunSet(d) ==
    /\ platform = "linux" /\ dev[d].pc = "ready"
    /\ Mine(d) # NoIf
    /\ \E a \in TunAttrs : ifs' = [ifs EXCEPT ![Mine(d)].set = @ \cup {a}]
    /\ UNCHANGED <<dev, files>>

-----------------------------------------------------------------------------
(* The ways a Device ends.                                                   *)

(* split moves tun behind an Arc that two halves share; ctl is dropped.      *)
Split(d) ==
    /\ dev[d].pc = "ready"
    /\ dev' = [dev EXCEPT ![d] = [NoDevice EXCEPT !.pc = "split", !.tun = dev[d].tun,
                                                  !.halves = Halves]]
    /\ Close({dev[d].ctl})

\* Mutant: every half closes the descriptor.
DropHalfCloses(d) ==
    /\ dev[d].pc = "split"
    /\ \E h \in dev[d].halves :
         /\ dev' = [dev EXCEPT ![d] = IF @.halves = {h} THEN NoDevice
                                      ELSE [@ EXCEPT !.halves = @ \ {h}]]
         /\ Close({dev[d].tun})

(* A half is dropped; the last one drops the descriptor.                     *)
DropHalf(d) ==
    /\ dev[d].pc = "split"
    /\ \E h \in dev[d].halves :
         IF dev[d].halves = {h}
         THEN Drop(d)
         ELSE /\ dev' = [dev EXCEPT ![d].halves = @ \ {h}]
              /\ UNCHANGED <<files, ifs>>

\* Mutant: the Fd keeps its number, and its drop closes it.
IntoRawFdCloses(d) ==
    /\ dev[d].pc = "ready"
    /\ dev' = [dev EXCEPT ![d] = [NoDevice EXCEPT !.pc = "raw", !.tun = dev[d].tun]]
    /\ Close({dev[d].tun, dev[d].ctl})

(* into_raw_fd leaves -1 in the Fd, so that only ctl is closed; the caller   *)
(* owns the descriptor from here on.                                         *)
IntoRawFd(d) ==
    /\ dev[d].pc = "ready"
    /\ dev' = [dev EXCEPT ![d] = [NoDevice EXCEPT !.pc = "raw", !.tun = dev[d].tun]]
    /\ Close({dev[d].ctl})

(* The caller closes the descriptor it was given.                            *)
CloseRaw(d) ==
    /\ dev[d].pc = "raw"
    /\ Drop(d)

DropDevice(d) ==
    /\ dev[d].pc = "ready"
    /\ Drop(d)

-----------------------------------------------------------------------------
(* The administrator changes flags and, on Linux, renames and deletes.       *)

AdminFlags(i) ==
    /\ "flags" \in AdminMay
    /\ \E f \in Flags : ifs' = [ifs EXCEPT ![i].flags = SymDiff(@, {f})]
    /\ UNCHANGED <<dev, files>>

AdminRename(i) ==
    /\ "rename" \in AdminMay /\ platform = "linux"
    /\ \E n \in FreeNames : ifs' = [ifs EXCEPT ![i].name = n]
    /\ UNCHANGED <<dev, files>>

(* A descriptor outlives its interface, attached to nothing.                 *)
AdminDelete(i) ==
    /\ "delete" \in AdminMay /\ platform = "linux"
    /\ ifs' = [ifs EXCEPT ![i] = Absent]
    /\ files' = [f \in Fds |-> IF files[f].iface = i THEN [files[f] EXCEPT !.iface = NoIf]
                               ELSE files[f]]
    /\ UNCHANGED dev

(* What a Device does on both platforms, and what on one.  The requests by   *)
(* name are written twice in the code, once for each platform, and do the    *)
(* same.                                                                     *)
Requests(d) == Call(d) \/ SetAttr(d) \/ GetFlags(d) \/ SetFlags(d)
PosixStep(d) ==
    \/ New(d) \/ OpenCtl(d) \/ Fails(d) \/ Requests(d)
    \/ Split(d) \/ DropHalf(d) \/ IntoRawFd(d) \/ CloseRaw(d) \/ DropDevice(d)
LinuxStep(d) == TunSetIff(d) \/ SetName(d) \/ TunSet(d)
MacStep(d) == ConnectUtun(d) \/ SetAlias(d)
DeviceStep(d) == PosixStep(d) \/ LinuxStep(d) \/ MacStep(d)

AdminStep(i) == AdminFlags(i) \/ AdminRename(i) \/ AdminDelete(i)

Next ==
    /\ \/ \E d \in Devs : DeviceStep(d)
       \/ \E i \in Alive : AdminStep(i)
    /\ UNCHANGED platform

Spec == Init /\ [][Next]_vars

-----------------------------------------------------------------------------
(* Properties.                                                               *)

(* Type invariant: the handles, the descriptor table and the interfaces.     *)
TypeOK ==
    /\ dev \in [Devs -> Handle]
    /\ files \in [Fds -> Files]
    /\ ifs \in [IfIds -> Interfaces]
    /\ platform \in Platforms

Owned(d) == {dev[d].tun, dev[d].ctl} \ {NoFd}

(* Every open descriptor has exactly one owner, and every owner an open      *)
(* descriptor of the right kind: no way through new, split, the halves,      *)
(* into_raw_fd and the drops leaks one, closes one twice or closes a number  *)
(* that meanwhile belongs to another device.                                 *)
Ownership ==
    /\ {f \in Fds : files[f] # Free} = UNION {Owned(d) : d \in Devs}
    /\ \A d, e \in Devs : d # e => Owned(d) \cap Owned(e) = {}
    /\ \A d \in Devs : /\ dev[d].tun # NoFd => files[dev[d].tun].kind = "tun"
                       /\ dev[d].ctl # NoFd => files[dev[d].ctl].kind = "ctl"

(* An interface that is not persistent has a device behind it: a new that    *)
(* failed half way, and a device that ended, leave none in the system.       *)
NothingLeftBehind ==
    \A i \in Alive : ifs[i].foreign \/ Persistent(i) \/ \E d \in Devs : Mine(d) = i

(* The name a device remembers, and makes its requests with, is not that of  *)
(* the interface behind its descriptor.                                      *)
Stale(d) ==
    /\ dev[d].pc \in {"attached", "calling", "flags", "ready"}
    /\ Mine(d) = NoIf \/ ifs[Mine(d)].name # dev[d].name

(* name() is the name of the device, as the trait says ("Get the device      *)
(* name"): the one its interface has.                                        *)
NameIsCurrent == \A d \in Devs : ~Stale(d)

(* Names go stale by the administrator's doing alone: a device that knows    *)
(* its own interface makes no name wrong, neither its own, also not by a     *)
(* set_name the kernel refuses, nor that of another device.                  *)
StalenessComesFromOutside ==
    [][\A e \in Devs : Stale(e)' /\ ~Stale(e)
           => \A d \in Devs : DeviceStep(d) => Stale(d)]_vars

(* The interfaces that are not a device's alone.                             *)
Others(d) == {i \in Alive : i # Mine(d) \/ \E e \in Devs \ {d} : Mine(e) = i}

(* The requests that name their interface.                                   *)
ByName(d) == SetAttr(d) \/ SetFlags(d) \/ SetAlias(d) \/ SetName(d)

(* No step of a device changes or takes away an interface another device or  *)
(* nobody of the program holds, whether it reaches it by a name or, through  *)
(* a number that was given out again, by a descriptor: except for a request  *)
(* by a name that has gone stale.                                            *)
OnlyOwnInterface ==
    [][\A i \in IfIds : ifs'[i] # ifs[i]
           => \A d \in Devs : i \in Others(d) /\ DeviceStep(d) => ByName(d) /\ Stale(d)]_vars

(* A device gets the name its configuration asked for ("Set the name"), or   *)
(* none at all.                                                              *)
NameAsConfigured ==
    [][\A d \in Devs : dev[d].pc = "opened" /\ dev'[d].pc = "attached" /\ dev[d].name \in Fixed
           => dev'[d].name = dev[d].name]_vars
=============================================================================
