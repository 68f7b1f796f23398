--------------------------- MODULE TunDeviceProofs ---------------------------
(* Theorems about TunDevice, for any number of devices, descriptors,         *)
(* interfaces and names, on both platforms.                                  *)
EXTENDS TunDevice, WellFoundedInduction, TLAPS

-----------------------------------------------------------------------------
(* Numbers, and what the kernel picks.                                       *)

(* Min picks an element of a set of numbers: the lowest free descriptor is   *)
(* free, a new interface takes a place nobody has.                           *)
LEMMA MinIsMember ==
    ASSUME NEW S \in SUBSET Nat, S # {}
    PROVE  Min(S) \in S
<1>1. PICK x \in S : \A y \in S : ~(<<y, x>> \in OpToRel(<, Nat))
  BY NatLessThanWellFounded, WFMin, Zenon
<1>2. \A y \in S : x =< y
  <2>1. \A y \in Nat : y < x => <<y, x>> \in OpToRel(<, Nat)
    BY Zenon DEF OpToRel
  <2>2. \A y \in S : ~(y < x)
    BY <1>1, <2>1
  <2> QED BY <2>2
<1> QED BY <1>2, Zenon DEF Min

LEMMA LowestIsFree ==
    ASSUME FreeFds # {}
    PROVE  Lowest \in FreeFds
<1>1. FreeFds \in SUBSET Nat
  BY TunAssumption DEF FreeFds, Fds
<1> QED BY <1>1, MinIsMember DEF Lowest

LEMMA NewIfIsNew ==
    ASSUME NewIf \in IfIds
    PROVE  NewIf \notin Alive
<1> DEFINE S == (IfIds \ Alive) \cup {MaxIfs + 1}
<1>1. S \in SUBSET Nat /\ S # {}
  BY TunAssumption DEF IfIds
<1>2. Min(S) \in S
  BY <1>1, MinIsMember
<1>3. MaxIfs + 1 \notin IfIds
  BY TunAssumption DEF IfIds
<1> QED BY <1>2, <1>3 DEF NewIf

(* -1 is no descriptor, and no interface has the number 0.                   *)
LEMMA Outside == NoFd \notin Fds /\ NoIf \notin IfIds
BY TunAssumption DEF NoFd, Fds, NoIf, IfIds
-----------------------------------------------------------------------------
(* What a handle holds, by where it is.                                      *)
Using == {"calling", "flags", "ready"}
Shape(h) ==
    /\ h.tun # NoFd <=> h.pc # "none"
    /\ h.ctl # NoFd <=> h.pc \in Using
    /\ h.pc \in {"none", "opened", "attached"} => ~h.built
Shapes == \A d \in Devs : Shape(dev[d])

TypeInv == TypeOK /\ Shapes

LEMMA NoDeviceType == NoDevice \in Handle /\ Shape(NoDevice)
BY DEF NoDevice, Handle, Shape, Using, NoFd, NoName

LEMMA FileTypes == Free \in Files /\ [Free EXCEPT !.kind = "tun"] \in Files
                   /\ [Free EXCEPT !.kind = "ctl"] \in Files
BY DEF Free, Files

LEMMA AbsentType == Absent \in Interfaces
BY DEF Absent, Interfaces

(* A handle is replaced by one that is well formed.                          *)
LEMMA HandleStep ==
    ASSUME TypeInv, NEW d \in Devs, NEW h \in Handle, Shape(h),
           dev' = [dev EXCEPT ![d] = h]
    PROVE  dev' \in [Devs -> Handle] /\ Shapes'
<1>1. dev' \in [Devs -> Handle]
  BY DEF TypeInv, TypeOK
<1>2. ASSUME NEW e \in Devs PROVE Shape(dev'[e])
  <2>1. CASE e = d
    BY <2>1 DEF TypeInv, TypeOK
  <2>2. CASE e # d
    BY <2>2 DEF TypeInv, TypeOK, Shapes
  <2> QED BY <2>1, <2>2
<1> QED BY <1>1, <1>2 DEF Shapes, Shape

(* close(2) leaves the tables well formed.                                   *)
LEMMA CloseTypes ==
    ASSUME TypeInv, NEW S, Close(S)
    PROVE  files' \in [Fds -> Files] /\ ifs' \in [IfIds -> Interfaces]
BY FileTypes, AbsentType DEF Close, TypeInv, TypeOK

LEMMA AdvanceType ==
    ASSUME TypeInv, NEW d \in Devs, NEW rest \in SUBSET Asks, dev[d].pc \in Using
    PROVE  Advance(d, rest) \in Handle /\ Shape(Advance(d, rest))
<1>1. dev[d] \in Handle /\ Shape(dev[d])
  BY DEF TypeInv, TypeOK, Shapes
<1>2. Advance(d, rest) \in Handle
  BY <1>1 DEF Advance, Handle
<1>3. Shape(Advance(d, rest))
  BY <1>1 DEF Advance, Shape, Using, Handle
<1> QED BY <1>2, <1>3

(* The steps of a device that change its handle alone, or an interface by    *)
(* its name.                                                                 *)
LEMMA RequestTypes ==
    ASSUME TypeInv, NEW d \in Devs, UNCHANGED platform,
           Requests(d) \/ SetName(d) \/ TunSet(d) \/ SetAlias(d)
    PROVE  TypeInv'
<1> USE DEF TypeInv
<1>0. dev[d] \in Handle /\ Shape(dev[d])
  BY DEF TypeOK, Shapes
<1>1. CASE Call(d)
  <2>1. PICK a \in Asks : dev' = [dev EXCEPT ![d].pc = "calling", ![d].todo = {a}]
    BY <1>1 DEF Call
  <2> DEFINE h == [dev[d] EXCEPT !.pc = "calling", !.todo = {a}]
  <2>2. h \in Handle /\ Shape(h)
    BY <1>0, <1>1 DEF Handle, Shape, Using, Call
  <2>3. dev' = [dev EXCEPT ![d] = h]
    BY <2>1 DEF TypeOK
  <2> HIDE DEF h
  <2>4. dev' \in [Devs -> Handle] /\ Shapes'
    BY <2>2, <2>3, HandleStep
  <2> QED BY <1>1, <2>4 DEF Call, TypeOK
<1>2. CASE SetAttr(d)
  <2>1. dev' \in [Devs -> Handle] /\ Shapes'
    BY <1>0, <1>2, AdvanceType, HandleStep DEF SetAttr, Rest, Handle, Using
  <2>2. PICK i \in Named(dev[d].name) :
          ifs' = [ifs EXCEPT ![i].set = @ \cup {First(dev[d].todo)}]
    BY <1>2 DEF SetAttr
  <2>3. ifs[i].set \cup {First(dev[d].todo)} \in SUBSET (IpAttrs \cup TunAttrs)
    BY <1>2, <2>2 DEF SetAttr, TypeOK, Interfaces, Named, Alive
  <2>4. ifs' \in [IfIds -> Interfaces]
    BY <2>2, <2>3 DEF TypeOK, Interfaces, Named, Alive
  <2> QED BY <1>2, <2>1, <2>4 DEF SetAttr, TypeOK
<1>3. CASE GetFlags(d)
  <2>1. PICK i \in Named(dev[d].name) :
          dev' = [dev EXCEPT ![d].pc = "flags",
                             ![d].flags = IF First(dev[d].todo) = "up"
                                          THEN ifs[i].flags \cup {"UP", "RUNNING"}
                                          ELSE ifs[i].flags \ {"UP"}]
    BY <1>3 DEF GetFlags
  <2> DEFINE fl == IF First(dev[d].todo) = "up" THEN ifs[i].flags \cup {"UP", "RUNNING"}
                                                ELSE ifs[i].flags \ {"UP"}
             h == [dev[d] EXCEPT !.pc = "flags", !.flags = fl]
  <2>2. fl \in SUBSET (Flags \cup {"RUNNING"})
    BY TunAssumption, <2>1 DEF TypeOK, Interfaces, Named, Alive
  <2>3. dev' = [dev EXCEPT ![d] = h]
    BY <2>1 DEF TypeOK
  <2> HIDE DEF fl
  <2>4. h \in Handle /\ Shape(h)
    BY <1>0, <1>3, <2>2 DEF Handle, Shape, Using, GetFlags
  <2> HIDE DEF h
  <2>5. dev' \in [Devs -> Handle] /\ Shapes'
    BY <2>3, <2>4, HandleStep
  <2> QED BY <1>3, <2>5 DEF GetFlags, TypeOK
<1>4. CASE SetFlags(d)
  <2>1. dev' \in [Devs -> Handle] /\ Shapes'
    BY <1>0, <1>4, AdvanceType, HandleStep DEF SetFlags, Rest, Handle, Using
  <2>2. ifs' \in [IfIds -> Interfaces]
    BY <1>0, <1>4 DEF SetFlags, TypeOK, Interfaces, Named, Alive, Handle
  <2> QED BY <1>4, <2>1, <2>2 DEF SetFlags, TypeOK
<1>5. CASE SetName(d)
  <2>1. PICK v \in RenameTo \ {LongName}, i \in Named(dev[d].name) :
          /\ \E n \in Completions(v) : ifs' = [ifs EXCEPT ![i].name = n]
          /\ dev' = [dev EXCEPT ![d].name = v]
    BY <1>5 DEF SetName
  <2>2. ifs' \in [IfIds -> Interfaces]
    BY <2>1 DEF TypeOK, Interfaces, Named, Alive, Completions, FreeNames
  <2> DEFINE h == [dev[d] EXCEPT !.name = v]
  <2>3. h \in Handle /\ Shape(h)
    BY TunAssumption, <1>0, <2>1 DEF Handle, Shape
  <2>4. dev' = [dev EXCEPT ![d] = h]
    BY <2>1 DEF TypeOK
  <2> HIDE DEF h
  <2>5. dev' \in [Devs -> Handle] /\ Shapes'
    BY <2>3, <2>4, HandleStep
  <2> QED BY <1>5, <2>2, <2>5 DEF SetName, TypeOK
<1>6. CASE TunSet(d)
  <2>1. Mine(d) \in IfIds
    BY <1>0, <1>6 DEF TunSet, Mine, TypeOK, Files, Handle
  <2>2. ifs' \in [IfIds -> Interfaces]
    BY <1>6, <2>1 DEF TunSet, TypeOK, Interfaces
  <2> QED BY <1>6, <2>2 DEF TunSet, TypeOK, Shapes, Shape
<1>7. CASE SetAlias(d)
  <2>1. ifs' \in [IfIds -> Interfaces]
    BY <1>7 DEF SetAlias, TypeOK, Interfaces, Named, Alive
  <2> QED BY <1>7, <2>1 DEF SetAlias, TypeOK, Shapes, Shape
<1> QED BY <1>1, <1>2, <1>3, <1>4, <1>5, <1>6, <1>7 DEF Requests

(* The steps of Device::new.                                                 *)
LEMMA NewTypes ==
    ASSUME TypeInv, NEW d \in Devs, UNCHANGED platform,
           New(d) \/ TunSetIff(d) \/ ConnectUtun(d) \/ OpenCtl(d)
    PROVE  TypeInv'
<1> USE DEF TypeInv
<1>0. dev[d] \in Handle /\ Shape(dev[d])
  BY DEF TypeOK, Shapes
<1>a. ASSUME NEW i \in IfIds, NEW n \in Fixed,
             ifs' = [ifs EXCEPT ![i] = [Absent EXCEPT !.alive = TRUE, !.name = n,
                                                      !.flags = Flags \ {"UP"}]]
      PROVE  ifs' \in [IfIds -> Interfaces]
  <2>1. [Absent EXCEPT !.alive = TRUE, !.name = n, !.flags = Flags \ {"UP"}] \in Interfaces
    BY DEF Absent, Interfaces
  <2> QED BY <1>a, <2>1 DEF TypeOK
<1>b. ASSUME NEW i \in IfIds, NEW n \in Fixed, dev[d].pc = "opened",
             dev' = [dev EXCEPT ![d].pc = "attached", ![d].name = n],
             files' = [files EXCEPT ![dev[d].tun].iface = i]
      PROVE  /\ dev' \in [Devs -> Handle] /\ Shapes'
             /\ files' \in [Fds -> Files]
  <2> DEFINE h == [dev[d] EXCEPT !.pc = "attached", !.name = n]
  <2>1. h \in Handle /\ Shape(h)
    BY <1>0, <1>b DEF Handle, Shape, Using
  <2>2. dev' = [dev EXCEPT ![d] = h]
    BY <1>b DEF TypeOK
  <2> HIDE DEF h
  <2>3. dev' \in [Devs -> Handle] /\ Shapes'
    BY <2>1, <2>2, HandleStep
  <2>4. files' \in [Fds -> Files]
    BY <1>b DEF TypeOK, Files
  <2> QED BY <2>3, <2>4
<1>1. CASE New(d)
  <2>1. Lowest \in Fds
    BY <1>1, LowestIsFree DEF New, FreeFds
  <2>2. PICK n \in Fixed \cup {Template, LongName, NoName}, S \in SUBSET Asks :
          /\ n # LongName
          /\ dev' = [dev EXCEPT ![d].pc = "opened", ![d].name = n, ![d].todo = S,
                                ![d].tun = Lowest]
    BY <1>1 DEF New
  <2> DEFINE h == [dev[d] EXCEPT !.pc = "opened", !.name = n, !.todo = S, !.tun = Lowest]
  <2>3. h \in Handle
    BY <1>0, <2>1, <2>2 DEF Handle
  <2>4. Shape(h)
    BY <1>0, <1>1, <2>1, Outside DEF Handle, Shape, Using, New
  <2>5. dev' = [dev EXCEPT ![d] = h]
    BY <2>2 DEF TypeOK
  <2> HIDE DEF h
  <2>6. dev' \in [Devs -> Handle] /\ Shapes'
    BY <2>3, <2>4, <2>5, HandleStep
  <2>7. files' \in [Fds -> Files]
    BY <1>1, <2>1, FileTypes DEF New, TypeOK
  <2> QED BY <1>1, <2>6, <2>7 DEF New, TypeOK
<1>2. CASE TunSetIff(d)
  <2>1. PICK i \in IfIds, n \in Fixed :
          /\ \/ ifs' = [ifs EXCEPT ![i] = [Absent EXCEPT !.alive = TRUE, !.name = n,
                                                         !.flags = Flags \ {"UP"}]]
             \/ UNCHANGED ifs
          /\ dev' = [dev EXCEPT ![d].pc = "attached", ![d].name = n]
          /\ files' = [files EXCEPT ![dev[d].tun].iface = i]
    BY <1>2 DEF TunSetIff
  <2>2. ifs' \in [IfIds -> Interfaces]
    BY <2>1, <1>a DEF TypeOK
  <2>3. dev' \in [Devs -> Handle] /\ Shapes' /\ files' \in [Fds -> Files]
    BY <1>2, <2>1, <1>b DEF TunSetIff
  <2> QED BY <2>2, <2>3 DEF TypeOK
<1>3. CASE ConnectUtun(d)
  <2>1. PICK i \in IfIds \cap {NewIf}, n \in UnitNames(Id(dev[d].name)) :
          /\ ifs' = [ifs EXCEPT ![i] = [Absent EXCEPT !.alive = TRUE, !.name = n,
                                                      !.flags = Flags \ {"UP"}]]
          /\ dev' = [dev EXCEPT ![d].pc = "attached", ![d].name = n]
          /\ files' = [files EXCEPT ![dev[d].tun].iface = i]
    BY <1>3 DEF ConnectUtun
  <2>2. n \in Fixed
    BY <2>1 DEF UnitNames, FreeNames
  <2>3. ifs' \in [IfIds -> Interfaces]
    BY <2>1, <2>2, <1>a
  <2>4. dev' \in [Devs -> Handle] /\ Shapes' /\ files' \in [Fds -> Files]
    BY <1>3, <2>1, <2>2, <1>b DEF ConnectUtun
  <2> QED BY <2>3, <2>4 DEF TypeOK
<1>4. CASE OpenCtl(d)
  <2>1. Lowest \in Fds
    BY <1>4, LowestIsFree DEF OpenCtl, FreeFds
  <2> DEFINE h == [Advance(d, dev[d].todo) EXCEPT !.ctl = Lowest]
  <2>2. h \in Handle
    BY <1>0, <2>1 DEF Handle, Advance
  <2>3. Shape(h)
    BY <1>0, <1>4, <2>1, Outside DEF Handle, Shape, Using, OpenCtl, Advance
  <2>4. dev' = [dev EXCEPT ![d] = h]
    BY <1>4 DEF OpenCtl
  <2> HIDE DEF h
  <2>5. dev' \in [Devs -> Handle] /\ Shapes'
    BY <2>2, <2>3, <2>4, HandleStep
  <2>6. files' \in [Fds -> Files]
    BY <1>4, <2>1, FileTypes DEF OpenCtl, TypeOK
  <2> QED BY <1>4, <2>5, <2>6 DEF OpenCtl, TypeOK
<1> QED BY <1>1, <1>2, <1>3, <1>4

(* The steps that end a device, or an error a call.                          *)
Ends(d) == Split(d) \/ DropHalf(d) \/ IntoRawFd(d) \/ CloseRaw(d) \/ DropDevice(d)

LEMMA EndTypes ==
    ASSUME TypeInv, NEW d \in Devs, UNCHANGED platform, Ends(d) \/ Fails(d)
    PROVE  TypeInv'
<1> USE DEF TypeInv
<1>0. dev[d] \in Handle /\ Shape(dev[d])
  BY DEF TypeOK, Shapes
<1>a. ASSUME Drop(d) PROVE TypeInv'
  <2>1. dev' \in [Devs -> Handle] /\ Shapes'
    BY <1>a, NoDeviceType, HandleStep DEF Drop
  <2> QED BY <1>a, <2>1, CloseTypes DEF Drop, TypeOK
<1>1. CASE Split(d)
  <2> DEFINE h == [NoDevice EXCEPT !.pc = "split", !.tun = dev[d].tun, !.halves = Halves]
  <2>1. h \in Handle /\ Shape(h)
    BY <1>0, <1>1, NoDeviceType DEF Split, NoDevice, Handle, Shape, Using
  <2>2. dev' = [dev EXCEPT ![d] = h]
    BY <1>1 DEF Split
  <2> HIDE DEF h
  <2>3. dev' \in [Devs -> Handle] /\ Shapes'
    BY <2>1, <2>2, HandleStep
  <2> QED BY <1>1, <2>3, CloseTypes DEF Split, TypeOK
<1>2. CASE DropHalf(d)
  <2>1. PICK x \in dev[d].halves :
          IF dev[d].halves = {x}
          THEN Drop(d)
          ELSE /\ dev' = [dev EXCEPT ![d].halves = @ \ {x}]
               /\ UNCHANGED <<files, ifs>>
    BY <1>2 DEF DropHalf
  <2>2. CASE dev[d].halves = {x}
    BY <2>1, <2>2, <1>a
  <2>3. CASE dev[d].halves # {x}
    <3> DEFINE h == [dev[d] EXCEPT !.halves = @ \ {x}]
    <3>1. h \in Handle /\ Shape(h)
      BY <1>0 DEF Handle, Shape
    <3>2. dev' = [dev EXCEPT ![d] = h]
      BY <2>1, <2>3 DEF TypeOK
    <3> HIDE DEF h
    <3>3. dev' \in [Devs -> Handle] /\ Shapes'
      BY <3>1, <3>2, HandleStep
    <3> QED BY <2>1, <2>3, <3>3 DEF TypeOK
  <2> QED BY <2>2, <2>3
<1>3. CASE IntoRawFd(d)
  <2> DEFINE h == [NoDevice EXCEPT !.pc = "raw", !.tun = dev[d].tun]
  <2>1. h \in Handle /\ Shape(h)
    BY <1>0, <1>3, NoDeviceType DEF IntoRawFd, NoDevice, Handle, Shape, Using
  <2>2. dev' = [dev EXCEPT ![d] = h]
    BY <1>3 DEF IntoRawFd
  <2> HIDE DEF h
  <2>3. dev' \in [Devs -> Handle] /\ Shapes'
    BY <2>1, <2>2, HandleStep
  <2> QED BY <1>3, <2>3, CloseTypes DEF IntoRawFd, TypeOK
<1>4. CASE CloseRaw(d)
  BY <1>4, <1>a DEF CloseRaw
<1>5. CASE DropDevice(d)
  BY <1>5, <1>a DEF DropDevice
<1>6. CASE Fails(d)
  <2>1. CASE ~dev[d].built
    BY <1>6, <1>a, <2>1 DEF Fails
  <2>2. CASE dev[d].built
    <3>1. dev[d].pc \in Using
      BY <1>0, <1>6, <2>2 DEF Fails, Shape, Using
    <3>2. Advance(d, {}) \in Handle /\ Shape(Advance(d, {}))
      BY <3>1, AdvanceType
    <3>3. dev' = [dev EXCEPT ![d] = Advance(d, {})] /\ UNCHANGED <<files, ifs>>
      BY <1>6, <2>2 DEF Fails
    <3>4. dev' \in [Devs -> Handle] /\ Shapes'
      BY <3>2, <3>3, HandleStep
    <3> QED BY <3>3, <3>4 DEF TypeOK
  <2> QED BY <2>1, <2>2 DEF Fails
<1> QED BY <1>1, <1>2, <1>3, <1>4, <1>5, <1>6 DEF Ends

LEMMA AdminTypes ==
    ASSUME TypeInv, UNCHANGED platform, NEW i \in Alive, AdminStep(i)
    PROVE  TypeInv'
<1> USE DEF TypeInv
<1>0. i \in IfIds
  BY DEF Alive
<1>1. CASE AdminFlags(i)
  <2>1. ifs' \in [IfIds -> Interfaces]
    BY <1>0, <1>1 DEF AdminFlags, TypeOK, Interfaces, SymDiff
  <2> QED BY <1>1, <2>1 DEF AdminFlags, TypeOK, Shapes, Shape
<1>2. CASE AdminRename(i)
  <2>1. ifs' \in [IfIds -> Interfaces]
    BY <1>0, <1>2 DEF AdminRename, TypeOK, Interfaces, FreeNames
  <2> QED BY <1>2, <2>1 DEF AdminRename, TypeOK, Shapes, Shape
<1>3. CASE AdminDelete(i)
  <2>1. ifs' \in [IfIds -> Interfaces]
    BY <1>0, <1>3, AbsentType DEF AdminDelete, TypeOK
  <2>2. files' \in [Fds -> Files]
    BY <1>3 DEF AdminDelete, TypeOK, Files
  <2> QED BY <1>3, <2>1, <2>2 DEF AdminDelete, TypeOK, Shapes, Shape
<1> QED BY <1>1, <1>2, <1>3 DEF AdminStep

(* The steps of Next, grouped.                                               *)
Steps(d) == \/ Requests(d) \/ SetName(d) \/ TunSet(d) \/ SetAlias(d)
            \/ New(d) \/ TunSetIff(d) \/ ConnectUtun(d) \/ OpenCtl(d)
            \/ Ends(d) \/ Fails(d)

LEMMA StepsOfDevices == \A d \in Devs : DeviceStep(d) <=> Steps(d)
BY DEF DeviceStep, PosixStep, LinuxStep, MacStep, Ends, Steps

LEMMA StepCases ==
    ASSUME Next
    PROVE  /\ UNCHANGED platform
           /\ (\E d \in Devs : Steps(d)) \/ (\E i \in Alive : AdminStep(i))
BY DEF Next, DeviceStep, PosixStep, LinuxStep, MacStep, Ends, Steps

LEMMA TypeStep == TypeInv /\ [Next]_vars => TypeInv'
<1> SUFFICES ASSUME TypeInv, [Next]_vars PROVE TypeInv'
  OBVIOUS
<1>1. CASE Next
  BY <1>1, StepCases, RequestTypes, NewTypes, EndTypes, AdminTypes DEF Steps
<1>2. CASE UNCHANGED vars
  BY <1>2 DEF vars, TypeInv, TypeOK, Shapes, Shape
<1> QED BY <1>1, <1>2

LEMMA TypeInit == Init => TypeInv
<1> SUFFICES ASSUME Init PROVE TypeInv
  OBVIOUS
<1>1. dev \in [Devs -> Handle] /\ Shapes
  BY NoDeviceType DEF Init, Shapes
<1>2. files \in [Fds -> Files]
  BY FileTypes DEF Init
<1>3. ASSUME NEW n \in Fixed PROVE Foreign(n) \in Interfaces
  BY DEF Foreign, Absent, Interfaces
<1>4. ifs \in [IfIds -> Interfaces]
  BY <1>3, AbsentType DEF Init
<1> QED BY <1>1, <1>2, <1>4 DEF TypeInv, TypeOK, Init

(* Every handle, every descriptor and every interface stays well formed,     *)
(* whatever the devices and the administrator do (TypeOK of TunDevice).      *)
THEOREM TypeCorrect == Spec => []TypeOK
<1>1. TypeInv => TypeOK
  BY DEF TypeInv
<1> QED BY TypeInit, TypeStep, <1>1, PTL DEF Spec
-----------------------------------------------------------------------------
(* Who owns a descriptor, and what is attached to it.                        *)

(* Ownership, descriptor by descriptor.                                      *)
Owners ==
    /\ \A f \in Fds : files[f] # Free => \E d \in Devs : f = dev[d].tun \/ f = dev[d].ctl
    /\ \A d \in Devs : /\ dev[d].tun # NoFd => files[dev[d].tun].kind = "tun"
                       /\ dev[d].ctl # NoFd => files[dev[d].ctl].kind = "ctl"
    /\ \A d, e \in Devs : d # e /\ dev[d].tun = dev[e].tun => dev[d].tun = NoFd
    /\ \A d, e \in Devs : d # e /\ dev[d].ctl = dev[e].ctl => dev[d].ctl = NoFd

(* An interface behind a descriptor is there, and behind no other one.       *)
Attachments ==
    /\ \A f \in Fds : files[f].iface # NoIf => files[f].kind = "tun" /\ ifs[files[f].iface].alive
    /\ \A f, g \in Fds : files[f].iface # NoIf /\ files[f].iface = files[g].iface => f = g
    /\ \A d \in Devs : dev[d].pc = "opened" => files[dev[d].tun].iface = NoIf

(* What keeps an interface alive.                                            *)
Kept ==
    \A i \in IfIds : ifs[i].alive => ifs[i].foreign \/ "persist" \in ifs[i].set
                                     \/ \E f \in Fds : files[f].iface = i

OwnInv == TypeInv /\ Owners /\ Attachments /\ Kept

LEMMA FdRange ==
    ASSUME TypeInv, NEW d \in Devs
    PROVE  /\ dev[d].tun # NoFd => dev[d].tun \in Fds
           /\ dev[d].ctl # NoFd => dev[d].ctl \in Fds
BY DEF TypeInv, TypeOK, Handle

LEMMA OwnersOwn == OwnInv => Ownership
<1> SUFFICES ASSUME OwnInv PROVE Ownership
  OBVIOUS
<1> USE DEF OwnInv
<1>1. \A d \in Devs : Owned(d) \subseteq Fds
  BY FdRange DEF Owned
<1>2. \A d \in Devs : \A f \in Owned(d) : files[f] # Free
  BY FdRange DEF Owners, Owned, Free
<1>3. \A f \in Fds : files[f] # Free => \E d \in Devs : f \in Owned(d)
  BY Outside DEF Owners, Owned
<1>4. {f \in Fds : files[f] # Free} = UNION {Owned(d) : d \in Devs}
  BY <1>1, <1>2, <1>3
<1>5. ASSUME NEW d \in Devs, NEW e \in Devs, d # e PROVE Owned(d) \cap Owned(e) = {}
  BY <1>5 DEF Owners, Owned
<1> QED BY <1>4, <1>5 DEF Ownership, Owners

LEMMA KeptByDevices == OwnInv => NothingLeftBehind
<1> SUFFICES ASSUME OwnInv, NEW i \in Alive, ~ifs[i].foreign, ~Persistent(i)
             PROVE  \E d \in Devs : Mine(d) = i
  BY DEF NothingLeftBehind
<1> USE DEF OwnInv
<1>1. PICK f \in Fds : files[f].iface = i
  BY DEF Kept, Persistent, Alive
<1>2. i # NoIf /\ files[f] # Free
  BY <1>1, Outside DEF Alive, Free
<1>3. PICK d \in Devs : f = dev[d].tun \/ f = dev[d].ctl
  BY <1>2 DEF Owners
<1>4. files[f].kind = "tun"
  BY <1>1, <1>2 DEF Attachments
<1>5. f = dev[d].tun
  BY <1>3, <1>4, Outside DEF Owners
<1> QED BY <1>1, <1>5, Outside DEF Mine

(* A step that opens and closes nothing: descriptors, handles' numbers and   *)
(* the interfaces there are stay.                                            *)
Quiet ==
    /\ files' = files
    /\ \A d \in Devs : /\ dev'[d].tun = dev[d].tun /\ dev'[d].ctl = dev[d].ctl
                       /\ dev'[d].pc = "opened" <=> dev[d].pc = "opened"
    /\ \A i \in IfIds : /\ ifs'[i].alive = ifs[i].alive /\ ifs'[i].foreign = ifs[i].foreign
                        /\ ifs[i].set \subseteq ifs'[i].set

LEMMA QuietOwn ==
    ASSUME OwnInv, TypeInv', Quiet
    PROVE  OwnInv'
<1> USE DEF OwnInv, Quiet
<1>1. Owners'
  BY DEF Owners, Free
<1>2. Attachments'
  BY FdRange, Outside DEF Attachments, TypeInv, TypeOK, Files
<1>3. Kept'
  BY DEF Kept
<1> QED BY <1>1, <1>2, <1>3

LEMMA RequestsAreQuiet ==
    ASSUME TypeInv, NEW d \in Devs, 
           Requests(d) \/ SetName(d) \/ TunSet(d) \/ SetAlias(d)
    PROVE  Quiet
<1> USE DEF TypeInv, TypeOK
<1>0. dev[d] \in Handle
  OBVIOUS
<1>a. ASSUME NEW rest, dev[d].pc # "opened", dev' = [dev EXCEPT ![d] = Advance(d, rest)]
      PROVE  \A e \in Devs : /\ dev'[e].tun = dev[e].tun /\ dev'[e].ctl = dev[e].ctl
                             /\ dev'[e].pc = "opened" <=> dev[e].pc = "opened"
  BY <1>0, <1>a DEF Advance, Handle
<1>1. CASE Call(d)
  BY <1>0, <1>1 DEF Call, Quiet, Handle
<1>2. CASE SetAttr(d)
  <2>1. PICK i \in IfIds : ifs' = [ifs EXCEPT ![i].set = @ \cup {First(dev[d].todo)}]
    BY <1>2 DEF SetAttr, Named, Alive
  <2>2. \A e \in Devs : /\ dev'[e].tun = dev[e].tun /\ dev'[e].ctl = dev[e].ctl
                        /\ dev'[e].pc = "opened" <=> dev[e].pc = "opened"
    BY <1>a, <1>2 DEF SetAttr
  <2> QED BY <1>2, <2>1, <2>2 DEF SetAttr, Quiet, Interfaces
<1>3. CASE GetFlags(d)
  <2>1. PICK fl : dev' = [dev EXCEPT ![d].pc = "flags", ![d].flags = fl]
    BY <1>3 DEF GetFlags
  <2> QED BY <1>0, <1>3, <2>1 DEF GetFlags, Quiet, Handle
<1>4. CASE SetFlags(d)
  <2>1. PICK i \in IfIds : ifs' = [ifs EXCEPT ![i].flags = dev[d].flags \ {"RUNNING"}]
    BY <1>4 DEF SetFlags, Named, Alive
  <2>2. \A e \in Devs : /\ dev'[e].tun = dev[e].tun /\ dev'[e].ctl = dev[e].ctl
                        /\ dev'[e].pc = "opened" <=> dev[e].pc = "opened"
    BY <1>a, <1>4 DEF SetFlags
  <2> QED BY <1>4, <2>1, <2>2 DEF SetFlags, Quiet, Interfaces
<1>5. CASE SetName(d)
  <2>1. PICK v \in RenameTo, i \in IfIds, n \in Fixed :
          ifs' = [ifs EXCEPT ![i].name = n] /\ dev' = [dev EXCEPT ![d].name = v]
    BY <1>5 DEF SetName, Named, Alive, Completions, FreeNames
  <2> QED BY <1>0, <1>5, <2>1 DEF SetName, Quiet, Interfaces, Handle
<1>6. CASE TunSet(d)
  <2>1. Mine(d) \in IfIds
    BY <1>0, <1>6 DEF TunSet, Mine, Files, Handle
  <2> QED BY <1>6, <2>1 DEF TunSet, Quiet, Interfaces
<1>7. CASE SetAlias(d)
  BY <1>7 DEF SetAlias, Quiet, Interfaces, Named, Alive
<1> QED BY <1>1, <1>2, <1>3, <1>4, <1>5, <1>6, <1>7 DEF Requests

(* new opens a descriptor, and later the socket: a free number gets an owner *)
(* that had none of its kind.                                                *)
LEMMA OpensOwn ==
    ASSUME OwnInv, TypeInv', NEW d \in Devs, NEW f \in FreeFds, NEW h \in Handle,
           NEW k \in {"tun", "ctl"},
           dev' = [dev EXCEPT ![d] = h], files' = [files EXCEPT ![f] = [Free EXCEPT !.kind = k]],
           UNCHANGED ifs,
           k = "tun" => dev[d].tun = NoFd /\ h.tun = f /\ h.ctl = dev[d].ctl,
           k = "ctl" => dev[d].ctl = NoFd /\ h.ctl = f /\ h.tun = dev[d].tun /\ h.pc # "opened"
    PROVE  OwnInv'
<1> USE DEF OwnInv
<1>0. /\ f \in Fds /\ files[f] = Free /\ files \in [Fds -> Files] /\ dev \in [Devs -> Handle]
      /\ files'[f].kind = k /\ files'[f].iface = NoIf /\ files'[f] # Free
      /\ \A g \in Fds : g # f => files'[g] = files[g]
      /\ dev'[d] = h /\ \A e \in Devs : e # d => dev'[e] = dev[e]
  BY DEF FreeFds, TypeInv, TypeOK, Free
<1>1. \A e \in Devs : dev[e].tun # f /\ dev[e].ctl # f
  BY <1>0, Outside DEF Owners, Free
<1>2. Owners'
  <2>1. ASSUME NEW g \in Fds, files'[g] # Free
        PROVE  \E e \in Devs : g = dev'[e].tun \/ g = dev'[e].ctl
    <3>1. CASE g = f
      BY <3>1, <1>0
    <3>2. CASE g # f
      <4>1. PICK e \in Devs : g = dev[e].tun \/ g = dev[e].ctl
        BY <2>1, <3>2, <1>0 DEF Owners
      <4> QED BY <4>1, <1>0, Outside
    <3> QED BY <3>1, <3>2
  <2>2. ASSUME NEW e \in Devs
        PROVE  /\ dev'[e].tun # NoFd => files'[dev'[e].tun].kind = "tun"
               /\ dev'[e].ctl # NoFd => files'[dev'[e].ctl].kind = "ctl"
    BY <1>0, <1>1, FdRange DEF Owners
  <2>3. ASSUME NEW e \in Devs, NEW c \in Devs, e # c
        PROVE  /\ dev'[e].tun = dev'[c].tun => dev'[e].tun = NoFd
               /\ dev'[e].ctl = dev'[c].ctl => dev'[e].ctl = NoFd
    BY <1>0, <1>1, <2>3 DEF Owners
  <2>4. Free' = Free
    BY DEF Free
  <2> QED BY <2>1, <2>2, <2>3, <2>4 DEF Owners
<1>3. Attachments'
  <2>1. \A g \in Fds : files'[g].iface = files[g].iface
    BY <1>0 DEF Free
  <2>2. \A g \in Fds : files'[g].iface # NoIf => files'[g].kind = files[g].kind
    BY <1>0
  <2>3. ASSUME NEW e \in Devs, dev'[e].pc = "opened" PROVE files'[dev'[e].tun].iface = NoIf
    <3>1. CASE e = d
      BY <3>1, <2>3, <1>0
    <3>2. CASE e # d
      <4>1. dev[e].tun \in Fds
        BY <2>3, <3>2, <1>0, FdRange DEF TypeInv, Shapes, Shape
      <4> QED BY <2>3, <3>2, <1>0, <2>1, <4>1 DEF Attachments
    <3> QED BY <3>1, <3>2
  <2> QED BY <2>1, <2>2, <2>3 DEF Attachments
<1>4. Kept'
  BY <1>0 DEF Kept, Free
<1> QED BY <1>2, <1>3, <1>4

(* TUNSETIFF or connect: a descriptor that had none gets an interface nobody *)
(* else holds.                                                               *)
LEMMA AttachesOwn ==
    ASSUME OwnInv, TypeInv', NEW d \in Devs, NEW i \in IfIds, NEW h \in Handle,
           dev[d].pc = "opened", h.pc = "attached", h.tun = dev[d].tun, h.ctl = dev[d].ctl,
           dev' = [dev EXCEPT ![d] = h],
           files' = [files EXCEPT ![dev[d].tun].iface = i],
           ~Attached(i), ifs'[i].alive, \A j \in IfIds : j # i => ifs'[j] = ifs[j]
    PROVE  OwnInv'
<1> USE DEF OwnInv
<1> DEFINE f == dev[d].tun
<1>0. f \in Fds
  BY FdRange DEF TypeInv, Shapes, Shape
<1>1. files[f].kind = "tun" /\ files[f].iface = NoIf
  BY <1>0, Outside DEF Owners, Attachments
<1>2. /\ files'[f].iface = i /\ files'[f].kind = "tun" 
      /\ \A g \in Fds : g # f => files'[g] = files[g]
      /\ \A g \in Fds : files'[g].kind = files[g].kind
      /\ \A e \in Devs : dev'[e].tun = dev[e].tun /\ dev'[e].ctl = dev[e].ctl
      /\ \A e \in Devs : dev'[e].pc = "opened" => e # d /\ dev[e].pc = "opened"
  BY <1>0, <1>1 DEF TypeInv, TypeOK, Files
<1>3. \A g \in Fds : files[g].iface # i
  BY Outside DEF Attached, Attachments
<1> HIDE DEF f
<1>4. Owners'
  <2>1. \A g \in Fds : files'[g] # Free => files[g] # Free
    BY <1>1, <1>2 DEF Free
  <2>2. Free' = Free
    BY DEF Free
  <2> QED BY <1>2, <2>1, <2>2, FdRange DEF Owners
<1>5. Attachments'
  <2>1. \A g \in Fds : files'[g].iface # NoIf
             => files'[g].kind = "tun" /\ ifs'[files'[g].iface].alive
    BY <1>2, <1>3 DEF Attachments, TypeInv, TypeOK, Files
  <2>2. \A g, k \in Fds : files'[g].iface # NoIf /\ files'[g].iface = files'[k].iface => g = k
    BY <1>2, <1>3 DEF Attachments
  <2>3. ASSUME NEW e \in Devs, dev'[e].pc = "opened" PROVE files'[dev'[e].tun].iface = NoIf
    <3>1. e # d /\ dev[e].pc = "opened" /\ dev'[e].tun = dev[e].tun
      BY <2>3, <1>2
    <3>2. dev[e].tun \in Fds /\ dev[e].tun # f
      BY <3>1, <1>0, FdRange, Outside DEF TypeInv, Shapes, Shape, Owners, f
    <3>3. files'[dev[e].tun] = files[dev[e].tun]
      BY <3>2, <1>2
    <3>4. files[dev[e].tun].iface = NoIf
      BY <3>1 DEF Attachments
    <3> QED BY <3>1, <3>3, <3>4
  <2> QED BY <2>1, <2>2, <2>3 DEF Attachments
<1>6. Kept'
  <2> SUFFICES ASSUME NEW j \in IfIds, ifs'[j].alive
               PROVE  ifs'[j].foreign \/ "persist" \in ifs'[j].set
                        \/ \E g \in Fds : files'[g].iface = j
    BY DEF Kept
  <2>1. CASE j = i
    BY <2>1, <1>0, <1>2
  <2>2. CASE j # i /\ ~ifs[j].foreign /\ "persist" \notin ifs[j].set
    <3>1. PICK g \in Fds : files[g].iface = j
      BY <2>2 DEF Kept
    <3>2. g # f
      BY <3>1, <1>1, Outside
    <3> QED BY <3>1, <3>2, <1>2
  <2>3. CASE j # i /\ (ifs[j].foreign \/ "persist" \in ifs[j].set)
    BY <2>3
  <2> QED BY <2>1, <2>2, <2>3
<1> QED BY <1>4, <1>5, <1>6

(* A device gives up all its descriptors, or only its socket.                *)
LEMMA ReleasesOwn ==
    ASSUME OwnInv, TypeInv', NEW d \in Devs, NEW h \in Handle,
           dev' = [dev EXCEPT ![d] = h], h.ctl = NoFd, h.pc # "opened",
           \/ h.tun = NoFd /\ Close({dev[d].tun, dev[d].ctl})
           \/ h.tun = dev[d].tun /\ Close({dev[d].ctl})
    PROVE  OwnInv'
<1> USE DEF OwnInv
<1>1. PICK S : /\ S \subseteq {dev[d].tun, dev[d].ctl} /\ dev[d].ctl \in S
               /\ h.tun # NoFd => h.tun = dev[d].tun
               /\ dev[d].tun \notin S => h.tun = dev[d].tun
               /\ h.tun # NoFd => h.tun \notin S
               /\ Close(S)
  <2>1. CASE h.tun = NoFd /\ Close({dev[d].tun, dev[d].ctl})
    BY <2>1
  <2>2. CASE h.tun = dev[d].tun /\ Close({dev[d].ctl})
    <3>1. dev[d].tun # NoFd => dev[d].tun # dev[d].ctl
      BY DEF Owners
    <3> QED BY <2>2, <3>1
  <2> QED BY <2>1, <2>2
<1>2. /\ dev'[d] = h /\ \A e \in Devs : e # d => dev'[e] = dev[e]
  BY DEF TypeInv, TypeOK
<1>3. \A f \in Fds : files'[f] = IF f \in S THEN Free ELSE files[f]
  BY <1>1 DEF Close
<1>4. \A e \in Devs : e # d => /\ dev[e].tun # NoFd => dev[e].tun \notin S
                               /\ dev[e].ctl # NoFd => dev[e].ctl \notin S
  BY <1>1 DEF Owners
<1>5. Owners'
  <2>1. ASSUME NEW f \in Fds, files'[f] # Free
        PROVE  \E e \in Devs : f = dev'[e].tun \/ f = dev'[e].ctl
    <3>1. f \notin S /\ files[f] # Free
      BY <2>1, <1>3
    <3>2. PICK e \in Devs : f = dev[e].tun \/ f = dev[e].ctl
      BY <3>1 DEF Owners
    <3> QED BY <3>1, <3>2, <1>1, <1>2
  <2>2. ASSUME NEW e \in Devs
        PROVE  /\ dev'[e].tun # NoFd => files'[dev'[e].tun].kind = "tun"
               /\ dev'[e].ctl # NoFd => files'[dev'[e].ctl].kind = "ctl"
    BY <1>1, <1>2, <1>3, <1>4, FdRange DEF Owners
  <2>3. ASSUME NEW e \in Devs, NEW c \in Devs, e # c
        PROVE  /\ dev'[e].tun = dev'[c].tun => dev'[e].tun = NoFd
               /\ dev'[e].ctl = dev'[c].ctl => dev'[e].ctl = NoFd
    BY <1>1, <1>2, <2>3 DEF Owners
  <2>4. Free' = Free
    BY DEF Free
  <2> QED BY <2>1, <2>2, <2>3, <2>4 DEF Owners
<1>6. ASSUME NEW f \in Fds, files'[f].iface # NoIf
      PROVE  f \notin S /\ files'[f] = files[f] /\ ifs'[files[f].iface] = ifs[files[f].iface]
  <2>1. f \notin S /\ files'[f] = files[f]
    BY <1>3, <1>6 DEF Free
  <2>2. files[f].iface \in IfIds
    BY <1>6, <2>1 DEF TypeInv, TypeOK, Files
  <2>3. \A g \in S \ {NoFd} : files[g].iface # files[f].iface
    BY <1>1, <1>6, <2>1, FdRange DEF Attachments
  <2> QED BY <1>1, <2>1, <2>2, <2>3 DEF Close
<1>7. Attachments'
  <2>1. \A f \in Fds : files'[f].iface # NoIf
             => files'[f].kind = "tun" /\ ifs'[files'[f].iface].alive
    BY <1>6 DEF Attachments
  <2>2. \A f, g \in Fds : files'[f].iface # NoIf /\ files'[f].iface = files'[g].iface => f = g
    BY <1>6 DEF Attachments
  <2>3. ASSUME NEW e \in Devs, dev'[e].pc = "opened" PROVE files'[dev'[e].tun].iface = NoIf
    <3>1. e # d /\ dev'[e] = dev[e]
      BY <2>3, <1>2
    <3>2. dev[e].tun \in Fds /\ dev[e].tun \notin S
      BY <2>3, <3>1, <1>4, FdRange DEF TypeInv, Shapes, Shape
    <3>3. files[dev[e].tun].iface = NoIf
      BY <2>3, <3>1 DEF Attachments
    <3> QED BY <3>1, <3>2, <3>3, <1>3
  <2> QED BY <2>1, <2>2, <2>3 DEF Attachments
<1>8. Kept'
  <2> SUFFICES ASSUME NEW j \in IfIds, ifs'[j].alive
               PROVE  ifs'[j].foreign \/ "persist" \in ifs'[j].set
                        \/ \E f \in Fds : files'[f].iface = j
    BY DEF Kept
  <2>1. /\ ifs'[j] = ifs[j]
        /\ "persist" \in ifs[j].set \/ \A g \in S \ {NoFd} : files[g].iface # j
    BY <1>1 DEF Close, Persistent, Absent
  <2>2. CASE ~ifs[j].foreign /\ "persist" \notin ifs[j].set
    <3>1. PICK f \in Fds : files[f].iface = j
      BY <2>1, <2>2 DEF Kept
    <3>2. f \notin S
      BY <2>1, <2>2, <3>1, Outside
    <3> QED BY <3>1, <3>2, <1>3
  <2> QED BY <2>1, <2>2
<1> QED BY <1>5, <1>7, <1>8

(* The administrator deletes an interface: what was attached to it is        *)
(* attached to nothing.                                                      *)
LEMMA DeletesOwn ==
    ASSUME OwnInv, TypeInv', NEW i \in IfIds, AdminDelete(i)
    PROVE  OwnInv'
<1> USE DEF OwnInv
<1>1. /\ dev' = dev
      /\ \A f \in Fds : /\ files[f].iface = i => files'[f].iface = NoIf
                        /\ files[f].iface # i => files'[f] = files[f]
                        /\ files'[f].kind = files[f].kind
      /\ \A j \in IfIds : j # i => ifs'[j] = ifs[j]
      /\ ~ifs'[i].alive
  BY DEF AdminDelete, TypeInv, TypeOK, Files, Absent
<1>2. Owners'
  <2>1. \A f \in Fds : files'[f] # Free => files[f] # Free
    BY <1>1, Outside DEF Free
  <2>2. Free' = Free
    BY DEF Free
  <2> QED BY <1>1, <2>1, <2>2, FdRange DEF Owners
<1>3. Attachments'
  <2>1. \A f \in Fds : files'[f].iface # NoIf
             => files'[f].kind = "tun" /\ ifs'[files'[f].iface].alive
    BY <1>1 DEF Attachments, TypeInv, TypeOK, Files
  <2>2. \A f, g \in Fds : files'[f].iface # NoIf /\ files'[f].iface = files'[g].iface => f = g
    BY <1>1 DEF Attachments
  <2>3. ASSUME NEW e \in Devs, dev'[e].pc = "opened" PROVE files'[dev'[e].tun].iface = NoIf
    <3>1. dev[e].tun \in Fds /\ files[dev[e].tun].iface = NoIf
      BY <2>3, <1>1, FdRange DEF TypeInv, Shapes, Shape, Attachments
    <3> QED BY <3>1, <1>1, Outside
  <2> QED BY <2>1, <2>2, <2>3 DEF Attachments
<1>4. Kept'
  BY <1>1 DEF Kept
<1> QED BY <1>2, <1>3, <1>4

(* An interface that is not there has no descriptor.                         *)
LEMMA NewIsUnattached ==
    ASSUME OwnInv, NEW i \in IfIds, i \notin Alive
    PROVE  ~Attached(i)
BY Outside DEF OwnInv, Attachments, Attached, Alive

LEMMA OwnStep == OwnInv /\ [Next]_vars => OwnInv'
<1> SUFFICES ASSUME OwnInv, [Next]_vars PROVE OwnInv'
  OBVIOUS
<1>0. TypeInv /\ TypeInv'
  BY TypeStep DEF OwnInv
<1>1. ASSUME NEW d \in Devs, Requests(d) \/ SetName(d) \/ TunSet(d) \/ SetAlias(d)
      PROVE  OwnInv'
  BY <1>0, <1>1, RequestsAreQuiet, QuietOwn
<1>2. ASSUME NEW d \in Devs, New(d) PROVE OwnInv'
  <2>1. PICK n \in Fixed \cup {Template, LongName, NoName}, S \in SUBSET Asks :
          dev' = [dev EXCEPT ![d].pc = "opened", ![d].name = n, ![d].todo = S,
                             ![d].tun = Lowest]
    BY <1>2 DEF New
  <2>2. Lowest \in FreeFds
    BY <1>2, LowestIsFree DEF New
  <2>3. dev[d] \in Handle /\ dev[d].tun = NoFd
    BY <1>0, <1>2 DEF New, TypeInv, TypeOK, Shapes, Shape
  <2> DEFINE h == dev'[d]
  <2>4. h \in Handle /\ h.tun = Lowest /\ h.ctl = dev[d].ctl
    BY <1>0, <2>1, <2>3 DEF TypeInv, TypeOK, Handle
  <2>5. dev' = [dev EXCEPT ![d] = h]
    BY <1>0, <2>1 DEF TypeInv, TypeOK
  <2> HIDE DEF h
  <2> QED BY <1>0, <1>2, <2>2, <2>3, <2>4, <2>5, OpensOwn DEF New
<1>3. ASSUME NEW d \in Devs, OpenCtl(d) PROVE OwnInv'
  <2>1. Lowest \in FreeFds
    BY <1>3, LowestIsFree DEF OpenCtl
  <2>2. dev[d] \in Handle /\ dev[d].ctl = NoFd
    BY <1>0, <1>3 DEF OpenCtl, TypeInv, TypeOK, Shapes, Shape, Using
  <2> DEFINE h == [Advance(d, dev[d].todo) EXCEPT !.ctl = Lowest]
  <2>3. dev' = [dev EXCEPT ![d] = h] /\ dev'[d] = h
    BY <1>0, <1>3 DEF OpenCtl, TypeInv, TypeOK
  <2>4. h \in Handle
    BY <1>0, <2>3 DEF TypeInv, TypeOK
  <2>5. h.ctl = Lowest /\ h.tun = dev[d].tun /\ h.pc # "opened"
    BY <2>2 DEF Advance, Handle
  <2> HIDE DEF h
  <2> QED BY <1>0, <1>3, <2>1, <2>2, <2>3, <2>4, <2>5, OpensOwn DEF OpenCtl
<1>a. ASSUME NEW d \in Devs, NEW i \in IfIds, NEW n, dev[d].pc = "opened",
             dev' = [dev EXCEPT ![d].pc = "attached", ![d].name = n],
             files' = [files EXCEPT ![dev[d].tun].iface = i],
             ~Attached(i), ifs'[i].alive, \A j \in IfIds : j # i => ifs'[j] = ifs[j]
      PROVE  OwnInv'
  <2> DEFINE h == dev'[d]
  <2>1. h \in Handle /\ h.pc = "attached" /\ h.tun = dev[d].tun /\ h.ctl = dev[d].ctl
    BY <1>0, <1>a DEF TypeInv, TypeOK, Handle
  <2>2. dev' = [dev EXCEPT ![d] = h]
    BY <1>0, <1>a DEF TypeInv, TypeOK
  <2> HIDE DEF h
  <2> QED BY <1>0, <1>a, <2>1, <2>2, AttachesOwn
<1>4. ASSUME NEW d \in Devs, TunSetIff(d) PROVE OwnInv'
  <2>1. PICK i \in IfIds, n \in Fixed :
          /\ \/ /\ i = NewIf
                /\ ifs' = [ifs EXCEPT ![i] = [Absent EXCEPT !.alive = TRUE, !.name = n,
                                                            !.flags = Flags \ {"UP"}]]
             \/ /\ i \in Named(dev[d].name) /\ ~Attached(i)
                /\ UNCHANGED ifs
          /\ dev' = [dev EXCEPT ![d].pc = "attached", ![d].name = n]
          /\ files' = [files EXCEPT ![dev[d].tun].iface = i]
    BY <1>4 DEF TunSetIff
  <2>2. ~Attached(i)
    BY <2>1, NewIfIsNew, NewIsUnattached
  <2>3. ifs'[i].alive /\ \A j \in IfIds : j # i => ifs'[j] = ifs[j]
    BY <1>0, <2>1 DEF TypeInv, TypeOK, Absent, Named, Alive
  <2> QED BY <1>4, <2>1, <2>2, <2>3, <1>a DEF TunSetIff
<1>5. ASSUME NEW d \in Devs, ConnectUtun(d) PROVE OwnInv'
  <2>1. PICK i \in IfIds \cap {NewIf}, n \in UnitNames(Id(dev[d].name)) :
          /\ ifs' = [ifs EXCEPT ![i] = [Absent EXCEPT !.alive = TRUE, !.name = n,
                                                      !.flags = Flags \ {"UP"}]]
          /\ dev' = [dev EXCEPT ![d].pc = "attached", ![d].name = n]
          /\ files' = [files EXCEPT ![dev[d].tun].iface = i]
    BY <1>5 DEF ConnectUtun
  <2>2. ~Attached(i)
    BY <2>1, NewIfIsNew, NewIsUnattached
  <2>3. ifs'[i].alive /\ \A j \in IfIds : j # i => ifs'[j] = ifs[j]
    BY <1>0, <2>1 DEF TypeInv, TypeOK, Absent
  <2> QED BY <1>5, <2>1, <2>2, <2>3, <1>a DEF ConnectUtun
<1>b. ASSUME NEW d \in Devs, Drop(d) PROVE OwnInv'
  BY <1>0, <1>b, NoDeviceType, ReleasesOwn DEF Drop, NoDevice
<1>6. ASSUME NEW d \in Devs, Ends(d) PROVE OwnInv'
  <2>0. dev[d] \in Handle
    BY <1>0 DEF TypeInv, TypeOK
  <2>1. CASE Split(d)
    <3> DEFINE h == [NoDevice EXCEPT !.pc = "split", !.tun = dev[d].tun, !.halves = Halves]
    <3>1. h \in Handle /\ h.ctl = NoFd /\ h.pc # "opened" /\ h.tun = dev[d].tun
      BY <2>0, NoDeviceType DEF NoDevice, Handle
    <3> HIDE DEF h
    <3>2. dev' = [dev EXCEPT ![d] = h]
      BY <2>1 DEF Split, h
    <3> QED BY <1>0, <2>1, <3>1, <3>2, ReleasesOwn DEF Split
  <2>2. CASE IntoRawFd(d)
    <3> DEFINE h == [NoDevice EXCEPT !.pc = "raw", !.tun = dev[d].tun]
    <3>1. h \in Handle /\ h.ctl = NoFd /\ h.pc # "opened" /\ h.tun = dev[d].tun
      BY <2>0, NoDeviceType DEF NoDevice, Handle
    <3> HIDE DEF h
    <3>2. dev' = [dev EXCEPT ![d] = h]
      BY <2>2 DEF IntoRawFd, h
    <3> QED BY <1>0, <2>2, <3>1, <3>2, ReleasesOwn DEF IntoRawFd
  <2>3. CASE DropHalf(d)
    <3>1. PICK x : \/ Drop(d)
                   \/ dev' = [dev EXCEPT ![d].halves = @ \ {x}] /\ UNCHANGED <<files, ifs>>
      BY <2>3 DEF DropHalf
    <3>2. CASE dev' = [dev EXCEPT ![d].halves = @ \ {x}] /\ UNCHANGED <<files, ifs>>
      <4>1. Quiet
        BY <1>0, <2>0, <3>2 DEF Quiet, TypeInv, TypeOK, Handle
      <4> QED BY <1>0, <4>1, QuietOwn
    <3> QED BY <3>1, <3>2, <1>b
  <2> QED BY <1>6, <2>1, <2>2, <2>3, <1>b DEF Ends, CloseRaw, DropDevice
<1>7. ASSUME NEW d \in Devs, Fails(d) PROVE OwnInv'
  <2>1. CASE dev[d].built
    <3>1. /\ dev[d] \in Handle /\ dev[d].pc # "opened"
          /\ dev' = [dev EXCEPT ![d] = Advance(d, {})] /\ UNCHANGED <<files, ifs>>
      BY <1>0, <1>7, <2>1 DEF Fails, TypeInv, TypeOK, Shapes, Shape
    <3>2. Quiet
      BY <1>0, <3>1 DEF Quiet, TypeInv, TypeOK, Handle, Advance
    <3> QED BY <1>0, <3>2, QuietOwn
  <2> QED BY <1>7, <2>1, <1>b DEF Fails
<1>8. ASSUME NEW i \in Alive, AdminStep(i) PROVE OwnInv'
  <2>1. i \in IfIds
    BY DEF Alive
  <2>2. CASE AdminFlags(i)
    <3>1. Quiet
      BY <1>0, <2>1, <2>2 DEF AdminFlags, Quiet, TypeInv, TypeOK, Interfaces
    <3> QED BY <1>0, <3>1, QuietOwn
  <2>3. CASE AdminRename(i)
    <3>1. Quiet
      BY <1>0, <2>1, <2>3 DEF AdminRename, Quiet, TypeInv, TypeOK, Interfaces
    <3> QED BY <1>0, <3>1, QuietOwn
  <2> QED BY <1>0, <1>8, <2>1, <2>2, <2>3, DeletesOwn DEF AdminStep
<1>9. CASE UNCHANGED vars
  <2>1. Quiet
    BY <1>9 DEF vars, Quiet
  <2> QED BY <1>0, <2>1, QuietOwn
<1> QED BY <1>1, <1>2, <1>3, <1>4, <1>5, <1>6, <1>7, <1>8, <1>9, StepCases DEF Steps

LEMMA OwnInit == Init => OwnInv
<1> SUFFICES ASSUME Init PROVE OwnInv
  OBVIOUS
<1>1. Owners
  BY DEF Init, Owners, NoDevice
<1>2. Attachments
  BY DEF Init, Attachments, Free, NoDevice
<1>3. Kept
  <2>1. ~Absent.alive
    BY DEF Absent
  <2>2. \A n \in Fixed : Foreign(n).foreign
    BY DEF Foreign, Absent
  <2> QED BY <2>1, <2>2 DEF Init, Kept
<1> QED BY <1>1, <1>2, <1>3, TypeInit DEF OwnInv

(* Every open descriptor has exactly one owner and every owner an open       *)
(* descriptor of its kind, however new, split, the halves, into_raw_fd and   *)
(* the drops of all devices interleave (Ownership of TunDevice).             *)
THEOREM DescriptorsHaveOneOwner == Spec => []Ownership
BY OwnInit, OwnStep, OwnersOwn, PTL DEF Spec

(* A new that fails half way and a device that ends leave no interface       *)
(* behind that is not persistent (NothingLeftBehind of TunDevice).           *)
THEOREM InterfacesGoWithTheirDevice == Spec => []NothingLeftBehind
BY OwnInit, OwnStep, KeptByDevices, PTL DEF Spec
-----------------------------------------------------------------------------
(* Names.  An administrator who renames or deletes interfaces makes the      *)
(* remembered names wrong, and the code cannot know.                         *)

At(d) == files[dev[d].tun].iface
Before == {"none", "opened"}
After == {"split", "raw"}

(* The interfaces there are have different names, whoever gave them.         *)
Distinct ==
    /\ \A i \in IfIds : ifs[i].alive => ifs[i].name \in Fixed
    /\ \A i, j \in IfIds : ifs[i].alive /\ ifs[j].alive /\ ifs[i].name = ifs[j].name => i = j

(* A device that has got its interface knows it by name.                     *)
Fresh(d) ==
    dev[d].pc \notin Before \cup After => At(d) # NoIf /\ dev[d].name = ifs[At(d)].name

NameInv == OwnInv /\ Distinct

LEMMA FreshIsNotStale ==
    ASSUME OwnInv, NEW d \in Devs
    PROVE  Fresh(d) <=> ~Stale(d)
<1>1. dev[d].pc \in {"none", "opened", "attached", "calling", "flags", "ready", "split", "raw"}
  BY DEF OwnInv, TypeInv, TypeOK, Handle
<1>2. dev[d].pc \notin Before \cup After <=> dev[d].pc \in {"attached", "calling", "flags", "ready"}
  BY <1>1 DEF Before, After
<1>3. dev[d].pc \notin Before => Mine(d) = At(d)
  BY DEF OwnInv, TypeInv, Shapes, Shape, Before, Mine, At
<1> QED BY <1>2, <1>3 DEF Fresh, Stale

LEMMA HeldInterface ==
    ASSUME OwnInv, NEW d \in Devs, dev[d].pc \notin Before, At(d) # NoIf
    PROVE  /\ dev[d].tun # NoFd /\ dev[d].tun \in Fds
           /\ At(d) \in IfIds /\ ifs[At(d)].alive /\ Mine(d) = At(d)
<1>1. dev[d].tun # NoFd /\ dev[d].tun \in Fds
  BY FdRange DEF OwnInv, TypeInv, Shapes, Shape, Before
<1>2. At(d) \in IfIds /\ ifs[At(d)].alive
  BY <1>1 DEF OwnInv, TypeInv, TypeOK, Files, At, Attachments
<1> QED BY <1>1, <1>2 DEF Mine, At

(* A request of a device that knows its interface reaches it by its name.    *)
LEMMA NamedIsMine ==
    ASSUME NameInv, NEW d \in Devs, Fresh(d), dev[d].pc \in Using,
           NEW i \in Named(dev[d].name)
    PROVE  i = At(d) /\ i = Mine(d) /\ i \in IfIds /\ ifs[i].alive
<1>1. dev[d].pc \notin Before \cup After
  BY DEF Using, Before, After
<1>2. At(d) \in IfIds /\ ifs[At(d)].alive /\ Mine(d) = At(d) /\ dev[d].name = ifs[At(d)].name
  BY <1>1, HeldInterface DEF NameInv, Fresh
<1>3. i \in IfIds /\ ifs[i].alive /\ ifs[i].name = dev[d].name
  BY DEF Named, Alive
<1> QED BY <1>2, <1>3 DEF NameInv, Distinct

(* A step that renames nothing and attaches nothing.                         *)
Silent ==
    /\ \A i \in IfIds : ifs'[i].alive => ifs[i].alive /\ ifs'[i].name = ifs[i].name
    /\ \A d \in Devs : dev'[d].pc \notin Before =>
          /\ dev[d].pc \notin Before /\ At(d)' = At(d)
          /\ dev'[d].pc \notin After => dev[d].pc \notin After /\ dev'[d].name = dev[d].name

LEMMA SilentNames ==
    ASSUME NameInv, OwnInv', Silent
    PROVE  Distinct' /\ \A e \in Devs : Fresh(e) => Fresh(e)'
<1> USE DEF NameInv
<1>1. Distinct'
  BY DEF Distinct, Silent
<1>2. ASSUME NEW e \in Devs, Fresh(e), dev'[e].pc \notin Before \cup After
      PROVE  At(e)' # NoIf /\ dev'[e].name = ifs'[At(e)'].name
  <2>1. /\ dev[e].pc \notin Before \cup After /\ At(e)' = At(e)
        /\ dev'[e].name = dev[e].name
    BY <1>2 DEF Silent
  <2>2. At(e) # NoIf /\ dev[e].name = ifs[At(e)].name
    BY <1>2, <2>1 DEF Fresh
  <2>3. At(e)' \in IfIds /\ (ifs[At(e)].alive)'
    <3>1. (dev[e].tun \in Fds)'
      BY <1>2, FdRange DEF OwnInv, TypeInv, TypeOK, Handle, Shapes, Shape, Before
    <3> QED BY <3>1, <2>1, <2>2 DEF OwnInv, TypeInv, TypeOK, Files, Attachments, At
  <2> QED BY <2>1, <2>2, <2>3 DEF Silent
<1> QED BY <1>1, <1>2 DEF Fresh, Before, After

(* The steps that are silent.                                                *)
LEMMA SilentSteps ==
    ASSUME OwnInv, OwnInv', NEW d \in Devs,
           Requests(d) \/ TunSet(d) \/ SetAlias(d) \/ New(d) \/ OpenCtl(d) \/ Ends(d) \/ Fails(d)
    PROVE  Silent
<1> USE DEF OwnInv, TypeInv, TypeOK
<1>0. dev[d] \in Handle /\ dev \in [Devs -> Handle] /\ Shape(dev[d])
  BY DEF Shapes
<1>q. ASSUME Quiet,
             \A i \in IfIds : ifs'[i].name = ifs[i].name,
             \A e \in Devs : /\ dev'[e].pc \notin Before => dev[e].pc \notin Before
                             /\ dev'[e].pc \notin Before \cup After
                                  => dev[e].pc \notin After /\ dev'[e].name = dev[e].name
      PROVE  Silent
  BY <1>q DEF Quiet, Silent, At
<1>a. ASSUME NEW rest, dev[d].pc \in Using, dev' = [dev EXCEPT ![d] = Advance(d, rest)]
      PROVE  \A e \in Devs : /\ dev'[e].pc \notin Before => dev[e].pc \notin Before
                             /\ dev'[e].pc \notin Before \cup After
                                  => dev[e].pc \notin After /\ dev'[e].name = dev[e].name
  BY <1>0, <1>a DEF Advance, Handle, Using, Before, After
<1>1. CASE Call(d)
  <2>1. \A e \in Devs : /\ dev'[e].pc \notin Before => dev[e].pc \notin Before
                        /\ dev'[e].pc \notin Before \cup After
                             => dev[e].pc \notin After /\ dev'[e].name = dev[e].name
    BY <1>0, <1>1 DEF Call, Handle, Before, After
  <2> QED BY <1>1, <2>1, <1>q, RequestsAreQuiet DEF Call, Requests
<1>2. CASE SetAttr(d)
  <2>1. PICK i \in IfIds : ifs' = [ifs EXCEPT ![i].set = @ \cup {First(dev[d].todo)}]
    BY <1>2 DEF SetAttr, Named, Alive
  <2>2. \A j \in IfIds : ifs'[j].name = ifs[j].name
    BY <2>1 DEF Interfaces
  <2>3. dev[d].pc \in Using /\ dev' = [dev EXCEPT ![d] = Advance(d, Rest(d))]
    BY <1>2 DEF SetAttr, Using
  <2> QED BY <1>2, <2>2, <2>3, <1>a, <1>q, RequestsAreQuiet DEF Requests
<1>3. CASE GetFlags(d)
  <2>1. PICK fl : dev' = [dev EXCEPT ![d].pc = "flags", ![d].flags = fl]
    BY <1>3 DEF GetFlags
  <2>2. \A e \in Devs : /\ dev'[e].pc \notin Before => dev[e].pc \notin Before
                        /\ dev'[e].pc \notin Before \cup After
                             => dev[e].pc \notin After /\ dev'[e].name = dev[e].name
    BY <1>0, <1>3, <2>1 DEF GetFlags, Handle, Before, After
  <2> QED BY <1>3, <2>2, <1>q, RequestsAreQuiet DEF GetFlags, Requests
<1>4. CASE SetFlags(d)
  <2>1. PICK i \in IfIds : ifs' = [ifs EXCEPT ![i].flags = dev[d].flags \ {"RUNNING"}]
    BY <1>4 DEF SetFlags, Named, Alive
  <2>2. \A j \in IfIds : ifs'[j].name = ifs[j].name
    BY <2>1 DEF Interfaces
  <2>3. dev[d].pc \in Using /\ dev' = [dev EXCEPT ![d] = Advance(d, Rest(d))]
    BY <1>4 DEF SetFlags, Using
  <2> QED BY <1>4, <2>2, <2>3, <1>a, <1>q, RequestsAreQuiet DEF Requests
<1>5. CASE TunSet(d)
  <2>1. Mine(d) \in IfIds
    BY <1>0, <1>5 DEF TunSet, Mine, Files, Handle
  <2>2. \A j \in IfIds : ifs'[j].name = ifs[j].name
    BY <1>5, <2>1 DEF TunSet, Interfaces
  <2> QED BY <1>5, <2>2, <1>q, RequestsAreQuiet DEF TunSet
<1>6. CASE SetAlias(d)
  <2>1. \A j \in IfIds : ifs'[j].name = ifs[j].name
    BY <1>6 DEF SetAlias, Interfaces, Named, Alive
  <2> QED BY <1>6, <2>1, <1>q, RequestsAreQuiet DEF SetAlias
<1>o. ASSUME NEW f \in FreeFds, NEW k,
             files' = [files EXCEPT ![f] = [Free EXCEPT !.kind = k]],
             \A e \in Devs : dev'[e].pc \notin Before =>
                /\ dev[e].pc \notin Before /\ dev'[e].tun = dev[e].tun
                /\ dev'[e].pc \notin After => dev[e].pc \notin After /\ dev'[e].name = dev[e].name,
             UNCHANGED ifs
      PROVE  Silent
  <2>1. ASSUME NEW e \in Devs, dev'[e].pc \notin Before PROVE At(e)' = At(e)
    <3>1. dev[e].tun \in Fds /\ dev'[e].tun = dev[e].tun /\ files[dev[e].tun].kind = "tun"
      BY <1>o, <2>1, FdRange DEF Shapes, Shape, Before, Owners
    <3>2. dev[e].tun # f
      BY <3>1 DEF FreeFds, Free
    <3> QED BY <1>o, <3>1, <3>2 DEF At
  <2> QED BY <1>o, <2>1 DEF Silent
<1>7. CASE New(d)
  <2>1. PICK n \in Fixed \cup {Template, LongName, NoName}, S \in SUBSET Asks :
          dev' = [dev EXCEPT ![d].pc = "opened", ![d].name = n, ![d].todo = S,
                             ![d].tun = Lowest]
    BY <1>7 DEF New
  <2>2. Lowest \in FreeFds
    BY <1>7, LowestIsFree DEF New
  <2>3. \A e \in Devs : dev'[e].pc \notin Before => dev'[e] = dev[e]
    BY <1>0, <2>1 DEF Handle, Before
  <2> QED BY <1>7, <2>2, <2>3, <1>o DEF New
<1>8. CASE OpenCtl(d)
  <2>1. Lowest \in FreeFds
    BY <1>8, LowestIsFree DEF OpenCtl
  <2>2. \A e \in Devs : e # d => dev'[e] = dev[e]
    BY <1>0, <1>8 DEF OpenCtl
  <2>3. dev'[d].tun = dev[d].tun /\ dev'[d].name = dev[d].name
    BY <1>0, <1>8 DEF OpenCtl, Advance, Handle
  <2>4. dev[d].pc \notin Before \cup After
    BY <1>8 DEF OpenCtl, Before, After
  <2> QED BY <1>8, <2>1, <2>2, <2>3, <2>4, <1>o DEF OpenCtl
<1>c. ASSUME NEW S, Close(S), NEW h, dev' = [dev EXCEPT ![d] = h],
             h.pc = "none" \/ (h.pc \in After /\ h.tun = dev[d].tun /\ dev[d].pc # "opened")
      PROVE  Silent
  <2>1. ASSUME NEW i \in IfIds, ifs'[i].alive PROVE ifs'[i] = ifs[i]
    BY <1>c, <2>1 DEF Close, Absent
  <2>2. ASSUME NEW e \in Devs, dev'[e].pc \notin Before
        PROVE  /\ dev[e].pc \notin Before /\ At(e)' = At(e)
               /\ dev'[e].pc \notin After => dev'[e] = dev[e]
    <3>1. dev'[e].tun = dev[e].tun /\ (dev'[e].pc \notin After => dev'[e] = dev[e])
      BY <1>0, <1>c, <2>2 DEF Before
    <3>2. dev'[e].tun # NoFd /\ dev'[e].tun \in Fds /\ files'[dev'[e].tun].kind = "tun"
      BY <2>2, FdRange DEF Owners, Shapes, Shape, Before, Handle
    <3>3. files'[dev[e].tun] = files[dev[e].tun]
      BY <1>c, <3>1, <3>2 DEF Close, Free
    <3>4. dev[e].pc \notin Before
      <4>1. CASE e = d
        <5>1. dev'[d] = h
          BY <1>0, <1>c
        <5>2. dev[d].pc # "opened"
          BY <1>c, <2>2, <4>1, <5>1 DEF Before
        <5> QED BY <1>0, <3>1, <3>2, <4>1, <5>2 DEF Before, Shape
      <4>2. CASE e # d
        BY <1>0, <1>c, <2>2, <4>2
      <4> QED BY <4>1, <4>2
    <3> QED BY <3>1, <3>3, <3>4 DEF At
  <2> QED BY <2>1, <2>2 DEF Silent
<1>d. ASSUME Drop(d) PROVE Silent
  BY <1>c, <1>d DEF Drop, NoDevice
<1>9. CASE Split(d)
  <2> DEFINE h == [NoDevice EXCEPT !.pc = "split", !.tun = dev[d].tun, !.halves = Halves]
  <2>1. h.pc \in After /\ h.tun = dev[d].tun
    BY DEF NoDevice, After
  <2> HIDE DEF h
  <2>2. dev' = [dev EXCEPT ![d] = h]
    BY <1>9 DEF Split, h
  <2> QED BY <1>9, <2>1, <2>2, <1>c DEF Split
<1>10. CASE IntoRawFd(d)
  <2> DEFINE h == [NoDevice EXCEPT !.pc = "raw", !.tun = dev[d].tun]
  <2>1. h.pc \in After /\ h.tun = dev[d].tun
    BY DEF NoDevice, After
  <2> HIDE DEF h
  <2>2. dev' = [dev EXCEPT ![d] = h]
    BY <1>10 DEF IntoRawFd, h
  <2> QED BY <1>10, <2>1, <2>2, <1>c DEF IntoRawFd
<1>11. CASE DropHalf(d)
  <2>1. PICK x : \/ Drop(d)
                 \/ dev' = [dev EXCEPT ![d].halves = @ \ {x}] /\ UNCHANGED <<files, ifs>>
    BY <1>11 DEF DropHalf
  <2>2. CASE dev' = [dev EXCEPT ![d].halves = @ \ {x}] /\ UNCHANGED <<files, ifs>>
    <3>1. \A e \in Devs : /\ dev'[e].pc = dev[e].pc /\ dev'[e].name = dev[e].name
                          /\ dev'[e].tun = dev[e].tun
      BY <1>0, <2>2 DEF Handle
    <3> QED BY <2>2, <3>1 DEF Silent, At
  <2> QED BY <1>11, <2>1, <2>2, <1>d DEF DropHalf
<1>12. CASE Fails(d)
  <2>1. CASE dev[d].built
    <3>1. /\ dev[d].pc \in Using
          /\ dev' = [dev EXCEPT ![d] = Advance(d, {})] /\ UNCHANGED <<files, ifs>>
      BY <1>0, <1>12, <2>1 DEF Fails, Shape, Using
    <3>2. Quiet
      BY <1>0, <3>1 DEF Quiet, Handle, Advance, Using
    <3> QED BY <3>1, <3>2, <1>a, <1>q
  <2>2. CASE ~dev[d].built
    BY <1>12, <2>2, <1>d DEF Fails
  <2> QED BY <2>1, <2>2
<1>13. CASE CloseRaw(d)
  BY <1>13, <1>d DEF CloseRaw
<1>14. CASE DropDevice(d)
  BY <1>14, <1>d DEF DropDevice
<1> QED BY <1>1, <1>2, <1>3, <1>4, <1>5, <1>6, <1>7, <1>8, <1>9, <1>10, <1>11, <1>12, <1>13, <1>14
        DEF Requests, Ends

(* A device gets its interface, and the name of it.                          *)
LEMMA AttachNames ==
    ASSUME NameInv, OwnInv', NEW d \in Devs, NEW i \in IfIds, NEW n \in Fixed,
           dev[d].pc = "opened",
           dev' = [dev EXCEPT ![d].pc = "attached", ![d].name = n],
           files' = [files EXCEPT ![dev[d].tun].iface = i],
           \/ UNCHANGED ifs /\ ifs[i].alive /\ ifs[i].name = n
           \/ /\ ~ifs[i].alive /\ n \in FreeNames
              /\ ifs'[i].name = n
              /\ \A j \in IfIds : j # i => ifs'[j] = ifs[j]
    PROVE  Distinct' /\ \A e \in Devs : Fresh(e) => Fresh(e)'
<1> USE DEF NameInv, OwnInv, TypeInv, TypeOK
<1>0. /\ dev'[d].pc = "attached" /\ dev'[d].name = n /\ dev'[d].tun = dev[d].tun
      /\ dev[d].tun \in Fds
      /\ \A e \in Devs : e # d => dev'[e] = dev[e]
  BY FdRange DEF Handle, Shapes, Shape
<1>1. At(d)' = i
  BY <1>0 DEF At, Files
<1>2. ASSUME NEW e \in Devs, e # d, Fresh(e) PROVE Fresh(e)'
  <2> SUFFICES ASSUME dev[e].pc \notin Before \cup After
               PROVE  At(e)' # NoIf /\ dev'[e].name = ifs'[At(e)'].name
    BY <1>0, <1>2 DEF Fresh, Before, After
  <2>1. At(e) # NoIf /\ dev[e].name = ifs[At(e)].name
    BY <1>2 DEF Fresh
  <2>2. At(e) \in IfIds /\ dev[e].tun \in Fds /\ ifs[At(e)].alive
    BY <2>1, HeldInterface
  <2>3. dev[e].tun # dev[d].tun
    BY <1>0, <1>2, Outside DEF Owners
  <2>4. At(e)' = At(e)
    BY <1>0, <1>2, <2>2, <2>3 DEF At
  <2>5. ifs'[At(e)] = ifs[At(e)]
    BY <2>2
  <2> QED BY <1>0, <1>2, <2>1, <2>4, <2>5
<1>3. Distinct'
  <2>1. CASE UNCHANGED ifs
    BY <2>1 DEF Distinct
  <2>2. CASE /\ ~ifs[i].alive /\ n \in FreeNames
             /\ ifs'[i].name = n
             /\ \A j \in IfIds : j # i => ifs'[j] = ifs[j]
    <3>1. \A j \in IfIds : ifs[j].alive => ifs[j].name # n
      BY <2>2 DEF FreeNames, Named, Alive
    <3> QED BY <2>2, <3>1 DEF Distinct
  <2> QED BY <2>1, <2>2
<1>4. Fresh(d)'
  BY <1>0, <1>1, Outside DEF Fresh
<1> QED BY <1>2, <1>3, <1>4

(* An interface gets a free name, from a device or the administrator.        *)
LEMMA RenamedApart ==
    ASSUME NameInv, NEW i \in IfIds, NEW n \in FreeNames, ifs' = [ifs EXCEPT ![i].name = n]
    PROVE  /\ Distinct'
           /\ ifs'[i].name = n /\ \A j \in IfIds : j # i => ifs'[j] = ifs[j]
<1> USE DEF NameInv, OwnInv, TypeInv, TypeOK
<1>1. /\ ifs'[i].name = n /\ ifs'[i].alive = ifs[i].alive
      /\ \A j \in IfIds : j # i => ifs'[j] = ifs[j]
  BY DEF Interfaces
<1>2. n \in Fixed /\ \A j \in IfIds : ifs[j].alive => ifs[j].name # n
  BY DEF FreeNames, Named, Alive
<1> QED BY <1>1, <1>2 DEF Distinct

(* set_name renames the interface and the handle of the same device, when    *)
(* the device knows its interface; a template it would not know again.       *)
LEMMA RenameNames ==
    ASSUME NameInv, OwnInv', NEW d \in Devs, SetName(d)
    PROVE  /\ Distinct'
           /\ Template \notin RenameTo /\ Fresh(d) => \A e \in Devs : Fresh(e) => Fresh(e)'
<1> USE DEF NameInv, OwnInv, TypeInv, TypeOK
<1>r. PICK v \in RenameTo \ {LongName}, i \in Named(dev[d].name) :
        /\ \E m \in Completions(v) : ifs' = [ifs EXCEPT ![i].name = m]
        /\ dev' = [dev EXCEPT ![d].name = v]
  BY DEF SetName
<1>1. PICK n \in Completions(v) : ifs' = [ifs EXCEPT ![i].name = n]
  BY <1>r
<1>2. i \in IfIds /\ dev[d].pc = "ready" /\ files' = files /\ n \in FreeNames
  BY <1>1 DEF SetName, Named, Alive, Completions
<1>3. Distinct' /\ ifs'[i].name = n /\ \A j \in IfIds : j # i => ifs'[j] = ifs[j]
  BY <1>1, <1>2, RenamedApart
<1>4. /\ dev'[d].name = v
      /\ \A e \in Devs : /\ dev'[e].pc = dev[e].pc /\ dev'[e].tun = dev[e].tun
                         /\ e # d => dev'[e].name = dev[e].name
  BY <1>r DEF Handle
<1>5. \A e \in Devs : At(e)' = At(e)
  BY <1>2, <1>4 DEF At
<1>6. ASSUME Template \notin RenameTo, Fresh(d), NEW e \in Devs, Fresh(e)
      PROVE  Fresh(e)'
  <2>1. i = At(d)
    BY <1>2, <1>6, NamedIsMine DEF Using
  <2>2. v = n
    <3>1. v \in Fixed /\ v \notin {Template, NoName}
      BY <1>6, TunAssumption
    <3> QED BY <1>1, <3>1 DEF Completions
  <2>3. CASE e = d
    BY <2>1, <2>2, <2>3, <1>2, <1>3, <1>4, <1>5, <1>6 DEF Fresh
  <2>4. CASE e # d
    <3> SUFFICES ASSUME dev[e].pc \notin Before \cup After
                 PROVE  At(e)' # NoIf /\ dev'[e].name = ifs'[At(e)'].name
      BY <1>4 DEF Fresh, Before, After
    <3>1. At(e) # NoIf /\ dev[e].name = ifs[At(e)].name
      BY <1>6 DEF Fresh
    <3>2. dev[e].tun # NoFd /\ dev[e].tun \in Fds /\ At(e) \in IfIds
      BY <3>1, HeldInterface
    <3>3. dev[d].tun # NoFd /\ dev[d].tun \in Fds
      BY <1>2, FdRange DEF Shapes, Shape
    <3>4. dev[e].tun # dev[d].tun
      BY <2>4, <3>2 DEF Owners
    <3>5. At(e) # i
      BY <2>1, <3>1, <3>2, <3>3, <3>4 DEF Attachments, At
    <3> QED BY <2>4, <3>1, <3>2, <3>5, <1>3, <1>4, <1>5
  <2> QED BY <2>3, <2>4
<1> QED BY <1>3, <1>6

(* A step of a device keeps names apart, and one of a device that knows its  *)
(* interface keeps every device that does.                                   *)
LEMMA DeviceNames ==
    ASSUME NameInv, OwnInv', NEW d \in Devs, Steps(d)
    PROVE  /\ Distinct'
           /\ Template \notin RenameTo /\ Fresh(d) => \A e \in Devs : Fresh(e) => Fresh(e)'
<1>0. OwnInv
  BY DEF NameInv
<1>1. CASE Requests(d) \/ TunSet(d) \/ SetAlias(d) \/ New(d) \/ OpenCtl(d) \/ Ends(d) \/ Fails(d)
  <2>1. Silent
    BY <1>0, <1>1, SilentSteps
  <2> QED BY <2>1, SilentNames
<1>2. CASE SetName(d)
  BY <1>2, RenameNames
<1>3. CASE TunSetIff(d)
  <2>1. PICK i \in IfIds, n \in Fixed :
          /\ \/ /\ i = NewIf
                /\ n \in Completions(dev[d].name)
                /\ ifs' = [ifs EXCEPT ![i] = [Absent EXCEPT !.alive = TRUE, !.name = n,
                                                            !.flags = Flags \ {"UP"}]]
             \/ /\ i \in Named(dev[d].name)
                /\ n = dev[d].name
                /\ UNCHANGED ifs
          /\ dev' = [dev EXCEPT ![d].pc = "attached", ![d].name = n]
          /\ files' = [files EXCEPT ![dev[d].tun].iface = i]
    BY <1>3 DEF TunSetIff
  <2>2. \/ UNCHANGED ifs /\ ifs[i].alive /\ ifs[i].name = n
        \/ /\ ~ifs[i].alive /\ n \in FreeNames
           /\ ifs'[i].name = n
           /\ \A j \in IfIds : j # i => ifs'[j] = ifs[j]
    <3>1. CASE /\ i = NewIf /\ n \in Completions(dev[d].name)
               /\ ifs' = [ifs EXCEPT ![i] = [Absent EXCEPT !.alive = TRUE, !.name = n,
                                                           !.flags = Flags \ {"UP"}]]
      <4>1. n \in FreeNames
        BY <3>1 DEF Completions
      <4>2. ~ifs[i].alive
        BY <3>1, NewIfIsNew DEF Alive
      <4> QED BY <1>0, <3>1, <4>1, <4>2 DEF OwnInv, TypeInv, TypeOK, Absent
    <3>2. CASE i \in Named(dev[d].name) /\ n = dev[d].name /\ UNCHANGED ifs
      BY <3>2 DEF Named, Alive
    <3> QED BY <2>1, <3>1, <3>2
  <2> QED BY <1>3, <2>1, <2>2, AttachNames DEF TunSetIff
<1>4. CASE ConnectUtun(d)
  <2>1. PICK i \in IfIds \cap {NewIf}, n \in UnitNames(Id(dev[d].name)) :
          /\ ifs' = [ifs EXCEPT ![i] = [Absent EXCEPT !.alive = TRUE, !.name = n,
                                                      !.flags = Flags \ {"UP"}]]
          /\ dev' = [dev EXCEPT ![d].pc = "attached", ![d].name = n]
          /\ files' = [files EXCEPT ![dev[d].tun].iface = i]
    BY <1>4 DEF ConnectUtun
  <2>2. n \in FreeNames /\ n \in Fixed
    BY DEF UnitNames, FreeNames
  <2>3. /\ ~ifs[i].alive /\ ifs'[i].name = n
        /\ \A j \in IfIds : j # i => ifs'[j] = ifs[j]
    BY <1>0, <2>1, NewIfIsNew DEF OwnInv, TypeInv, TypeOK, Absent, Alive
  <2> QED BY <1>4, <2>1, <2>2, <2>3, AttachNames DEF ConnectUtun
<1> QED BY <1>1, <1>2, <1>3, <1>4 DEF Steps

LEMMA NameStep == NameInv /\ [Next]_vars => NameInv'
<1> SUFFICES ASSUME NameInv, [Next]_vars PROVE NameInv'
  OBVIOUS
<1>0. OwnInv /\ OwnInv'
  BY OwnStep DEF NameInv
<1>1. ASSUME NEW d \in Devs, Steps(d) PROVE Distinct'
  BY <1>0, <1>1, DeviceNames
<1>2. ASSUME NEW i \in Alive, AdminStep(i) PROVE Distinct'
  <2>0. i \in IfIds
    BY DEF Alive
  <2>1. CASE AdminFlags(i)
    BY <2>0, <2>1 DEF AdminFlags, NameInv, Distinct, OwnInv, TypeInv, TypeOK, Interfaces
  <2>2. CASE AdminRename(i)
    BY <2>0, <2>2, RenamedApart DEF AdminRename
  <2>3. CASE AdminDelete(i)
    BY <2>0, <2>3 DEF AdminDelete, NameInv, Distinct, Absent, OwnInv, TypeInv, TypeOK
  <2> QED BY <1>2, <2>1, <2>2, <2>3 DEF AdminStep
<1>3. ASSUME UNCHANGED vars PROVE Distinct'
  BY <1>3 DEF vars, NameInv, Distinct
<1> QED BY <1>0, <1>1, <1>2, <1>3, StepCases DEF NameInv

LEMMA NameInit == Init => NameInv
<1> SUFFICES ASSUME Init PROVE NameInv
  OBVIOUS
<1>1. ~Absent.alive
  BY DEF Absent
<1>2. \A n \in Fixed : Foreign(n).name \in Fixed
  BY DEF Foreign, Absent
<1> QED BY <1>1, <1>2, OwnInit DEF Init, Distinct, NameInv

(* Whatever the administrator does, and with every name set_name takes but a *)
(* template, no device that knows its own interface makes its name or that   *)
(* of another device wrong (StalenessComesFromOutside of TunDevice).         *)
THEOREM NamesGoStaleFromOutside ==
    ASSUME Template \notin RenameTo
    PROVE  Spec => StalenessComesFromOutside
<1>1. NameInv /\ [Next]_vars
        => [\A e \in Devs : Stale(e)' /\ ~Stale(e)
               => \A d \in Devs : DeviceStep(d) => Stale(d)]_vars
  <2> SUFFICES ASSUME NameInv, [Next]_vars, NEW e \in Devs, Stale(e)', ~Stale(e),
                      NEW d \in Devs, DeviceStep(d), ~Stale(d)
               PROVE  FALSE
    OBVIOUS
  <2>1. OwnInv /\ OwnInv' /\ Steps(d)
    BY OwnStep, StepsOfDevices DEF NameInv
  <2>2. Fresh(e) /\ Fresh(d)
    BY <2>1, FreshIsNotStale
  <2>3. Fresh(e)'
    BY <2>1, <2>2, DeviceNames
  <2>4. (Fresh(e) => ~Stale(e))'
    <3>1. (dev[e].pc \in {"attached", "calling", "flags", "ready"}
             => dev[e].pc \notin Before \cup After /\ Mine(e) = At(e))'
      BY <2>1 DEF OwnInv, TypeInv, Shapes, Shape, Before, After, Mine, At
    <3> QED BY <3>1 DEF Fresh, Stale
  <2> QED BY <2>3, <2>4
<1> QED BY <1>1, NameInit, NameStep, PTL DEF Spec, StalenessComesFromOutside

(* Where nobody else renames or deletes interfaces, and set_name is given no *)
(* template, name() is the name of the interface behind the device, always   *)
(* (NameIsCurrent of TunDevice; with a template it is not, see tun_template).*)
THEOREM NamesStayCurrent ==
    ASSUME AdminMay \subseteq {"flags"}, Template \notin RenameTo
    PROVE  Spec => []NameIsCurrent
<1> DEFINE Inv == NameInv /\ \A d \in Devs : Fresh(d)
<1>1. Init => Inv
  BY NameInit DEF Init, Fresh, NoDevice, Before
<1>2. Inv /\ [Next]_vars => Inv'
  <2> SUFFICES ASSUME Inv, [Next]_vars PROVE Inv'
    OBVIOUS
  <2>0. OwnInv /\ OwnInv' /\ NameInv'
    BY NameStep DEF NameInv
  <2>1. ASSUME NEW d \in Devs, Steps(d) PROVE \A e \in Devs : Fresh(e)'
    BY <2>0, <2>1, DeviceNames
  <2>2. ASSUME NEW i \in Alive, AdminStep(i) PROVE \A e \in Devs : Fresh(e)'
    <3>1. AdminFlags(i)
      BY <2>2 DEF AdminStep, AdminRename, AdminDelete
    <3>2. Silent
      BY <2>0, <3>1 DEF AdminFlags, Silent, At, Alive, OwnInv, TypeInv, TypeOK, Interfaces
    <3> QED BY <2>0, <3>2, SilentNames
  <2>3. ASSUME UNCHANGED vars PROVE \A e \in Devs : Fresh(e)'
    BY <2>3 DEF vars, Fresh, At
  <2>4. \A e \in Devs : Fresh(e)'
    BY <2>1, <2>2, <2>3, StepCases
  <2> QED BY <2>0, <2>4
<1>3. Inv => NameIsCurrent
  BY FreshIsNotStale DEF NameIsCurrent, NameInv
<1> QED BY <1>1, <1>2, <1>3, PTL DEF Spec
-----------------------------------------------------------------------------
(* What a step does to the interfaces a device does not have to itself.      *)

LEMMA NotShared ==
    ASSUME OwnInv, NEW d \in Devs, NEW i \in IfIds, Mine(d) = i
    PROVE  i \notin Others(d)
<1> USE DEF OwnInv
<1>0. i # NoIf
  BY Outside
<1>1. dev[d].tun # NoFd /\ dev[d].tun \in Fds /\ files[dev[d].tun].iface = i
  BY <1>0, FdRange DEF Mine
<1>2. ASSUME NEW e \in Devs \ {d}, Mine(e) = i PROVE FALSE
  <2>1. dev[e].tun # NoFd /\ dev[e].tun \in Fds /\ files[dev[e].tun].iface = i
    BY <1>0, <1>2, FdRange DEF Mine
  <2>2. dev[e].tun = dev[d].tun
    BY <1>0, <1>1, <2>1 DEF Attachments
  <2> QED BY <1>1, <2>2 DEF Owners
<1> QED BY <1>2 DEF Others

LEMMA OwnChange ==
    ASSUME NameInv, NEW d \in Devs, Steps(d), NEW i \in Others(d), ifs'[i] # ifs[i]
    PROVE  ByName(d) /\ Stale(d)
<1> USE DEF NameInv
<1>0. i \in IfIds /\ ifs[i].alive /\ ifs \in [IfIds -> Interfaces]
  BY DEF Others, Alive, OwnInv, TypeInv, TypeOK
<1>m. i # Mine(d)
  BY <1>0, NotShared
<1>n. ASSUME dev[d].pc \in Using, i \in Named(dev[d].name) PROVE Stale(d)
  BY <1>m, <1>n, NamedIsMine, FreshIsNotStale
<1>c. ASSUME NEW S \in SUBSET {dev[d].tun, dev[d].ctl}, Close(S) PROVE FALSE
  <2>1. PICK f \in S \ {NoFd} : files[f].iface = i
    BY <1>0, <1>c DEF Close
  <2>2. f \in Fds /\ files[f].kind = "tun"
    BY <1>0, <2>1, FdRange, Outside DEF OwnInv, Attachments
  <2>3. f = dev[d].tun
    BY <2>1, <2>2 DEF OwnInv, Owners
  <2> QED BY <1>m, <2>1, <2>3 DEF Mine
<1>d. ASSUME Drop(d) PROVE FALSE
  BY <1>c, <1>d DEF Drop
<1>1. CASE SetAttr(d)
  <2>1. PICK j \in Named(dev[d].name) :
          ifs' = [ifs EXCEPT ![j].set = @ \cup {First(dev[d].todo)}]
    BY <1>1 DEF SetAttr
  <2>2. i = j
    BY <1>0, <2>1
  <2> QED BY <1>1, <1>n, <2>2 DEF ByName, SetAttr, Using
<1>2. CASE SetFlags(d)
  <2>1. PICK j \in Named(dev[d].name) :
          ifs' = [ifs EXCEPT ![j].flags = dev[d].flags \ {"RUNNING"}]
    BY <1>2 DEF SetFlags
  <2>2. i = j
    BY <1>0, <2>1
  <2> QED BY <1>2, <1>n, <2>2 DEF ByName, SetFlags, Using
<1>3. CASE SetName(d)
  <2>1. PICK j \in Named(dev[d].name), n \in Fixed : ifs' = [ifs EXCEPT ![j].name = n]
    BY <1>3 DEF SetName, Completions, FreeNames
  <2>2. i = j
    BY <1>0, <2>1
  <2> QED BY <1>3, <1>n, <2>2 DEF ByName, SetName, Using
<1>4. CASE SetAlias(d)
  <2>1. PICK j \in Named(dev[d].name) :
          ifs' = [ifs EXCEPT ![j].set = @ \cup (IpAttrs \cap {"address", "broadcast", "netmask"})]
    BY <1>4 DEF SetAlias
  <2>2. i = j
    BY <1>0, <2>1
  <2> QED BY <1>4, <1>n, <2>2 DEF ByName, SetAlias, Using
<1>5. CASE TunSet(d)
  BY <1>0, <1>m, <1>5 DEF TunSet
<1>6. CASE TunSetIff(d)
  BY <1>0, <1>6, NewIfIsNew DEF TunSetIff, Alive
<1>7. CASE ConnectUtun(d)
  BY <1>0, <1>7, NewIfIsNew DEF ConnectUtun, Alive
<1>8. CASE New(d) \/ OpenCtl(d) \/ Call(d) \/ GetFlags(d)
  BY <1>8 DEF New, OpenCtl, Call, GetFlags
<1>9. CASE Ends(d)
  BY <1>9, <1>c, <1>d DEF Ends, Split, DropHalf, IntoRawFd, CloseRaw, DropDevice
<1>10. CASE Fails(d)
  BY <1>10, <1>d DEF Fails
<1> QED BY <1>1, <1>2, <1>3, <1>4, <1>5, <1>6, <1>7, <1>8, <1>9, <1>10 DEF Steps, Requests

(* Whatever the administrator does, no step of a device touches an interface *)
(* that is not the device's alone, neither by name nor by a descriptor with  *)
(* a number given out again; but for a request by a name that is stale       *)
(* (OnlyOwnInterface of TunDevice).                                          *)
THEOREM StepsStayHome == Spec => OnlyOwnInterface
<1>1. NameInv /\ [Next]_vars
        => [\A i \in IfIds : ifs'[i] # ifs[i]
               => \A d \in Devs : i \in Others(d) /\ DeviceStep(d)
                                    => ByName(d) /\ Stale(d)]_vars
  BY OwnChange, StepsOfDevices
<1> QED BY <1>1, NameInit, NameStep, PTL DEF Spec, OnlyOwnInterface
-----------------------------------------------------------------------------
(* A step of one device leaves the handles of the others.                    *)
LEMMA OthersStay ==
    ASSUME TypeInv, NEW d \in Devs, NEW e \in Devs, e # d, Steps(e)
    PROVE  dev'[d] = dev[d]
<1> USE DEF TypeInv, TypeOK
<1>1. CASE Requests(e)
  BY <1>1 DEF Requests, Call, SetAttr, GetFlags, SetFlags
<1>2. CASE SetName(e) \/ TunSet(e) \/ SetAlias(e)
  BY <1>2 DEF SetName, TunSet, SetAlias
<1>3. CASE New(e) \/ OpenCtl(e)
  BY <1>3 DEF New, OpenCtl
<1>4. CASE TunSetIff(e) \/ ConnectUtun(e)
  BY <1>4 DEF TunSetIff, ConnectUtun
<1>5. CASE Ends(e) \/ Fails(e)
  BY <1>5 DEF Ends, Split, DropHalf, IntoRawFd, CloseRaw, DropDevice, Fails, Drop
<1> QED BY <1>1, <1>2, <1>3, <1>4, <1>5 DEF Steps

(* Only the kernel's answer gives a device its interface.                    *)
LEMMA PcStep ==
    ASSUME TypeInv, NEW d \in Devs, Steps(d)
    PROVE  /\ dev'[d].pc = "flags" => GetFlags(d)
           /\ dev'[d].pc = "attached" => TunSetIff(d) \/ ConnectUtun(d)
<1> USE DEF TypeInv, TypeOK
<1>0. dev[d] \in Handle
  OBVIOUS
<1>a. ASSUME NEW rest, dev' = [dev EXCEPT ![d] = Advance(d, rest)]
      PROVE  dev'[d].pc \in {"ready", "calling"}
  BY <1>0, <1>a DEF Advance, Handle
<1>b. ASSUME Drop(d) PROVE dev'[d].pc = "none"
  BY <1>b DEF Drop, NoDevice
<1>1. CASE Call(d)
  <2>1. dev'[d].pc = "calling"
    BY <1>0, <1>1 DEF Call, Handle
  <2> QED BY <2>1
<1>2. CASE SetAttr(d) \/ SetFlags(d)
  <2>1. dev'[d].pc \in {"ready", "calling"}
    BY <1>2, <1>a DEF SetAttr, SetFlags
  <2> QED BY <2>1
<1>3. CASE GetFlags(d)
  <2>1. PICK fl : dev' = [dev EXCEPT ![d].pc = "flags", ![d].flags = fl]
    BY <1>3 DEF GetFlags
  <2>2. dev'[d].pc = "flags"
    BY <1>0, <2>1 DEF Handle
  <2> QED BY <1>3, <2>2
<1>4. CASE SetName(d)
  <2>1. PICK v \in RenameTo : dev' = [dev EXCEPT ![d].name = v]
    BY <1>4 DEF SetName
  <2>2. dev'[d].pc = "ready"
    BY <1>0, <1>4, <2>1 DEF SetName, Handle
  <2> QED BY <2>2
<1>5. CASE TunSet(d) \/ SetAlias(d)
  <2>1. dev'[d].pc = "ready"
    BY <1>5 DEF TunSet, SetAlias
  <2> QED BY <2>1
<1>6. CASE New(d)
  <2>1. PICK n \in Fixed \cup {Template, LongName, NoName}, S \in SUBSET Asks :
          dev' = [dev EXCEPT ![d].pc = "opened", ![d].name = n, ![d].todo = S,
                             ![d].tun = Lowest]
    BY <1>6 DEF New
  <2>2. dev'[d].pc = "opened"
    BY <1>0, <2>1 DEF Handle
  <2> QED BY <2>2
<1>7. CASE TunSetIff(d) \/ ConnectUtun(d)
  <2>1. PICK n : dev' = [dev EXCEPT ![d].pc = "attached", ![d].name = n]
    BY <1>7 DEF TunSetIff, ConnectUtun
  <2>2. dev'[d].pc = "attached"
    BY <1>0, <2>1 DEF Handle
  <2> QED BY <1>7, <2>2
<1>8. CASE OpenCtl(d)
  <2>1. dev'[d].pc \in {"ready", "calling"}
    BY <1>0, <1>8 DEF OpenCtl, Advance, Handle
  <2> QED BY <2>1
<1>9. CASE Split(d) \/ IntoRawFd(d)
  <2>1. dev'[d].pc \in {"split", "raw"}
    BY <1>9 DEF Split, IntoRawFd, NoDevice
  <2> QED BY <2>1
<1>10. CASE DropHalf(d)
  <2>1. PICK x : Drop(d) \/ dev' = [dev EXCEPT ![d].halves = @ \ {x}]
    BY <1>10 DEF DropHalf
  <2>2. dev'[d].pc \in {"none", "split"}
    BY <1>0, <1>10, <2>1, <1>b DEF DropHalf, Handle
  <2> QED BY <2>2
<1>11. CASE CloseRaw(d) \/ DropDevice(d)
  BY <1>11, <1>b DEF CloseRaw, DropDevice
<1>12. CASE Fails(d)
  <2>1. Drop(d) \/ dev' = [dev EXCEPT ![d] = Advance(d, {})]
    BY <1>12 DEF Fails
  <2>2. dev'[d].pc \in {"none", "ready", "calling"}
    BY <2>1, <1>a, <1>b
  <2> QED BY <2>2
<1> QED BY <1>1, <1>2, <1>3, <1>4, <1>5, <1>6, <1>7, <1>8, <1>9, <1>10, <1>11, <1>12
        DEF Steps, Requests, Ends

(* On Linux a device gets the name its configuration asked for, or none at   *)
(* all (NameAsConfigured of TunDevice, which macOS does not keep).           *)
THEOREM LinuxNamesAsConfigured ==
    ASSUME Platforms = {"linux"}
    PROVE  Spec => NameAsConfigured
<1>1. TypeInv /\ [Next]_vars
        => [\A d \in Devs : dev[d].pc = "opened" /\ dev'[d].pc = "attached" /\ dev[d].name \in Fixed
              => dev'[d].name = dev[d].name]_vars
  <2> SUFFICES ASSUME TypeInv, Next, NEW d \in Devs, dev[d].pc = "opened",
                      dev'[d].pc = "attached", dev[d].name \in Fixed
               PROVE  dev'[d].name = dev[d].name
    OBVIOUS
  <2>0. dev \in [Devs -> Handle] /\ platform = "linux"
    BY DEF TypeInv, TypeOK
  <2>1. TunSetIff(d)
    <3>1. ASSUME NEW i \in Alive, AdminStep(i) PROVE FALSE
      BY <3>1 DEF AdminStep, AdminFlags, AdminRename, AdminDelete
    <3>2. PICK e \in Devs : Steps(e)
      BY <3>1, StepCases
    <3>3. e = d
      BY <3>2, OthersStay
    <3> QED BY <2>0, <3>2, <3>3, PcStep DEF ConnectUtun
  <2>2. PICK n \in Fixed :
          /\ n \in Completions(dev[d].name) \/ n = dev[d].name
          /\ dev' = [dev EXCEPT ![d].pc = "attached", ![d].name = n]
    BY <2>1 DEF TunSetIff
  <2>3. n = dev[d].name
    BY <2>2, TunAssumption DEF Completions
  <2> QED BY <2>0, <2>2, <2>3 DEF Handle
<1> QED BY <1>1, TypeInit, TypeStep, PTL DEF Spec, NameAsConfigured
=============================================================================
