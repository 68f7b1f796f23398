------------------------------- MODULE Server -------------------------------
(***************************************************************************)
(* The server process: main and launch_server (tache/src/bin/local.rs),    *)
(* run and its inbound futures (tache/src/engine/mod.rs), and the task     *)
(* spawned for every accepted connection.                                  *)
(*                                                                         *)
(* The main thread polls select(run, ctrl_c).  A poll goes through the     *)
(* inbound futures in the order of the configuration, each until it is     *)
(* pending, and then looks at the signal; connection tasks, clients and    *)
(* the signal run beside it.                                               *)
(***************************************************************************)
EXTENDS Naturals, Sequences

CONSTANTS
    Conns,        \* connections clients may open, each once
    Addrs,        \* socket addresses
    Kinds,        \* the kinds of inbound in the configuration file
    MaxInbounds,  \* bound: inbounds in the configuration
    MaxAddrs      \* bound: addresses a listen entry resolves to

ASSUME KindsAssumption == Kinds \subseteq {"HTTP", "Socks5", "Redir", "TUN"}
ASSUME BoundsAssumption == MaxInbounds \in Nat /\ MaxAddrs \in Nat

VARIABLES
    config,     \* Config.inbounds
    proc,       \* where the main thread is, or how the process ended
    k,          \* the inbound the loop of run is at
    vf,         \* the inbound futures, in order
    at,         \* the future select_all polls
    signalled,  \* ctrl-c was pressed
    conn,       \* state of each connection
    inp         \* what its client has sent so far

vars == <<config, proc, k, vf, at, signalled, conn, inp>>
-----------------------------------------------------------------------------
SeqUpTo(S, n) == UNION {[1..m -> S] : m \in 0..n}

\* A listen entry is what to_socket_addrs makes of it; nothing, when the
\* lookup fails.
Inbounds == [kind : Kinds \ {"TUN"}, listen : SeqUpTo(Addrs, MaxAddrs)]
            \cup [kind : Kinds \cap {"TUN"}, listen : {<<>>}]

\* A future of run's vector, as pushed: not polled yet, nothing to accept.
Future(kind, addr) == [kind |-> kind, addr |-> addr, st |-> "new", queue |-> <<>>]
NoAddr == "none"
Futures == [kind : Kinds, addr : Addrs \cup {NoAddr},
            st : {"new", "listening", "done"}, queue : Seq(Conns)]

\* How far a client got: nothing, part of a request head, a request with or
\* without a host, something the Http codec rejects, or the end of its stream.
Complete == {"request", "nohost", "malformed", "eof"}
Inputs == {"none", "partial"} \cup Complete

Ended == {"exit0", "exit1", "panicked"}
Resolved == {"left", "right"}
Polling == {"poll", "parked"}

Init ==
    /\ config \in SeqUpTo(Inbounds, MaxInbounds)
    /\ proc = "start" /\ k = 1 /\ vf = <<>> /\ at = 1
    /\ signalled = FALSE
    /\ conn = [c \in Conns |-> "idle"] /\ inp = [c \in Conns |-> "none"]
-----------------------------------------------------------------------------
(***************************************************************************)
(* Main thread.                                                            *)
(***************************************************************************)

\* main: a file that cannot be read ends the process with status 0, one that
\* cannot be parsed with a panic (load_from_str unwraps).
LoadConfig ==
    /\ proc = "start"
    /\ proc' \in {"launch", "exit0", "panicked"}
    /\ UNCHANGED <<config, k, vf, at, signalled, conn, inp>>

\* launch_server up to block_on: Runtime::new panics when it fails, ctrl_c
\* returns the error.
Launch ==
    /\ proc = "launch"
    /\ proc' \in {"setup", "exit1", "panicked"}
    /\ UNCHANGED <<config, k, vf, at, signalled, conn, inp>>

\* run: the futures of the next inbound; a failed lookup ends run with it.
SetupInbound ==
    /\ proc = "setup" /\ k <= Len(config)
    /\ LET inbound == config[k] IN
       \/ /\ inbound.kind # "TUN" /\ inbound.listen = <<>>
          /\ proc' = "left" /\ UNCHANGED <<k, vf>>
       \/ /\ inbound.kind # "TUN" /\ inbound.listen # <<>>
          /\ vf' = vf \o [j \in 1..Len(inbound.listen) |->
                            Future(inbound.kind, inbound.listen[j])]
          /\ k' = k + 1 /\ proc' = proc
       \/ /\ inbound.kind = "TUN"
          /\ vf' = Append(vf, Future("TUN", NoAddr))
          /\ k' = k + 1 /\ proc' = proc
    /\ UNCHANGED <<config, at, signalled, conn, inp>>

\* select_all asserts that it was given a future.
SelectAll ==
    /\ proc = "setup" /\ k > Len(config)
    /\ proc' = IF vf = <<>> THEN "panicked" ELSE "poll"
    /\ UNCHANGED <<config, k, vf, at, signalled, conn, inp>>

\* Mutant: a signal that is pending too decides which side of select wins.
ResolveSignalFirst ==
    /\ vf' = [vf EXCEPT ![at].st = "done", ![at].queue = <<>>]
    /\ conn' = [c \in Conns |->
                  IF \E j \in 1..Len(vf[at].queue) : vf[at].queue[j] = c
                  THEN "closed" ELSE conn[c]]
    /\ proc' = IF signalled THEN "right" ELSE "left"
    /\ at' = at

\* The future polled is ready: select_all, and with it run, resolves.  A
\* listener is dropped with the connections waiting in its queue.
Resolve ==
    /\ vf' = [vf EXCEPT ![at].st = "done", ![at].queue = <<>>]
    /\ conn' = [c \in Conns |->
                  IF \E j \in 1..Len(vf[at].queue) : vf[at].queue[j] = c
                  THEN "closed" ELSE conn[c]]
    /\ proc' = "left" /\ at' = at

\* Mutant: the TUN inbound stays pending.
single_run_tun_pending ==
    /\ proc = "poll" /\ at <= Len(vf) /\ vf[at].kind = "TUN"
    /\ at' = at + 1
    /\ UNCHANGED <<config, proc, k, vf, signalled, conn, inp>>

\* single_run_tun is ready at once.
single_run_tun ==
    /\ proc = "poll" /\ at <= Len(vf) /\ vf[at].kind = "TUN"
    /\ Resolve
    /\ UNCHANGED <<config, k, signalled, inp>>

Taken(addr) == \E j \in 1..Len(vf) : vf[j].st = "listening" /\ vf[j].addr = addr

\* single_run_http, single_run_socks, single_run_redir: TcpListener::bind.
Bind ==
    /\ proc = "poll" /\ at <= Len(vf) /\ vf[at].kind # "TUN" /\ vf[at].st = "new"
    /\ \/ /\ ~Taken(vf[at].addr)
          /\ vf' = [vf EXCEPT ![at].st = "listening"]
          /\ UNCHANGED <<proc, at, conn>>
       \/ Resolve
    /\ UNCHANGED <<config, k, signalled, inp>>

\* incoming.next() yields a connection, and a task is spawned for it.
AcceptConn ==
    /\ proc = "poll" /\ at <= Len(vf) /\ vf[at].st = "listening" /\ vf[at].queue # <<>>
    /\ conn' = [conn EXCEPT ![Head(vf[at].queue)] = "open"]
    /\ vf' = [vf EXCEPT ![at].queue = Tail(@)]
    /\ UNCHANGED <<config, proc, k, at, signalled, inp>>

\* Mutant: the other inbounds go on (join_all for select_all).
AcceptErrorAlone ==
    /\ proc = "poll" /\ at <= Len(vf) /\ vf[at].st = "listening" /\ vf[at].queue # <<>>
    /\ vf' = [vf EXCEPT ![at].st = "done"]
    /\ at' = at + 1
    /\ UNCHANGED <<config, proc, k, signalled, conn, inp>>

\* incoming.next() yields an error (out of descriptors, connection aborted):
\* the pattern of the while-let does not match and the loop is over.
AcceptError ==
    /\ proc = "poll" /\ at <= Len(vf) /\ vf[at].st = "listening" /\ vf[at].queue # <<>>
    /\ Resolve
    /\ UNCHANGED <<config, k, signalled, inp>>

\* Mutant: the future after a pending one is passed over.
PendingSkips ==
    /\ proc = "poll" /\ at <= Len(vf) /\ vf[at].st = "listening" /\ vf[at].queue = <<>>
    /\ at' = at + 2
    /\ UNCHANGED <<config, proc, k, vf, signalled, conn, inp>>

\* Nothing to accept: the future is pending and select_all polls the next.
Pending ==
    /\ proc = "poll" /\ at <= Len(vf) /\ vf[at].st = "listening" /\ vf[at].queue = <<>>
    /\ at' = at + 1
    /\ UNCHANGED <<config, proc, k, vf, signalled, conn, inp>>

\* Mutant: the signal is not selected on.
PollSignalDeaf ==
    /\ proc = "poll" /\ at > Len(vf)
    /\ proc' = "parked"
    /\ UNCHANGED <<config, k, vf, at, signalled, conn, inp>>

\* run is pending: select looks at the signal, and block_on parks the thread.
PollSignal ==
    /\ proc = "poll" /\ at > Len(vf)
    /\ proc' = IF signalled THEN "right" ELSE "parked"
    /\ UNCHANGED <<config, k, vf, at, signalled, conn, inp>>

\* The executor polls again when a connection or the signal is there.
Wake ==
    /\ proc = "parked"
    /\ signalled \/ \E j \in 1..Len(vf) : vf[j].queue # <<>>
    /\ proc' = "poll" /\ at' = 1
    /\ UNCHANGED <<config, k, vf, signalled, conn, inp>>

\* launch_server after block_on: shutdown_now drops the tasks; the match on
\* the result panics or returns, and the process is over.
Finish ==
    /\ proc \in Resolved
    /\ conn' = [c \in Conns |-> IF conn[c] = "idle" THEN "idle" ELSE "closed"]
    /\ vf' = [j \in 1..Len(vf) |-> [vf[j] EXCEPT !.queue = <<>>]]
    /\ proc' = IF proc = "left" THEN "panicked" ELSE "exit0"
    /\ UNCHANGED <<config, k, at, signalled, inp>>

Main == LoadConfig \/ Launch \/ SetupInbound \/ SelectAll \/ single_run_tun \/ Bind
        \/ AcceptConn \/ AcceptError \/ Pending \/ PollSignal \/ Wake \/ Finish
-----------------------------------------------------------------------------
(***************************************************************************)
(* Connection tasks.                                                       *)
(***************************************************************************)

\* Mutant: a request without a host is skipped (continue for return).
ServeSkipsHostless(c) ==
    /\ conn[c] = "open" /\ inp[c] \in Complete \ {"nohost"}
    /\ conn' = [conn EXCEPT ![c] = "closed"]
    /\ UNCHANGED <<config, proc, k, vf, at, signalled, inp>>

\* The task of one connection.  A complete request, one without a host and one
\* the codec rejects all end it: build_connection_meta fails without a host
\* and run_rule always fails.  So does the end of the stream.
Serve(c) ==
    /\ conn[c] = "open" /\ inp[c] \in Complete
    /\ conn' = [conn EXCEPT ![c] = "closed"]
    /\ UNCHANGED <<config, proc, k, vf, at, signalled, inp>>

(***************************************************************************)
(* Clients and operator (external).                                        *)
(***************************************************************************)
Connect(c) ==
    /\ proc \in Polling \cup Resolved /\ conn[c] = "idle"
    /\ \E j \in 1..Len(vf) :
          /\ vf[j].st = "listening"
          /\ vf' = [vf EXCEPT ![j].queue = Append(@, c)]
    /\ conn' = [conn EXCEPT ![c] = "queued"]
    /\ UNCHANGED <<config, proc, k, at, signalled, inp>>

\* A client that has sent part of a request completes it, breaks it or goes.
Send(c) ==
    /\ conn[c] \in {"queued", "open"} /\ inp[c] \in {"none", "partial"}
    /\ \E m \in Inputs \ {"none"} : inp' = [inp EXCEPT ![c] = m]
    /\ UNCHANGED <<config, proc, k, vf, at, signalled, conn>>

Interrupt ==
    /\ proc \in Polling \cup Resolved \cup {"setup"} /\ ~signalled
    /\ signalled' = TRUE
    /\ UNCHANGED <<config, proc, k, vf, at, conn, inp>>

Next == Main \/ Interrupt \/ \E c \in Conns : Serve(c) \/ Connect(c) \/ Send(c)

Spec == Init /\ [][Next]_vars

\* The main thread and the thread pool run; clients and operator owe nothing.
FairSpec == Spec /\ WF_vars(Main) /\ \A c \in Conns : WF_vars(Serve(c))
-----------------------------------------------------------------------------
(***************************************************************************)
(* Properties.                                                             *)
(***************************************************************************)

\* Every variable has its type.
TypeOK ==
    /\ config \in Seq(Inbounds)
    /\ proc \in {"start", "launch", "setup"} \cup Polling \cup Resolved \cup Ended
    /\ k \in 1..(Len(config) + 1)
    /\ vf \in Seq(Futures)
    /\ at \in 1..(Len(vf) + 1)
    /\ signalled \in BOOLEAN
    /\ conn \in [Conns -> {"idle", "queued", "open", "closed"}]
    /\ inp \in [Conns -> Inputs]

\* The inbounds come up in the order of the configuration: one that is not
\* there yet, one that could not be bound and a TUN inbound (which is over as
\* soon as it is polled) keep every inbound after them from listening.
BindsInOrder ==
    \A i, j \in 1..Len(vf) :
       i < j /\ (vf[i].st = "new" \/ vf[i].kind = "TUN") => vf[j].st = "new"

\* One inbound that is over ends run: never do two end, and while one has
\* ended the main thread polls no other.
OneDownAllDown ==
    \A i \in 1..Len(vf) : vf[i].st = "done" =>
       /\ proc \in {"left", "panicked"}
       /\ \A j \in 1..Len(vf) : vf[j].st = "done" => j = i

\* A process that served and ended with status 0 was interrupted and had lost
\* no inbound: select prefers run, so an inbound that ended is never hidden
\* by a signal that came with it.
CleanExit ==
    proc = "exit0" /\ vf # <<>> =>
       signalled /\ \A i \in 1..Len(vf) : vf[i].st = "listening"

\* A connection whose client sent a request, or left, is closed; also when
\* the request cannot be parsed or names no host.
ConnectionEnds ==
    \A c \in Conns : conn[c] \in {"queued", "open"} /\ inp[c] \in Complete ~> conn[c] = "closed"

\* An interrupted server ends, and so does one that lost an inbound.
ServerEnds ==
    (signalled \/ \E i \in 1..Len(vf) : vf[i].st = "done") ~> proc \in Ended
=============================================================================
