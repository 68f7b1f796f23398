---------------------------- MODULE ServerProofs ----------------------------
(***************************************************************************)
(* The safety of the server process, for every configuration, number of    *)
(* connections and order of events: inbounds come up in order, one that    *)
(* ends takes the process with it, and a clean exit hides no failure.      *)
(***************************************************************************)
EXTENDS Server, SequenceTheorems, TLAPS

\* What an inbound of the configuration holds.
LEMMA InboundTypes ==
    ASSUME NEW inbound \in Inbounds
    PROVE  inbound.kind \in Kinds /\ inbound.listen \in Seq(Addrs)
<1>1. ASSUME NEW s \in SeqUpTo(Addrs, MaxAddrs)
      PROVE  s \in Seq(Addrs)
  <2>1. PICK m \in 0..MaxAddrs : s \in [1..m -> Addrs]
    BY <1>1 DEF SeqUpTo
  <2>2. m \in Nat
    BY <2>1, BoundsAssumption
  <2> QED BY <2>1, <2>2
<1>2. CASE inbound \in [kind : Kinds \ {"TUN"}, listen : SeqUpTo(Addrs, MaxAddrs)]
  <2>1. inbound.kind \in Kinds /\ inbound.listen \in SeqUpTo(Addrs, MaxAddrs)
    BY <1>2
  <2> QED BY <1>1, <2>1
<1>3. CASE inbound \in [kind : Kinds \cap {"TUN"}, listen : {<<>>}]
  <2>1. inbound.kind \in Kinds /\ inbound.listen = <<>>
    BY <1>3
  <2> QED BY <2>1
<1> QED BY <1>2, <1>3 DEF Inbounds

LEMMA InitTypes == Init => TypeOK
<1> SUFFICES ASSUME Init PROVE TypeOK
  OBVIOUS
<1>1. PICK m \in 0..MaxInbounds : config \in [1..m -> Inbounds]
  BY DEF Init, SeqUpTo
<1>2. m \in Nat /\ config \in Seq(Inbounds) /\ Len(config) = m
  BY <1>1, BoundsAssumption
<1>3. vf \in Seq(Futures) /\ at \in 1..(Len(vf) + 1) /\ k \in 1..(Len(config) + 1)
  BY <1>2 DEF Init
<1>4. conn \in [Conns -> {"idle", "queued", "open", "closed"}] /\ inp \in [Conns -> Inputs]
  BY DEF Init, Inputs
<1>5. signalled \in BOOLEAN /\ proc = "start"
  BY DEF Init
<1> QED BY <1>2, <1>3, <1>4, <1>5 DEF TypeOK

\* A future as the vector holds it.
LEMMA FutureTypes ==
    ASSUME TypeOK, NEW i \in 1..Len(vf)
    PROVE  /\ vf[i] \in Futures
           /\ vf[i].kind \in Kinds /\ vf[i].addr \in Addrs \cup {NoAddr}
           /\ vf[i].st \in {"new", "listening", "done"} /\ vf[i].queue \in Seq(Conns)
<1>1. vf[i] \in Futures
  BY DEF TypeOK
<1> QED BY <1>1 DEF Futures

\* One future of the vector is replaced.
LEMMA ReplaceAt ==
    ASSUME TypeOK, NEW i \in 1..Len(vf), NEW f \in Futures, vf' = [vf EXCEPT ![i] = f]
    PROVE  /\ vf' \in Seq(Futures) /\ Len(vf') = Len(vf) /\ vf'[i] = f
           /\ \A j \in 1..Len(vf) : j # i => vf'[j] = vf[j]
<1> DEFINE t == [vf EXCEPT ![i] = f]
<1>1. vf \in Seq(Futures)
  BY DEF TypeOK
<1>2. t \in Seq(Futures) /\ Len(t) = Len(vf)
  BY <1>1, ExceptSeq
<1>3. \A j \in 1..Len(vf) : t[j] = IF j = i THEN f ELSE vf[j]
  BY <1>1, ExceptSeq
<1>4. vf' = t
  OBVIOUS
<1> HIDE DEF t
<1> QED BY <1>2, <1>3, <1>4

\* The vector after the step is the one before with a future changed at i: its
\* state, its queue, never its kind.
Changed(i, st, queue) ==
    /\ i \in 1..Len(vf)
    /\ vf' \in Seq(Futures) /\ Len(vf') = Len(vf)
    /\ \A j \in 1..Len(vf) : j # i => vf'[j] = vf[j]
    /\ vf'[i].st = st /\ vf'[i].queue = queue /\ vf'[i].kind = vf[i].kind

LEMMA ResolveIs ==
    ASSUME TypeOK, at <= Len(vf), Resolve
    PROVE  /\ Changed(at, "done", <<>>) /\ at' = at /\ proc' = "left"
           /\ conn' \in [Conns -> {"idle", "queued", "open", "closed"}]
           /\ \A c \in Conns : conn'[c] = IF \E j \in 1..Len(vf[at].queue) : vf[at].queue[j] = c
                                          THEN "closed" ELSE conn[c]
<1> DEFINE f == [vf[at] EXCEPT !.st = "done", !.queue = <<>>]
<1>1. at \in 1..Len(vf)
  BY DEF TypeOK
<1>2. vf' = [vf EXCEPT ![at] = f]
  BY DEF Resolve
<1>3. f \in Futures /\ f.st = "done" /\ f.queue = <<>> /\ f.kind = vf[at].kind
  <2>1. vf[at] \in Futures /\ <<>> \in Seq(Conns)
    BY <1>1, FutureTypes
  <2> QED BY <2>1 DEF Futures
<1> HIDE DEF f
<1>4. Changed(at, "done", <<>>)
  BY <1>1, <1>2, <1>3, ReplaceAt DEF Changed
<1>5. /\ conn' \in [Conns -> {"idle", "queued", "open", "closed"}]
      /\ \A c \in Conns : conn'[c] = IF \E j \in 1..Len(vf[at].queue) : vf[at].queue[j] = c
                                     THEN "closed" ELSE conn[c]
  BY DEF Resolve, TypeOK
<1> QED BY <1>4, <1>5 DEF Resolve

LEMMA BindIs ==
    ASSUME TypeOK, at <= Len(vf), vf' = [vf EXCEPT ![at].st = "listening"]
    PROVE  Changed(at, "listening", vf[at].queue)
<1> DEFINE f == [vf[at] EXCEPT !.st = "listening"]
<1>1. at \in 1..Len(vf)
  BY DEF TypeOK
<1>2. vf' = [vf EXCEPT ![at] = f]
  OBVIOUS
<1>3. f \in Futures /\ f.st = "listening" /\ f.queue = vf[at].queue /\ f.kind = vf[at].kind
  <2>1. vf[at] \in Futures
    BY <1>1, FutureTypes
  <2> QED BY <2>1 DEF Futures
<1> HIDE DEF f
<1> QED BY <1>1, <1>2, <1>3, ReplaceAt DEF Changed

LEMMA AcceptIs ==
    ASSUME TypeOK, AcceptConn
    PROVE  /\ Changed(at, "listening", Tail(vf[at].queue))
           /\ vf[at].st = "listening" /\ vf[at].queue # <<>> /\ Head(vf[at].queue) \in Conns
           /\ conn' = [conn EXCEPT ![Head(vf[at].queue)] = "open"]
           /\ UNCHANGED <<config, proc, k, at, signalled, inp>>
<1> DEFINE f == [vf[at] EXCEPT !.queue = Tail(@)]
<1>1. at \in 1..Len(vf) /\ vf[at].st = "listening" /\ vf[at].queue # <<>>
  BY DEF TypeOK, AcceptConn
<1>2. vf' = [vf EXCEPT ![at] = f]
  BY DEF AcceptConn
<1>3. vf[at] \in Futures /\ vf[at].queue \in Seq(Conns)
  BY <1>1, FutureTypes
<1>4. Tail(vf[at].queue) \in Seq(Conns) /\ Head(vf[at].queue) \in Conns
  BY <1>1, <1>3
<1>5. f \in Futures /\ f.st = "listening" /\ f.queue = Tail(vf[at].queue) /\ f.kind = vf[at].kind
  BY <1>1, <1>3, <1>4 DEF Futures
<1> HIDE DEF f
<1> QED BY <1>1, <1>2, <1>4, <1>5, ReplaceAt DEF Changed, AcceptConn

LEMMA ConnectIs ==
    ASSUME TypeOK, NEW c \in Conns, Connect(c)
    PROVE  \E j \in 1..Len(vf) : /\ vf[j].st = "listening"
                                 /\ Changed(j, "listening", Append(vf[j].queue, c))
<1>1. PICK j \in 1..Len(vf) : /\ vf[j].st = "listening"
                              /\ vf' = [vf EXCEPT ![j].queue = Append(@, c)]
  BY DEF Connect
<1> DEFINE f == [vf[j] EXCEPT !.queue = Append(@, c)]
<1>2. vf' = [vf EXCEPT ![j] = f]
  BY <1>1
<1>3. vf[j] \in Futures /\ vf[j].queue \in Seq(Conns)
  BY FutureTypes
<1>4. Append(vf[j].queue, c) \in Seq(Conns)
  BY <1>3
<1>5. f \in Futures /\ f.st = "listening" /\ f.queue = Append(vf[j].queue, c) /\ f.kind = vf[j].kind
  BY <1>1, <1>3, <1>4 DEF Futures
<1> HIDE DEF f
<1>6. Changed(j, "listening", Append(vf[j].queue, c))
  BY <1>2, <1>5, ReplaceAt DEF Changed
<1> QED BY <1>1, <1>6

\* The futures an inbound adds are new and have empty queues.
LEMMA SetupIs ==
    ASSUME TypeOK, SetupInbound
    PROVE  /\ vf' \in Seq(Futures) /\ Len(vf') \in Nat /\ Len(vf) <= Len(vf')
           /\ \A i \in 1..Len(vf) : vf'[i] = vf[i]
           /\ \A i \in 1..Len(vf') : i > Len(vf) => vf'[i].st = "new" /\ vf'[i].queue = <<>>
           /\ k' \in 1..(Len(config) + 1) /\ proc' \in {"left", "setup"}
           /\ UNCHANGED <<config, at, signalled, conn, inp>>
<1> DEFINE inbound == config[k]
           new == [j \in 1..Len(inbound.listen) |-> Future(inbound.kind, inbound.listen[j])]
           tun == Future("TUN", NoAddr)
<1>1. /\ proc = "setup" /\ k <= Len(config) /\ k \in 1..Len(config) /\ vf \in Seq(Futures)
      /\ UNCHANGED <<config, at, signalled, conn, inp>>
  BY DEF SetupInbound, TypeOK
<1>2. inbound.kind \in Kinds /\ inbound.listen \in Seq(Addrs)
  BY <1>1, InboundTypes DEF TypeOK
<1>3. CASE proc' = "left" /\ UNCHANGED <<k, vf>>
  BY <1>1, <1>3 DEF TypeOK
<1>4. CASE vf' = vf \o new /\ k' = k + 1 /\ proc' = proc
  <2>1. \A kind \in Kinds, addr \in Addrs :
           /\ Future(kind, addr) \in Futures
           /\ Future(kind, addr).st = "new" /\ Future(kind, addr).queue = <<>>
    <3>1. <<>> \in Seq(Conns)
      OBVIOUS
    <3> QED BY <3>1 DEF Future, Futures
  <2>2. Len(inbound.listen) \in Nat /\ \A j \in 1..Len(inbound.listen) : inbound.listen[j] \in Addrs
    BY <1>2
  <2>3. /\ new \in Seq(Futures) /\ Len(new) \in Nat
        /\ \A j \in 1..Len(new) : new[j].st = "new" /\ new[j].queue = <<>>
    BY <1>2, <2>1, <2>2
  <2> HIDE DEF new
  <2>4. /\ vf' \in Seq(Futures) /\ Len(vf') = Len(vf) + Len(new) /\ Len(vf) \in Nat
        /\ \A i \in 1..Len(vf) : vf'[i] = vf[i]
        /\ \A i \in 1..Len(vf') : i > Len(vf) => i - Len(vf) \in 1..Len(new) /\ vf'[i] = new[i - Len(vf)]
    BY <1>1, <1>4, <2>3
  <2>5. \A i \in 1..Len(vf') : i > Len(vf) => vf'[i].st = "new" /\ vf'[i].queue = <<>>
    BY <2>3, <2>4
  <2>6. k' \in 1..(Len(config) + 1)
    BY <1>1, <1>4
  <2> QED BY <1>1, <1>4, <2>3, <2>4, <2>5, <2>6
<1>5. CASE inbound.kind = "TUN" /\ vf' = Append(vf, tun) /\ k' = k + 1 /\ proc' = proc
  <2>1. tun \in Futures /\ tun.st = "new" /\ tun.queue = <<>>
    <3>1. <<>> \in Seq(Conns) /\ "TUN" \in Kinds
      BY <1>2, <1>5
    <3> QED BY <3>1 DEF Future, Futures
  <2> HIDE DEF tun
  <2>2. /\ vf' \in Seq(Futures) /\ Len(vf') = Len(vf) + 1 /\ Len(vf) \in Nat
        /\ \A i \in 1..Len(vf) : vf'[i] = vf[i]
        /\ vf'[Len(vf) + 1] = tun
    BY <1>1, <1>5, <2>1
  <2>3. \A i \in 1..Len(vf') : i > Len(vf) => i = Len(vf) + 1
    BY <2>2
  <2>4. k' \in 1..(Len(config) + 1)
    BY <1>1, <1>5
  <2> QED BY <1>1, <1>5, <2>1, <2>2, <2>3, <2>4
<1> QED BY <1>3, <1>4, <1>5 DEF SetupInbound

LEMMA FinishIs ==
    ASSUME TypeOK, Finish
    PROVE  /\ vf' \in Seq(Futures) /\ Len(vf') = Len(vf)
           /\ \A i \in 1..Len(vf) : /\ vf'[i].st = vf[i].st /\ vf'[i].kind = vf[i].kind
                                    /\ vf'[i].queue = <<>>
           /\ conn' \in [Conns -> {"idle", "closed"}]
           /\ proc' = IF proc = "left" THEN "panicked" ELSE "exit0"
           /\ proc \in Resolved /\ UNCHANGED <<config, k, at, signalled, inp>>
<1>1. vf' = [j \in 1..Len(vf) |-> [vf[j] EXCEPT !.queue = <<>>]]
  BY DEF Finish
<1> DEFINE f(j) == [vf[j] EXCEPT !.queue = <<>>]
<1>2. \A j \in 1..Len(vf) : /\ f(j) \in Futures /\ f(j).st = vf[j].st
                            /\ f(j).kind = vf[j].kind /\ f(j).queue = <<>>
  <2> SUFFICES ASSUME NEW j \in 1..Len(vf)
               PROVE  /\ f(j) \in Futures /\ f(j).st = vf[j].st
                      /\ f(j).kind = vf[j].kind /\ f(j).queue = <<>>
    OBVIOUS
  <2>1. vf[j] \in Futures /\ <<>> \in Seq(Conns)
    BY FutureTypes
  <2> QED BY <2>1 DEF Futures
<1>3. Len(vf) \in Nat /\ vf' = [j \in 1..Len(vf) |-> f(j)]
  BY <1>1 DEF TypeOK
<1> HIDE DEF f
<1>4. /\ vf' \in Seq(Futures) /\ Len(vf') = Len(vf)
      /\ \A i \in 1..Len(vf) : /\ vf'[i].st = vf[i].st /\ vf'[i].kind = vf[i].kind
                               /\ vf'[i].queue = <<>>
  BY <1>2, <1>3
<1>5. conn' \in [Conns -> {"idle", "closed"}]
  BY DEF Finish
<1> QED BY <1>4, <1>5 DEF Finish
-----------------------------------------------------------------------------
LEMMA NextTypes == TypeOK /\ [Next]_vars => TypeOK'
<1> SUFFICES ASSUME TypeOK, [Next]_vars PROVE TypeOK'
  OBVIOUS
<1> DEFINE States == {"idle", "queued", "open", "closed"}
<1>1. CASE LoadConfig \/ Launch \/ SelectAll \/ PollSignal \/ Interrupt
  BY <1>1 DEF LoadConfig, Launch, SelectAll, PollSignal, Interrupt, TypeOK, Polling, Resolved, Ended
<1>2. CASE SetupInbound
  <2>1. at \in 1..(Len(vf') + 1)
    <3>1. at \in 1..(Len(vf) + 1) /\ Len(vf) \in Nat
      BY DEF TypeOK
    <3> QED BY <1>2, <3>1, SetupIs
  <2> QED BY <1>2, <2>1, SetupIs DEF TypeOK, Resolved
<1>3. CASE single_run_tun \/ AcceptError
  <2>1. Resolve /\ at <= Len(vf) /\ UNCHANGED <<config, k, signalled, inp>>
    BY <1>3 DEF single_run_tun, AcceptError
  <2> QED BY <2>1, ResolveIs DEF TypeOK, Changed, Resolved
<1>4. CASE Bind
  <2>1. at <= Len(vf) /\ UNCHANGED <<config, k, signalled, inp>>
    BY <1>4 DEF Bind
  <2>2. CASE Resolve
    BY <2>1, <2>2, ResolveIs DEF TypeOK, Changed, Resolved
  <2>3. CASE vf' = [vf EXCEPT ![at].st = "listening"] /\ UNCHANGED <<proc, at, conn>>
    BY <2>1, <2>3, BindIs DEF TypeOK, Changed
  <2> QED BY <1>4, <2>2, <2>3 DEF Bind
<1>5. CASE AcceptConn
  <2>1. conn' \in [Conns -> States]
    BY <1>5, AcceptIs DEF TypeOK
  <2> QED BY <1>5, <2>1, AcceptIs DEF TypeOK, Changed
<1>6. CASE Pending
  <2>1. at' \in 1..(Len(vf) + 1)
    BY <1>6 DEF Pending, TypeOK
  <2> QED BY <1>6, <2>1 DEF Pending, TypeOK
<1>7. CASE Wake
  <2>1. at' \in 1..(Len(vf) + 1)
    BY <1>7 DEF Wake, TypeOK
  <2> QED BY <1>7, <2>1 DEF Wake, TypeOK, Polling
<1>8. CASE Finish
  <2>1. conn' \in [Conns -> States]
    BY <1>8, FinishIs
  <2> QED BY <1>8, <2>1, FinishIs DEF TypeOK, Ended
<1>9. ASSUME NEW c \in Conns, Serve(c)
      PROVE  TypeOK'
  <2>1. conn' \in [Conns -> States]
    BY <1>9 DEF Serve, TypeOK
  <2> QED BY <1>9, <2>1 DEF Serve, TypeOK
<1>10. ASSUME NEW c \in Conns, Connect(c)
       PROVE  TypeOK'
  <2>1. conn' \in [Conns -> States]
    BY <1>10 DEF Connect, TypeOK
  <2>2. vf' \in Seq(Futures) /\ Len(vf') = Len(vf)
    BY <1>10, ConnectIs DEF Changed
  <2> QED BY <1>10, <2>1, <2>2 DEF Connect, TypeOK
<1>11. ASSUME NEW c \in Conns, Send(c)
       PROVE  TypeOK'
  <2>1. inp' \in [Conns -> Inputs]
    BY <1>11 DEF Send, TypeOK
  <2> QED BY <1>11, <2>1 DEF Send, TypeOK
<1>12. CASE UNCHANGED vars
  BY <1>12 DEF vars, TypeOK
<1> QED BY <1>1, <1>2, <1>3, <1>4, <1>5, <1>6, <1>7, <1>8, <1>9, <1>10, <1>11, <1>12
        DEF Next, Main

\* Every variable keeps its type, whatever clients and operator do.
THEOREM TypeCorrect == Spec => []TypeOK
BY InitTypes, NextTypes, PTL DEF Spec
-----------------------------------------------------------------------------
\* Where the main thread is tells which inbounds are up.  A poll has brought
\* up everything before the future it is at, so a thread that has been through
\* the vector once finds all of it listening; nothing but the future it is at
\* can end, and that takes the thread out of the loop.
Progress ==
    /\ \A i \in 1..Len(vf) : vf[i].kind = "TUN" => vf[i].st # "listening"
    /\ proc \in {"start", "launch"} => vf = <<>>
    /\ proc \in {"start", "launch", "setup"} =>
          at = 1 /\ \A i \in 1..Len(vf) : vf[i].st = "new"
    /\ proc = "poll" => \A i \in 1..Len(vf) : vf[i].st # "done" /\ (i < at => vf[i].st = "listening")
    /\ proc \in {"parked", "right"} => \A i \in 1..Len(vf) : vf[i].st = "listening"
    /\ proc = "right" => signalled

OrderInv == TypeOK /\ BindsInOrder /\ OneDownAllDown /\ CleanExit /\ Progress

\* A step that changes neither the state of a future nor where the main thread
\* is, as seen by the invariant.
LEMMA SameStates ==
    ASSUME OrderInv, TypeOK', Len(vf') = Len(vf), vf' = <<>> <=> vf = <<>>,
           \A i \in 1..Len(vf) : vf'[i].st = vf[i].st /\ vf'[i].kind = vf[i].kind,
           proc' = proc, at' = at, signalled => signalled'
    PROVE  OrderInv'
<1>1. BindsInOrder' /\ OneDownAllDown' /\ CleanExit'
  BY DEF OrderInv, BindsInOrder, OneDownAllDown, CleanExit
<1>2. Progress'
  BY DEF OrderInv, Progress
<1> QED BY <1>1, <1>2 DEF OrderInv

\* The future the main thread is at ends.
LEMMA ResolveOrder ==
    ASSUME OrderInv, TypeOK', proc = "poll", at <= Len(vf), Resolve, signalled' = signalled
    PROVE  OrderInv'
<1>1. Changed(at, "done", <<>>) /\ proc' = "left" /\ at' = at
  BY ResolveIs DEF OrderInv
<1>2. /\ at \in 1..Len(vf) /\ Len(vf') = Len(vf) /\ Len(vf) \in Nat
      /\ \A j \in 1..Len(vf) : j # at => vf'[j] = vf[j]
      /\ vf'[at].st = "done" /\ vf'[at].kind = vf[at].kind
  BY <1>1 DEF Changed, OrderInv, TypeOK
<1>3. \A i \in 1..Len(vf) : /\ vf[i].st # "done"
                            /\ i < at => vf[i].st = "listening" /\ vf[i].kind # "TUN"
  BY DEF OrderInv, Progress
<1>4. BindsInOrder'
  <2> SUFFICES ASSUME NEW i \in 1..Len(vf'), NEW j \in 1..Len(vf'), i < j,
                      vf'[i].st = "new" \/ vf'[i].kind = "TUN"
               PROVE  vf'[j].st = "new"
    BY DEF BindsInOrder
  <2>1. vf[i].st = "new" \/ vf[i].kind = "TUN"
    BY <1>2
  <2>2. vf[j].st = "new"
    BY <1>2, <2>1 DEF OrderInv, BindsInOrder
  <2>3. j # at
    BY <1>2, <1>3, <2>1
  <2> QED BY <1>2, <2>2, <2>3
<1>5. OneDownAllDown'
  BY <1>1, <1>2, <1>3 DEF OneDownAllDown
<1>6. CleanExit' /\ Progress'
  BY <1>1, <1>2 DEF CleanExit, Progress, OrderInv
<1> QED BY <1>4, <1>5, <1>6 DEF OrderInv

LEMMA OrderStep == OrderInv /\ [Next]_vars => OrderInv'
<1> SUFFICES ASSUME OrderInv, [Next]_vars PROVE OrderInv'
  OBVIOUS
<1>0. TypeOK'
  BY NextTypes DEF OrderInv
<1>1. CASE LoadConfig \/ Launch
  <2>1. /\ UNCHANGED <<vf, at, signalled>> /\ proc \in {"start", "launch"}
        /\ proc' \in {"launch", "setup", "exit0", "exit1", "panicked"}
    BY <1>1 DEF LoadConfig, Launch
  <2>2. vf = <<>> /\ at = 1
    BY <2>1 DEF OrderInv, Progress
  <2> QED BY <1>0, <2>1, <2>2 DEF OrderInv, BindsInOrder, OneDownAllDown, CleanExit, Progress
<1>2. CASE SetupInbound
  <2>1. proc = "setup" /\ UNCHANGED <<at, signalled>> /\ proc' \in {"left", "setup"}
    BY <1>2, SetupIs DEF SetupInbound, OrderInv
  <2>2. \A i \in 1..Len(vf') : vf'[i].st = "new"
    <3> SUFFICES ASSUME NEW i \in 1..Len(vf') PROVE vf'[i].st = "new"
      OBVIOUS
    <3>1. CASE i > Len(vf)
      BY <1>2, <3>1, SetupIs DEF OrderInv
    <3>2. CASE ~(i > Len(vf))
      <4>1. i \in 1..Len(vf)
        BY <3>2 DEF OrderInv, TypeOK
      <4>2. vf'[i] = vf[i]
        BY <1>2, <4>1, SetupIs DEF OrderInv
      <4> QED BY <2>1, <4>1, <4>2 DEF OrderInv, Progress
    <3> QED BY <3>1, <3>2
  <2>3. BindsInOrder' /\ OneDownAllDown' /\ CleanExit'
    BY <2>1, <2>2 DEF BindsInOrder, OneDownAllDown, CleanExit
  <2>4. Progress'
    BY <2>1, <2>2 DEF Progress, OrderInv
  <2> QED BY <1>0, <2>3, <2>4 DEF OrderInv
<1>3. CASE SelectAll
  <2>1. /\ proc = "setup" /\ proc' \in {"panicked", "poll"} /\ UNCHANGED <<vf, at, signalled>>
    BY <1>3 DEF SelectAll
  <2>2. at = 1 /\ \A i \in 1..Len(vf) : vf[i].st = "new"
    BY <2>1 DEF OrderInv, Progress
  <2>3. Progress'
    BY <2>1, <2>2 DEF Progress
  <2> QED BY <1>0, <2>1, <2>2, <2>3 DEF OrderInv, BindsInOrder, OneDownAllDown, CleanExit
<1>4. CASE single_run_tun \/ AcceptError
  BY <1>0, <1>4, ResolveOrder DEF single_run_tun, AcceptError
<1>5. CASE Bind
  <2>1. /\ proc = "poll" /\ at <= Len(vf) /\ vf[at].kind # "TUN" /\ vf[at].st = "new"
        /\ signalled' = signalled
    BY <1>5 DEF Bind
  <2>2. CASE Resolve
    BY <1>0, <2>1, <2>2, ResolveOrder
  <2>3. CASE vf' = [vf EXCEPT ![at].st = "listening"] /\ UNCHANGED <<proc, at, conn>>
    <3>1. /\ at \in 1..Len(vf) /\ Len(vf') = Len(vf) /\ Len(vf) \in Nat
          /\ \A j \in 1..Len(vf) : j # at => vf'[j] = vf[j]
          /\ vf'[at].st = "listening" /\ vf'[at].kind = vf[at].kind
      BY <2>1, <2>3, BindIs DEF Changed, OrderInv, TypeOK
    <3>2. \A i \in 1..Len(vf) : /\ vf[i].st # "done"
                                /\ i < at => vf[i].st = "listening" /\ vf[i].kind # "TUN"
      BY <2>1 DEF OrderInv, Progress
    <3>3. BindsInOrder'
      <4> SUFFICES ASSUME NEW i \in 1..Len(vf'), NEW j \in 1..Len(vf'), i < j,
                          vf'[i].st = "new" \/ vf'[i].kind = "TUN"
                   PROVE  vf'[j].st = "new"
        BY DEF BindsInOrder
      <4>1. i # at /\ (vf[i].st = "new" \/ vf[i].kind = "TUN")
        BY <2>1, <3>1
      <4>2. ~(i < at) /\ vf[j].st = "new"
        BY <3>1, <3>2, <4>1 DEF OrderInv, BindsInOrder
      <4> QED BY <3>1, <4>1, <4>2
    <3>4. OneDownAllDown' /\ CleanExit'
      BY <2>1, <2>3, <3>1, <3>2 DEF OneDownAllDown, CleanExit
    <3>5. Progress'
      BY <2>1, <2>3, <3>1, <3>2 DEF Progress, OrderInv
    <3> QED BY <1>0, <3>3, <3>4, <3>5 DEF OrderInv
  <2> QED BY <1>5, <2>2, <2>3 DEF Bind
<1>6. CASE AcceptConn
  <2>1. /\ Len(vf') = Len(vf) /\ at \in 1..Len(vf) /\ vf' \in Seq(Futures) /\ vf \in Seq(Futures)
        /\ \A i \in 1..Len(vf) : vf'[i].st = vf[i].st /\ vf'[i].kind = vf[i].kind
    BY <1>6, AcceptIs DEF OrderInv, Changed, TypeOK
  <2>2. vf' # <<>> /\ vf # <<>>
    BY <2>1
  <2> QED BY <1>0, <1>6, <2>1, <2>2, SameStates, AcceptIs DEF OrderInv
<1>7. CASE Pending
  <2>1. /\ proc = "poll" /\ at <= Len(vf) /\ vf[at].st = "listening" /\ at' = at + 1
        /\ UNCHANGED <<vf, proc, signalled>> /\ at \in Nat
    BY <1>7 DEF Pending, OrderInv, TypeOK
  <2>2. Progress'
    BY <2>1 DEF Progress, OrderInv, TypeOK
  <2> QED BY <1>0, <2>1, <2>2 DEF OrderInv, BindsInOrder, OneDownAllDown, CleanExit
<1>8. CASE PollSignal
  <2>1. /\ proc = "poll" /\ at > Len(vf) /\ UNCHANGED <<vf, at, signalled>>
        /\ proc' \in {"right", "parked"} /\ (proc' = "right" => signalled)
    BY <1>8 DEF PollSignal
  <2>2. \A i \in 1..Len(vf) : vf[i].st = "listening"
    BY <2>1 DEF OrderInv, Progress, TypeOK
  <2>3. Progress'
    BY <2>1, <2>2 DEF Progress, OrderInv
  <2> QED BY <1>0, <2>1, <2>2, <2>3 DEF OrderInv, BindsInOrder, OneDownAllDown, CleanExit
<1>9. CASE Wake
  <2>1. proc = "parked" /\ proc' = "poll" /\ at' = 1 /\ UNCHANGED <<vf, signalled>>
    BY <1>9 DEF Wake
  <2>2. Progress'
    BY <2>1 DEF Progress, OrderInv
  <2> QED BY <1>0, <2>1, <2>2 DEF OrderInv, Progress, BindsInOrder, OneDownAllDown, CleanExit
<1>10. CASE Finish
  <2>1. /\ Len(vf') = Len(vf) /\ proc \in {"left", "right"}
        /\ \A i \in 1..Len(vf) : vf'[i].st = vf[i].st /\ vf'[i].kind = vf[i].kind
        /\ proc' = IF proc = "left" THEN "panicked" ELSE "exit0"
        /\ signalled' = signalled
    BY <1>10, FinishIs DEF OrderInv, Resolved
  <2>2. BindsInOrder' /\ OneDownAllDown'
    BY <2>1 DEF OrderInv, BindsInOrder, OneDownAllDown
  <2>3. CleanExit' /\ Progress'
    BY <2>1 DEF OrderInv, CleanExit, Progress
  <2> QED BY <1>0, <2>2, <2>3 DEF OrderInv
<1>11. ASSUME NEW c \in Conns, Connect(c)
       PROVE  OrderInv'
  <2>0. PICK j \in 1..Len(vf) : /\ vf[j].st = "listening"
                                /\ Changed(j, "listening", Append(vf[j].queue, c))
    BY <1>11, ConnectIs DEF OrderInv
  <2>1. /\ Len(vf') = Len(vf) /\ Len(vf) # 0 /\ vf' \in Seq(Futures) /\ vf \in Seq(Futures)
        /\ \A i \in 1..Len(vf) : vf'[i].st = vf[i].st /\ vf'[i].kind = vf[i].kind
    <3>1. vf' \in Seq(Futures) /\ Len(vf') = Len(vf)
      BY <2>0, Zenon DEF Changed
    <3>2. vf \in Seq(Futures) /\ Len(vf) # 0
      <4>1. vf \in Seq(Futures)
        BY DEF OrderInv, TypeOK
      <4> QED BY <4>1
    <3>3. vf'[j].st = vf[j].st /\ vf'[j].kind = vf[j].kind
      BY <2>0, Zenon DEF Changed
    <3>4. \A i \in 1..Len(vf) : i # j => vf'[i] = vf[i]
      BY <2>0, Zenon DEF Changed
    <3> QED BY <3>1, <3>2, <3>3, <3>4, Zenon
  <2>2. vf' # <<>> /\ vf # <<>>
    BY <2>1
  <2> QED BY <1>0, <1>11, <2>1, <2>2, SameStates DEF Connect
<1>12. CASE \/ UNCHANGED vars \/ Interrupt
            \/ \E c \in Conns : Serve(c) \/ Send(c)
  <2>1. UNCHANGED <<vf, proc, at>> /\ (signalled => signalled')
    BY <1>12 DEF vars, Interrupt, Serve, Send
  <2> QED BY <1>0, <2>1, SameStates
<1> QED BY <1>1, <1>2, <1>3, <1>4, <1>5, <1>6, <1>7, <1>8, <1>9, <1>10, <1>11, <1>12
        DEF Next, Main

LEMMA OrderInvariant == Spec => []OrderInv
<1>1. Init => OrderInv
  <2> SUFFICES ASSUME Init PROVE OrderInv
    OBVIOUS
  <2>1. TypeOK /\ vf = <<>> /\ proc = "start" /\ at = 1
    BY InitTypes DEF Init
  <2> QED BY <2>1 DEF OrderInv, BindsInOrder, OneDownAllDown, CleanExit, Progress
<1> QED BY <1>1, OrderStep, PTL DEF Spec

\* The inbounds of every configuration come up in its order; behind one that
\* is not up, and behind a TUN inbound, none listens.
THEOREM InboundsBindInOrder == Spec => []BindsInOrder
<1>1. OrderInv => BindsInOrder
  BY DEF OrderInv
<1> QED BY <1>1, OrderInvariant, PTL

\* At most one inbound ever ends, and the process is then on its way out.
THEOREM OneInboundEndsAll == Spec => []OneDownAllDown
<1>1. OrderInv => OneDownAllDown
  BY DEF OrderInv
<1> QED BY <1>1, OrderInvariant, PTL

\* Exit status 0 after serving means: interrupted, with every inbound up.
THEOREM CleanExitIsClean == Spec => []CleanExit
<1>1. OrderInv => CleanExit
  BY DEF OrderInv
<1> QED BY <1>1, OrderInvariant, PTL
=============================================================================
