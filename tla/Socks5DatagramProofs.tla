------------------------ MODULE Socks5DatagramProofs ------------------------
(***************************************************************************)
(* recv_from delivers payloads intact and send_to writes the header that   *)
(* is documented, for datagrams, buffers and domain names of every length. *)
(***************************************************************************)
EXTENDS Socks5Datagram, TLAPS

\* The addresses write_addr writes leave room in the header array of send_to
\* and recv_from: one byte more than the longest of them needs.
LEMMA HeaderLenBound ==
    ASSUME NEW t \in Targets, Writable(t)
    PROVE  HeaderLen(t) \in Nat /\ HeaderLen(t) < HEADER
<1> USE DomainLensAssumption DEF HeaderLen, HEADER, MAX_ADDR_LEN, AddrLen, Writable, Targets
<1>1. CASE t \in [kind : {"V4", "V6"}, len : {0}]
  BY <1>1
<1>2. CASE t \in [kind : {"Domain"}, len : DomainLens]
  <2>1. t.kind = "Domain" /\ t.len \in Nat
    BY <1>2
  <2> QED BY <2>1
<1> QED BY <1>1, <1>2

\* What the two arrays hold together is the payload, when there is room for it
\* in the caller's buffer; and there is, whenever recv_from gets as far as Ok.
LEMMA FitsMeansWhole ==
    ASSUME NEW d \in Datagrams, d.fault = "none", NEW b \in Nat, Fits(d, b)
    PROVE  /\ Rest(d, b) \in Nat /\ Overflow(d, b) \in Nat
           /\ Rest(d, b) + Overflow(d, b) = d.len
           /\ Overflow(d, b) > 0 => HEADER = HeaderLen(d.from) + Rest(d, b)
<1>1. /\ d.from \in Targets /\ Writable(d.from) /\ d.len \in Nat
  BY PayloadAssumption DEF Datagrams
<1>2. HeaderLen(d.from) \in Nat /\ HeaderLen(d.from) < HEADER /\ HEADER \in Nat
  BY <1>1, HeaderLenBound DEF HEADER, MAX_ADDR_LEN
<1> QED
  BY <1>1, <1>2 DEF Fits, Rest, Overflow, ReadLen, Least

\* A call of recv_from on a well-formed datagram gets through exactly when the
\* caller's buffer has room for the payload; the size of the header plays no
\* part, although the header array holds the start of the payload.
THEOREM RoomIsEnough ==
    ASSUME NEW d \in Datagrams, d.fault = "none", NEW b \in Nat
    PROVE  Fits(d, b) <=> d.len <= b
<1>1. d.from \in Targets /\ Writable(d.from) /\ d.len \in Nat
  BY PayloadAssumption DEF Datagrams
<1>2. HeaderLen(d.from) \in Nat /\ HeaderLen(d.from) < HEADER /\ HEADER \in Nat
  BY <1>1, HeaderLenBound DEF HEADER, MAX_ADDR_LEN
<1> QED
  BY <1>1, <1>2 DEF Fits, Rest, Overflow, ReadLen, Least

\* readv, ptr::copy and copy_from_slice put byte i of the payload at place i
\* of the caller's buffer.
LEMMA BufferHoldsPayload ==
    ASSUME NEW n, NEW d \in Datagrams, d.fault = "none", NEW b \in Nat, Fits(d, b),
           NEW i \in 1..d.len
    PROVE  AfterCopy(n, d, b)[i] = Payload(n, i)
<1> DEFINE hl == HeaderLen(d.from)
           rest == Rest(d, b)
           over == Overflow(d, b)
<1>1. /\ d.len \in Nat /\ hl \in Nat /\ HEADER \in Nat /\ rest \in Nat /\ over \in Nat
      /\ rest + over = d.len /\ rest + over <= b
      /\ over > 0 => HEADER = hl + rest
  BY PayloadAssumption, HeaderLenBound, FitsMeansWhole DEF Datagrams, HEADER, MAX_ADDR_LEN, Fits
<1>2. i \in 1..b /\ i \in Nat
  BY <1>1
<1>3. CASE i <= rest
  <2>1. AfterCopy(n, d, b)[i] = Wire(n, d, hl + i)
    BY <1>2, <1>3 DEF AfterCopy
  <2>2. ~(hl + i <= hl) /\ (hl + i) - hl = i
    BY <1>1, <1>2
  <2> QED BY <2>1, <2>2 DEF Wire
<1>4. CASE ~(i <= rest)
  <2>1. rest < i /\ i <= rest + over /\ i - rest \in 1..b /\ i - rest <= over /\ over > 0
    BY <1>1, <1>2, <1>4
  <2>2. AfterCopy(n, d, b)[i] = AfterMove(n, d, b)[i]
    BY <1>2, <1>4 DEF AfterCopy
  <2>3. AfterMove(n, d, b)[i] = AfterRead(n, d, b)[i - rest]
    BY <1>2, <2>1 DEF AfterMove
  <2>4. AfterRead(n, d, b)[i - rest] = Wire(n, d, HEADER + (i - rest))
    BY <2>1 DEF AfterRead
  <2>5. HEADER + (i - rest) = hl + i /\ ~(hl + i <= hl) /\ (hl + i) - hl = i
    BY <1>1, <1>2, <2>1
  <2> QED BY <2>2, <2>3, <2>4, <2>5 DEF Wire
<1> QED BY <1>3, <1>4
-----------------------------------------------------------------------------
\* Datagrams on their way are datagrams the far end sent.
Inv ==
    /\ peer \in Seq(Datagrams)
    /\ net \subseteq 1..Len(peer)
    /\ DeliveredIntact

\* One call of recv_from establishes the property.
LEMMA ReceivedIntact ==
    ASSUME Inv, NEW n \in net, NEW b \in BufLens, ret' = Received(n, peer[n], b),
           peer' = peer
    PROVE  DeliveredIntact'
<1> DEFINE d == peer[n]
<1>1. n \in 1..Len(peer) /\ d \in Datagrams /\ b \in Nat
  BY PayloadAssumption DEF Inv
<1>2. CASE d.fault # "none" \/ ~Fits(d, b)
  <2>1. CASE d.fault # "none"
    <3>1. ret' = [call |-> "recv", res |-> ErrorOf(d.fault)]
      BY <2>1 DEF Received, Failed
    <3>2. ErrorOf(d.fault) # "ok"
      BY <1>1, <2>1 DEF ErrorOf, Datagrams, Faults
    <3> QED BY <3>1, <3>2 DEF DeliveredIntact
  <2>2. CASE d.fault = "none" /\ ~Fits(d, b)
    <3>1. ret' = [call |-> "recv", res |-> Misfit(d, b)]
      BY <2>2 DEF Received, Failed
    <3>2. Misfit(d, b) # "ok"
      BY DEF Misfit
    <3> QED BY <3>1, <3>2 DEF DeliveredIntact
  <2> QED BY <1>2, <2>1, <2>2
<1>3. CASE d.fault = "none" /\ Fits(d, b)
  <2>1. ret' = [call |-> "recv", res |-> "ok", n |-> n, len |-> Rest(d, b) + Overflow(d, b),
                from |-> d.from, data |-> AfterCopy(n, d, b)]
    BY <1>3 DEF Received
  <2>2. Rest(d, b) + Overflow(d, b) = d.len
    BY <1>1, <1>3, FitsMeansWhole
  <2>3. \A i \in 1..d.len : AfterCopy(n, d, b)[i] = Payload(n, i)
    BY <1>1, <1>3, BufferHoldsPayload
  <2>4. /\ ret'.n = n /\ ret'.len = d.len /\ ret'.from = d.from
        /\ ret'.data = AfterCopy(n, d, b)
    BY <2>1, <2>2
  <2> QED BY <1>1, <1>3, <2>3, <2>4 DEF DeliveredIntact
<1> QED BY <1>2, <1>3

\* recv_from returns what some datagram carried, whole, in order and with its
\* address, or an error: for every length of payload, buffer and domain name.
THEOREM RecvDeliversIntact == Spec => []DeliveredIntact
<1>1. Init => Inv
  BY DEF Init, Inv, DeliveredIntact, Nothing
<1>2. Inv /\ [Next]_vars => Inv'
  <2> SUFFICES ASSUME Inv, [Next]_vars PROVE Inv'
    OBVIOUS
  <2>1. CASE SendTo
    <3>1. PICK t \in Targets, len \in PayloadLens :
             ret' = IF Writable(t) THEN Sent(t, len) ELSE Failed("send", "InvalidInput")
      BY <2>1 DEF SendTo
    <3>2. ret'.call = "send"
      BY <3>1 DEF Sent, Failed
    <3> QED BY <2>1, <3>2 DEF SendTo, Inv, DeliveredIntact
  <2>2. CASE RecvFrom
    <3>1. PICK n \in net, b \in BufLens : ret' = Received(n, peer[n], b) /\ net' \in {net, net \ {n}}
      BY <2>2 DEF RecvFrom
    <3>2. peer' = peer
      BY <2>2 DEF RecvFrom
    <3>3. DeliveredIntact'
      BY <3>1, <3>2, ReceivedIntact
    <3> QED BY <3>1, <3>2, <3>3 DEF Inv
  <2>3. CASE PeerSends
    <3>1. PICK d \in Datagrams : peer' = Append(peer, d)
      BY <2>3 DEF PeerSends
    <3>2. /\ peer' \in Seq(Datagrams) /\ Len(peer') = Len(peer) + 1
          /\ \A n \in 1..Len(peer) : peer'[n] = peer[n]
      BY <3>1 DEF Inv
    <3>3. net' \subseteq 1..Len(peer')
      <4>1. net \subseteq 1..Len(peer) /\ net' = net \cup {Len(peer) + 1} /\ Len(peer) \in Nat
        BY <2>3 DEF PeerSends, Inv
      <4>2. SUFFICES ASSUME NEW m \in net' PROVE m \in 1..Len(peer')
        OBVIOUS
      <4>3. m \in 1..Len(peer) \/ m = Len(peer) + 1
        BY <4>1
      <4>4. Len(peer') = Len(peer) + 1
        BY <3>2
      <4> QED BY <4>1, <4>3, <4>4
    <3>4. DeliveredIntact'
      BY <2>3, <3>2 DEF PeerSends, Inv, DeliveredIntact
    <3> QED BY <3>2, <3>3, <3>4 DEF Inv
  <2>4. CASE Lose
    BY <2>4 DEF Lose, Inv, DeliveredIntact
  <2>5. CASE UNCHANGED vars
    BY <2>5 DEF vars, Inv, DeliveredIntact
  <2> QED BY <2>1, <2>2, <2>3, <2>4, <2>5 DEF Next
<1>3. Inv => DeliveredIntact
  BY DEF Inv
<1> QED BY <1>1, <1>2, <1>3, PTL DEF Spec
-----------------------------------------------------------------------------
\* Every outcome of recv_from is marked as one.
LEMMA ReceivedIsRecv ==
    ASSUME NEW n, NEW d, NEW b
    PROVE  Received(n, d, b).call = "recv"
BY DEF Received, Failed

\* The header of a writable address has the length the documentation of
\* send_to gives, fits its array, and its length byte is not narrowed.
LEMMA HeaderOfSent ==
    ASSUME NEW t \in Targets, Writable(t)
    PROVE  /\ HeaderLen(t) = CASE t.kind = "V4" -> 10
                               [] t.kind = "V6" -> 22
                               [] t.kind = "Domain" -> 7 + t.len
           /\ HeaderLen(t) <= HEADER
           /\ t.len % 256 = t.len /\ t.len \in Byte
<1>1. t.len \in Nat /\ t.len <= 255
  <2>1. CASE t \in [kind : {"V4", "V6"}, len : {0}]
    BY <2>1
  <2>2. CASE t \in [kind : {"Domain"}, len : DomainLens]
    BY <2>2, DomainLensAssumption DEF Writable
  <2> QED BY <2>1, <2>2 DEF Targets
<1>2. t.len % 256 = t.len /\ t.len \in Byte
  BY <1>1 DEF Byte
<1>3. HeaderLen(t) \in Nat /\ HeaderLen(t) <= HEADER
  BY HeaderLenBound DEF HEADER, MAX_ADDR_LEN
<1>4. t.kind \in {"V4", "V6", "Domain"}
  BY DEF Targets
<1>5. HeaderLen(t) = CASE t.kind = "V4" -> 10
                       [] t.kind = "V6" -> 22
                       [] t.kind = "Domain" -> 7 + t.len
  BY <1>1, <1>4 DEF HeaderLen, AddrLen
<1> QED BY <1>2, <1>3, <1>5

HeaderInv == TypeOK /\ HeaderAsDocumented

\* One call of send_to, whatever it was before.
LEMMA SendToKeeps ==
    ASSUME HeaderInv, SendTo
    PROVE  HeaderInv'
<1>1. PICK t \in Targets, len \in PayloadLens :
         ret' = IF Writable(t) THEN Sent(t, len) ELSE Failed("send", "InvalidInput")
  BY DEF SendTo
<1>2. UNCHANGED <<peer, net>>
  BY DEF SendTo
<1>3. CASE ~Writable(t)
  <2>1. ret'.call = "send" /\ ret'.res = "InvalidInput"
    BY <1>1, <1>3 DEF Failed
  <2> QED BY <1>2, <2>1 DEF HeaderInv, TypeOK, HeaderAsDocumented
<1>4. CASE Writable(t)
  <2>1. /\ ret'.call = "send" /\ ret'.to = t /\ ret'.header = HeaderLen(t)
        /\ ret'.lenByte = t.len % 256
    BY <1>1, <1>4 DEF Sent
  <2>2. TypeOK'
    BY <1>2, <1>4, <2>1, HeaderOfSent DEF HeaderInv, TypeOK
  <2>3. HeaderAsDocumented'
    BY <1>4, <2>1, HeaderOfSent DEF HeaderAsDocumented
  <2> QED BY <2>2, <2>3 DEF HeaderInv
<1> QED BY <1>3, <1>4

LEMMA HeaderInvariant == Spec => []HeaderInv
<1>1. Init => HeaderInv
  <2> SUFFICES ASSUME Init PROVE HeaderInv
    OBVIOUS
  <2>1. ret.call = "none" /\ peer = <<>> /\ net = {}
    BY DEF Init, Nothing
  <2> QED BY <2>1 DEF HeaderInv, TypeOK, HeaderAsDocumented
<1>2. HeaderInv /\ [Next]_vars => HeaderInv'
  <2> SUFFICES ASSUME HeaderInv, [Next]_vars PROVE HeaderInv'
    OBVIOUS
  <2>1. CASE SendTo
    BY <2>1, SendToKeeps
  <2>2. CASE RecvFrom
    <3>1. PICK n \in net, b \in BufLens : ret' = Received(n, peer[n], b) /\ net' \in {net, net \ {n}}
      BY <2>2 DEF RecvFrom
    <3>2. ret'.call = "recv" /\ peer' = peer
      BY <2>2, <3>1, ReceivedIsRecv DEF RecvFrom
    <3> QED BY <3>1, <3>2 DEF HeaderInv, TypeOK, HeaderAsDocumented
  <2>3. CASE PeerSends
    <3>1. PICK d \in Datagrams : peer' = Append(peer, d)
      BY <2>3 DEF PeerSends
    <3>2. /\ peer \in Seq(Datagrams) /\ Len(peer) \in Nat /\ net \subseteq 1..Len(peer)
          /\ net' = net \cup {Len(peer) + 1} /\ ret' = ret
      BY <2>3 DEF PeerSends, HeaderInv, TypeOK
    <3>3. peer' \in Seq(Datagrams) /\ Len(peer') = Len(peer) + 1
      BY <3>1, <3>2
    <3>4. net' \subseteq 1..Len(peer')
      <4> SUFFICES ASSUME NEW m \in net' PROVE m \in 1..Len(peer')
        OBVIOUS
      <4>1. m \in 1..Len(peer) \/ m = Len(peer) + 1
        BY <3>2
      <4>2. Len(peer') = Len(peer) + 1 /\ Len(peer) \in Nat
        BY <3>2, <3>3
      <4> QED BY <4>1, <4>2
    <3> QED BY <3>2, <3>3, <3>4 DEF HeaderInv, TypeOK, HeaderAsDocumented
  <2>4. CASE Lose
    BY <2>4 DEF Lose, HeaderInv, TypeOK, HeaderAsDocumented
  <2>5. CASE UNCHANGED vars
    BY <2>5 DEF vars, HeaderInv, TypeOK, HeaderAsDocumented
  <2> QED BY <2>1, <2>2, <2>3, <2>4, <2>5 DEF Next
<1> QED BY <1>1, <1>2, PTL DEF Spec

\* Every variable has its type; the datagrams on their way were sent.
THEOREM TypeCorrect == Spec => []TypeOK
<1>1. HeaderInv => TypeOK
  BY DEF HeaderInv
<1> QED BY <1>1, HeaderInvariant, PTL

\* send_to inserts a header of the documented length, within its array of
\* MAX_ADDR_LEN + 3 bytes and with an exact length byte, for every address it
\* does not refuse.
THEOREM HeaderIsDocumented == Spec => []HeaderAsDocumented
<1>1. HeaderInv => HeaderAsDocumented
  BY DEF HeaderInv
<1> QED BY <1>1, HeaderInvariant, PTL
=============================================================================
