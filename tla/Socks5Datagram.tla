--------------------------- MODULE Socks5Datagram ---------------------------
(***************************************************************************)
(* Socks5Datagram::send_to and recv_from of                                *)
(* tache/src/protocol/socks/v5.rs, over a network that loses, duplicates   *)
(* and reorders datagrams.                                                 *)
(*                                                                         *)
(* A datagram is a header of known length and a payload.  recv_from reads  *)
(* it with one readv into a local array (HEADER bytes) and the caller's    *)
(* buffer, parses the header, and then shifts what is payload to the front *)
(* of the caller's buffer.                                                 *)
(***************************************************************************)
EXTENDS Socks5Addr, Sequences

CONSTANTS
    PayloadLens,  \* lengths of payloads
    BufLens,      \* lengths of the caller's buffer
    MaxIds        \* bound: datagrams the far end sends

ASSUME PayloadAssumption == PayloadLens \subseteq Nat /\ BufLens \subseteq Nat
ASSUME MaxIdsAssumption == MaxIds \in Nat

VARIABLES
    peer,   \* datagrams the far end has sent, in order
    net,    \* numbers of the datagrams on their way to the client
    ret     \* what the last send_to sent, or the last recv_from returned

vars == <<peer, net, ret>>
-----------------------------------------------------------------------------
Faults == {"none", "reserved", "fragment", "addrtype", "utf8", "short"}

\* The kind of the error recv_from returns for a header it rejects.
ErrorOf(fault) == CASE fault \in {"reserved", "fragment", "utf8"} -> "InvalidData"
                    [] fault = "addrtype" -> "Other"
                    [] fault = "short" -> "UnexpectedEof"

\* Datagrams with a good header, and with a bad one.
Datagrams == [from : {t \in Targets : Writable(t)}, len : PayloadLens, fault : {"none"}]
             \cup [from : {Unspecified}, len : {0}, fault : Faults \ {"none"}]

\* Byte p of datagram number n, and of the caller's buffer before the call.
HeaderByte == <<0, 0>>
StaleByte == <<0, 1>>
Payload(n, p) == <<n, p>>
Wire(n, d, p) == IF p <= HeaderLen(d.from) THEN HeaderByte
                 ELSE Payload(n, p - HeaderLen(d.from))

Least(a, b) == IF a <= b THEN a ELSE b

\* The locals of recv_from for datagram d and a buffer of b bytes: what readv
\* returns (it drops what fits neither array), how much of it went to the
\* buffer, and how much payload the header array holds.
ReadLen(d, b) == Least(HeaderLen(d.from) + d.len, HEADER + b)
Overflow(d, b) == IF ReadLen(d, b) > HEADER THEN ReadLen(d, b) - HEADER ELSE 0
Rest(d, b) == Least(HEADER, ReadLen(d, b)) - HeaderLen(d.from)

\* The buffer after readv, after ptr::copy, after copy_from_slice.
AfterRead(n, d, b) ==
    [i \in 1..b |-> IF i <= Overflow(d, b) THEN Wire(n, d, HEADER + i) ELSE StaleByte]
AfterMove(n, d, b) ==
    [i \in 1..b |-> IF Rest(d, b) < i /\ i <= Rest(d, b) + Overflow(d, b)
                    THEN AfterRead(n, d, b)[i - Rest(d, b)] ELSE AfterRead(n, d, b)[i]]

\* Mutant: copy_from_slice comes before ptr::copy.
AfterCopySwapped(n, d, b) ==
    LET copied == [i \in 1..b |-> IF i <= Rest(d, b) THEN Wire(n, d, HeaderLen(d.from) + i)
                                  ELSE AfterRead(n, d, b)[i]]
    IN  [i \in 1..b |-> IF Rest(d, b) < i /\ i <= Rest(d, b) + Overflow(d, b)
                        THEN copied[i - Rest(d, b)] ELSE copied[i]]

AfterCopy(n, d, b) ==
    [i \in 1..b |-> IF i <= Rest(d, b) THEN Wire(n, d, HeaderLen(d.from) + i)
                    ELSE AfterMove(n, d, b)[i]]

\* The payload does not fit the buffer: ptr::copy writes behind its end, or, if
\* it has nothing to move, the slice of copy_from_slice is out of range.
Fits(d, b) == Rest(d, b) + Overflow(d, b) <= b
Misfit(d, b) == IF Overflow(d, b) > 0 THEN "overrun" ELSE "panic"

\* What the two calls leave: send_to the datagram it wrote, recv_from the
\* length, the address and the caller's buffer.
Nothing == [call |-> "none", res |-> "none"]
Sent(t, len) == [call |-> "send", res |-> "ok", header |-> HeaderLen(t),
                 lenByte |-> t.len % 256, to |-> t, len |-> len]
Failed(call, kind) == [call |-> call, res |-> kind]
Received(n, d, b) ==
    IF d.fault # "none" THEN Failed("recv", ErrorOf(d.fault))
    ELSE IF ~Fits(d, b) THEN Failed("recv", Misfit(d, b))
    ELSE [call |-> "recv", res |-> "ok", n |-> n, len |-> Rest(d, b) + Overflow(d, b),
          from |-> d.from, data |-> AfterCopy(n, d, b)]
-----------------------------------------------------------------------------
Init == peer = <<>> /\ net = {} /\ ret = Nothing

\* Mutant: the length of the domain name is not checked and not narrowed.
SendToWide ==
    /\ \E t \in Targets, len \in PayloadLens : ret' = [Sent(t, len) EXCEPT !.lenByte = t.len]
    /\ UNCHANGED <<peer, net>>

\* send_to: write_addr, which may refuse, then header and payload in one
\* datagram.
SendTo ==
    /\ \E t \in Targets, len \in PayloadLens :
          ret' = IF Writable(t) THEN Sent(t, len) ELSE Failed("send", "InvalidInput")
    /\ UNCHANGED <<peer, net>>

\* recv_from; the network may deliver the same datagram again.
RecvFrom ==
    /\ \E n \in net, b \in BufLens :
          /\ ret' = Received(n, peer[n], b)
          /\ net' \in {net, net \ {n}}
    /\ UNCHANGED peer

\* Far end, proxy and network (external).
PeerSends ==
    /\ Len(peer) < MaxIds
    /\ \E d \in Datagrams : peer' = Append(peer, d)
    /\ net' = net \cup {Len(peer) + 1}
    /\ UNCHANGED ret

Lose ==
    /\ \E n \in net : net' = net \ {n}
    /\ UNCHANGED <<peer, ret>>

Next == SendTo \/ RecvFrom \/ PeerSends \/ Lose

Spec == Init /\ [][Next]_vars
-----------------------------------------------------------------------------
(***************************************************************************)
(* Properties.                                                             *)
(***************************************************************************)

\* Every variable has its type; what send_to puts on the wire as one byte is
\* one.
TypeOK ==
    /\ peer \in Seq(Datagrams)
    /\ net \subseteq 1..Len(peer)
    /\ ret.call \in {"none", "send", "recv"}
    /\ ret.call = "send" /\ ret.res = "ok" => ret.lenByte \in Byte /\ ret.to \in Targets

\* When recv_from returns Ok, it returns a payload some datagram carried, whole
\* and in order, with that datagram's length and address.
DeliveredIntact ==
    ret.call = "recv" /\ ret.res = "ok" =>
       /\ ret.n \in 1..Len(peer)
       /\ peer[ret.n].fault = "none"
       /\ ret.len = peer[ret.n].len /\ ret.from = peer[ret.n].from
       /\ \A i \in 1..ret.len : ret.data[i] = Payload(ret.n, i)

\* "10 bytes for an IPv4 address, 22 bytes for an IPv6 address, and 7 bytes plus
\* the length of the domain": the header send_to inserts, which fits its array,
\* and whose length byte is exact.
HeaderAsDocumented ==
    ret.call = "send" /\ ret.res = "ok" =>
       /\ ret.header = CASE ret.to.kind = "V4" -> 10
                         [] ret.to.kind = "V6" -> 22
                         [] ret.to.kind = "Domain" -> 7 + ret.to.len
       /\ ret.header <= HEADER /\ ret.lenByte = ret.to.len

\* "Like `UdpSocket::recv_from`": a datagram that is longer than the buffer is
\* cut, and the call returns.
RecvLikeUdp == ret.res \notin {"overrun", "panic"}
=============================================================================
