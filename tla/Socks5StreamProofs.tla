------------------------- MODULE Socks5StreamProofs -------------------------
(***************************************************************************)
(* What the caller of connect, bind and accept gets: only what the proxy   *)
(* granted, and a stream that implements Tunnel, for every capacity of the *)
(* BufReader and every amount of payload.                                  *)
(***************************************************************************)
EXTENDS Socks5ClientProofs

\* What the proxy has sent and the client has not parsed, in order.
Ahead == rbuf \o rx

\* The n-th reply, or what is left of it once its first three bytes are read,
\* and behind it all that the far end has sent.  A reply that reads as granted
\* to the end is one the proxy granted.
ReplyAhead(n) ==
    /\ Len(Ahead) = relayed + 2
    /\ Ahead[2].val = n
    /\ Ahead[1].ver = 5 /\ Ahead[1].val = 0 /\ Ahead[1].rsv = 0 /\ Ahead[2].form = "ok"
          => granted = n
    /\ \A i \in 1..relayed : Ahead[i + 2] = Data(i)

AddrAhead(n) ==
    /\ Len(Ahead) = relayed + 1
    /\ Ahead[1].val = n
    /\ Ahead[1].form = "ok" => granted = n
    /\ \A i \in 1..relayed : Ahead[i + 1] = Data(i)

\* While the client waits for the n-th reply: the proxy, at `waits', has not
\* sent it, or the reply is what comes next.
AtReply(n, waits) ==
    \/ Ahead = <<>> /\ granted = n - 1 /\ relayed = 0 /\ srv \in {waits, "closed"}
    \/ ReplyAhead(n) /\ srv # waits

\* Between the proxy's decision and the user's first read: where the proxy is
\* and what is in the two buffers, for every place the client can be at.
Buffers ==
    /\ Len(rbuf) <= BufCap
    /\ pc \notin Answering => rbuf = <<>>
    /\ pc \notin {"stream", "closed"} => got = <<>> /\ ~wrote
    /\ ~early /\ ~wrote => relayed = 0
    /\ pc \in {"start", "method", "auth"} => granted = 0 /\ relayed = 0
    /\ srv \in {"greeting", "auth", "request"} =>
          pc \in {"start", "method", "auth", "reply1", "failed"}

First ==
    /\ srv = "bound" => cmd = BIND
    /\ pc \in {"reply1", "addr1"} => srv # "greeting" /\ srv # "auth"
    /\ pc \in {"reply1", "addr1"} /\ cmd = BIND => relayed = 0 /\ srv # "relay"
    /\ pc = "reply1" => AtReply(1, "request")
    /\ pc = "addr1" => AddrAhead(1) /\ srv # "request"
    /\ pc \in {"udp", "assoc"} => proxyAddr = 1 /\ granted = 1 /\ srv # "bound"

Second ==
    /\ pc \in {"bound", "reply2", "addr2"} => cmd = BIND /\ proxyAddr = 1 /\ granted >= 1
    /\ pc \in {"bound", "reply2"} => AtReply(2, "bound")
    /\ pc = "addr2" => AddrAhead(2) /\ srv # "bound"
    /\ pc = "stream" => /\ srv # "bound" /\ proxyAddr = granted
                        /\ granted = IF cmd = BIND THEN 2 ELSE 1

StreamInv == Inv /\ Buffers /\ First /\ Second /\ OnlyPrefixLost

\* Two buffers, one after the other.
LEMMA AheadIs ==
    ASSUME TypeOK
    PROVE  /\ Ahead \in Seq(Units) /\ Len(Ahead) = Len(rbuf) + Len(rx)
           /\ \A i \in 1..Len(rbuf) : Ahead[i] = rbuf[i]
           /\ \A i \in 1..Len(rx) : Ahead[Len(rbuf) + i] = rx[i]
BY DEF Ahead, TypeOK

\* A call that fails has nothing more to say about its buffers.
LEMMA FailStream ==
    ASSUME StreamInv, Inv', NEW kind, Fail(kind), UNCHANGED <<call, user, proxy>>,
           pc \notin {"stream", "closed"}
    PROVE  StreamInv'
<1>1. /\ pc' = "failed" /\ rbuf' = <<>> /\ got' = <<>> /\ ~wrote'
      /\ UNCHANGED <<cmd, early, srv, granted, relayed>>
  BY DEF Fail, call, user, proxy, StreamInv, Buffers
<1>2. Buffers'
  BY <1>1, BoundsAssumption DEF StreamInv, Buffers, Answering
<1>3. First' /\ Second' /\ OnlyPrefixLost'
  BY <1>1 DEF StreamInv, First, Second, OnlyPrefixLost
<1> QED BY <1>2, <1>3 DEF StreamInv

\* The client goes on to wait for the first reply, with both buffers empty.
LEMMA RequestStream ==
    ASSUME StreamInv, Inv', SendRequest, UNCHANGED <<call, user, proxy>>,
           pc \in {"method", "auth"}, rx # <<>>, rx' = Tail(rx), Tail(rx) = <<>>,
           srv \notin {"greeting", "auth"}
    PROVE  StreamInv'
<1>1. CASE ~Writable(target)
  BY <1>1, FailStream DEF SendRequest
<1>2. CASE Writable(target)
  <2>1. /\ pc' = "reply1" /\ rbuf' = <<>> /\ rx' = <<>> /\ got' = <<>> /\ ~wrote'
        /\ UNCHANGED <<cmd, early, srv, granted, relayed>>
        /\ granted = 0 /\ relayed = 0
    BY <1>2 DEF SendRequest, Goto, call, user, proxy, StreamInv, Buffers, Answering
  <2>2. srv \in {"request", "closed"}
    BY DEF StreamInv, Inv, Handshake, TypeOK
  <2>3. Buffers'
    BY <2>1, BoundsAssumption DEF StreamInv, Buffers, Answering
  <2>4. AtReply(1, "request")'
    BY <2>1, <2>2 DEF AtReply, Ahead
  <2>5. First' /\ Second' /\ OnlyPrefixLost'
    BY <2>1, <2>2, <2>4 DEF First, Second, OnlyPrefixLost
  <2> QED BY <2>3, <2>5 DEF StreamInv
<1> QED BY <1>1, <1>2

\* Steps before the request: nothing is in the BufReader.
LEMMA GreetingStream ==
    ASSUME StreamInv, Inv', Connect \/ ReadMethod \/ ReadAuth
    PROVE  StreamInv'
<1>1. ASSUME pc \in {"start", "method"}, pc' \in {"method", "auth"}, rbuf' = rbuf,
             UNCHANGED <<call, user, proxy>>
      PROVE  StreamInv'
  <2>1. Buffers'
    BY <1>1, BoundsAssumption DEF StreamInv, Buffers, Answering, call, user, proxy
  <2>2. First' /\ Second' /\ OnlyPrefixLost'
    BY <1>1 DEF StreamInv, First, Second, OnlyPrefixLost, call, user, proxy
  <2> QED BY <2>1, <2>2 DEF StreamInv
<1>2. CASE Connect
  BY <1>1, <1>2 DEF Connect, Goto
<1>3. CASE ReadMethod
  <2> DEFINE m == Head(rx)
  <2>1. /\ pc = "method" /\ rx # <<>> /\ rx' = Tail(rx) /\ UNCHANGED <<call, user, proxy>>
        /\ Tail(rx) = <<>> /\ m.val = chosen /\ srv # "greeting"
    BY <1>3 DEF ReadMethod, StreamInv, Inv, Handshake
  <2>2. CASE Fail("InvalidData") \/ Fail("Other")
    BY <2>1, <2>2, FailStream
  <2>3. CASE m.val = 0 /\ SendRequest
    <3>1. srv # "auth"
      BY <2>1, <2>3 DEF StreamInv, Inv, Handshake
    <3> QED BY <2>1, <2>3, <3>1, RequestStream
  <2>4. CASE SendPassword
    <3>1. CASE Fail("InvalidInput")
      BY <2>1, <3>1, FailStream
    <3>2. CASE Goto("auth")
      BY <1>1, <2>1, <3>2 DEF Goto
    <3> QED BY <2>4, <3>1, <3>2 DEF SendPassword
  <2> QED BY <1>3, <2>2, <2>3, <2>4 DEF ReadMethod
<1>4. CASE ReadAuth
  <2>1. /\ pc = "auth" /\ rx # <<>> /\ rx' = Tail(rx) /\ UNCHANGED <<call, user, proxy>>
        /\ Tail(rx) = <<>> /\ srv \notin {"greeting", "auth"}
    BY <1>4 DEF ReadAuth, StreamInv, Inv, Handshake
  <2>2. CASE Fail("InvalidData") \/ Fail("PermissionDenied")
    BY <2>1, <2>2, FailStream
  <2>3. CASE SendRequest
    BY <2>1, <2>3, RequestStream
  <2> QED BY <1>4, <2>2, <2>3 DEF ReadAuth
<1> QED BY <1>2, <1>3, <1>4

\* The BufReader fills up: what is ahead of the client stays as it is.
LEMMA FillBufStream ==
    ASSUME StreamInv, Inv', FillBuf
    PROVE  StreamInv'
<1>1. PICK n \in 1..BufCap : /\ n <= Len(rx)
                             /\ rbuf' = SubSeq(rx, 1, n)
                             /\ rx' = SubSeq(rx, n + 1, Len(rx))
  BY DEF FillBuf
<1>2. /\ rbuf = <<>> /\ pc \in Answering
      /\ UNCHANGED <<cmd, early, pc, proxyAddr, wrote, got, srv, granted, relayed>>
  BY DEF FillBuf, call, user, proxy
<1>3. rx \in Seq(Units) /\ n \in Nat
  BY BoundsAssumption DEF StreamInv, Inv, TypeOK
<1>4. Len(rbuf') = n /\ Len(rbuf') <= BufCap
  BY <1>1, <1>3, BoundsAssumption
<1>5. Ahead' = Ahead
  <2>1. SubSeq(rx, 1, n) \o SubSeq(rx, n + 1, Len(rx)) = rx
    BY <1>1, <1>3
  <2>2. <<>> \o rx = rx
    BY <1>3
  <2> QED BY <1>1, <1>2, <2>1, <2>2 DEF Ahead
<1>6. Buffers'
  BY <1>2, <1>4 DEF StreamInv, Buffers
<1>7. \A n0, waits : /\ ReplyAhead(n0)' = ReplyAhead(n0)
                     /\ AddrAhead(n0)' = AddrAhead(n0)
                     /\ AtReply(n0, waits)' = AtReply(n0, waits)
  BY <1>2, <1>5 DEF ReplyAhead, AddrAhead, AtReply
<1>8. First' /\ Second'
  BY <1>2, <1>7 DEF StreamInv, First, Second
<1>9. OnlyPrefixLost'
  BY <1>2 DEF OnlyPrefixLost, Answering
<1> QED BY <1>6, <1>8, <1>9 DEF StreamInv

\* VER, REP and RSV are taken from the front.
LEMMA ReplyTaken ==
    ASSUME TypeOK, TypeOK', NEW n, ReplyAhead(n), rbuf # <<>>, rbuf' = Tail(rbuf), rx' = rx,
           Head(rbuf).ver = 5, Head(rbuf).val = 0, Head(rbuf).rsv = 0,
           UNCHANGED <<granted, relayed>>
    PROVE  AddrAhead(n)'
<1>1. /\ rbuf \in Seq(Units) /\ rx \in Seq(Units) /\ relayed \in Nat
      /\ Len(rbuf') = Len(rbuf) - 1 /\ Len(rbuf) \in Nat /\ Len(rbuf) >= 1 /\ Len(rx) \in Nat
  BY BoundsAssumption DEF TypeOK
<1>2. \A i \in 1..(Len(Ahead) - 1) : Ahead'[i] = Ahead[i + 1]
  BY <1>1 DEF Ahead
<1>3. Len(Ahead') = Len(Ahead) - 1
  BY <1>1 DEF Ahead
<1>4. Ahead[1] = Head(rbuf)
  BY <1>1 DEF Ahead
<1>5. Len(Ahead) = relayed + 2
  BY DEF ReplyAhead
<1>6. Ahead'[1] = Ahead[2] /\ \A i \in 1..relayed : Ahead'[i + 1] = Ahead[i + 2]
  BY <1>1, <1>2, <1>5
<1>7. Len(Ahead') = relayed' + 1
  BY <1>1, <1>3, <1>5
<1>8. Ahead'[1].val = n /\ (Ahead'[1].form = "ok" => granted' = n)
  BY <1>4, <1>6 DEF ReplyAhead
<1>9. \A i \in 1..relayed' : Ahead'[i + 1] = Data(i)
  BY <1>6 DEF ReplyAhead
<1> QED BY <1>7, <1>8, <1>9 DEF AddrAhead

LEMMA ReadReplyStream ==
    ASSUME StreamInv, Inv', ReadReply("reply1", "addr1") \/ ReadReply("reply2", "addr2")
    PROVE  StreamInv'
<1>1. /\ pc \in {"reply1", "reply2"} /\ rbuf # <<>> /\ rx' = rx
      /\ UNCHANGED <<call, user, proxy>>
  BY DEF ReadReply
<1>2. CASE Fail("InvalidData") \/ Fail("Other")
  BY <1>1, <1>2, FailStream
<1>3. CASE /\ pc' = IF pc = "reply1" THEN "addr1" ELSE "addr2"
           /\ rbuf' = Tail(rbuf) /\ UNCHANGED proxyAddr
           /\ Head(rbuf).ver = 5 /\ Head(rbuf).val = 0 /\ Head(rbuf).rsv = 0
  <2>1. /\ UNCHANGED <<cmd, early, wrote, got, srv, granted, relayed>>
    BY <1>1 DEF call, user, proxy
  <2>2. Ahead # <<>>
    BY <1>1 DEF Ahead, StreamInv, Inv, TypeOK
  <2>3. Len(rbuf') <= BufCap
    BY <1>1, <1>3, BoundsAssumption DEF StreamInv, Inv, Buffers, TypeOK
  <2>4. pc' \in Answering
    BY <1>3 DEF Answering
  <2>5. CASE pc = "reply1"
    <3>1. ReplyAhead(1) /\ srv # "request"
      BY <2>2, <2>5 DEF StreamInv, First, AtReply
    <3>2. AddrAhead(1)'
      BY <1>1, <1>3, <2>1, <3>1, ReplyTaken DEF StreamInv, Inv
    <3>3. Buffers'
      BY <1>3, <2>1, <2>3, <2>4, <2>5, <3>1 DEF StreamInv, Buffers, First
    <3>4. First' /\ Second' /\ OnlyPrefixLost'
      BY <1>3, <2>1, <2>5, <3>1, <3>2 DEF StreamInv, First, Second, OnlyPrefixLost
    <3> QED BY <3>3, <3>4 DEF StreamInv
  <2>6. CASE pc = "reply2"
    <3>1. ReplyAhead(2) /\ srv # "bound" /\ cmd = BIND
      BY <2>2, <2>6 DEF StreamInv, Second, AtReply
    <3>2. AddrAhead(2)'
      BY <1>1, <1>3, <2>1, <3>1, ReplyTaken DEF StreamInv, Inv
    <3>3. Buffers'
      BY <1>3, <2>1, <2>3, <2>4, <2>6, <3>1 DEF StreamInv, Buffers
    <3>4. First' /\ Second' /\ OnlyPrefixLost'
      BY <1>3, <2>1, <2>6, <3>1, <3>2 DEF StreamInv, First, Second, OnlyPrefixLost
    <3> QED BY <3>3, <3>4 DEF StreamInv
  <2> QED BY <1>1, <2>5, <2>6
<1> QED BY <1>2, <1>3 DEF ReadReply

\* The BufReader is dropped.  What the stream starts with is what the far end
\* sent, without the part that was in the buffer behind the address.
LEMMA AddrTaken ==
    ASSUME TypeOK, NEW n, AddrAhead(n), Buffers, rbuf # <<>>, rx' = rx,
           got = <<>>, ~wrote, UNCHANGED <<early, got, relayed>>
    PROVE  OnlyPrefixLost'
<1>1. /\ rbuf \in Seq(Units) /\ rx \in Seq(Units) /\ relayed \in Nat
      /\ Len(rbuf) \in Nat /\ Len(rbuf) >= 1 /\ Len(rx) \in Nat /\ Len(rbuf) <= BufCap
  BY BoundsAssumption DEF TypeOK, Buffers
<1>2. got' \o rx' = rx
  BY <1>1
<1>3. Len(rbuf) + Len(rx) = relayed + 1
  BY <1>1, AheadIs DEF AddrAhead
<1> DEFINE lost == relayed' - Len(got' \o rx')
<1>4. lost = Len(rbuf) - 1
  BY <1>1, <1>2, <1>3
<1>5. ~early => relayed = 0
  BY DEF Buffers
<1>6. lost \in 0..(IF early' THEN BufCap - 1 ELSE 0)
  BY <1>1, <1>3, <1>4, <1>5, BoundsAssumption
<1>7. ASSUME NEW i \in 1..Len(rx)
      PROVE  rx[i] = Data(lost + i)
  <2>1. Ahead[Len(rbuf) + i] = rx[i]
    BY AheadIs
  <2>2. lost + i \in 1..relayed /\ Len(rbuf) + i = (lost + i) + 1
    BY <1>1, <1>3, <1>4
  <2>3. Ahead[(lost + i) + 1] = Data(lost + i)
    BY <2>2 DEF AddrAhead
  <2> QED BY <2>1, <2>2, <2>3
<1>8. \A i \in 1..Len(got' \o rx') : (got' \o rx')[i] = Data(lost + i)
  BY <1>2, <1>7
<1> HIDE DEF lost
<1>9. /\ lost = relayed' - Len(got' \o rx')
  BY DEF lost
<1> QED BY <1>6, <1>8, <1>9 DEF OnlyPrefixLost

LEMMA ReadAddrStream ==
    ASSUME StreamInv, Inv', ReadAddr("addr1", AfterConnect) \/ ReadAddr("addr2", "stream")
    PROVE  StreamInv'
<1>1. /\ pc \in {"addr1", "addr2"} /\ rbuf # <<>> /\ rx' = rx
      /\ UNCHANGED <<call, user, proxy>>
  BY DEF ReadAddr
<1>2. CASE Fail("InvalidData") \/ Fail("Other")
  BY <1>1, <1>2, FailStream
<1>3. CASE /\ pc' = IF pc = "addr1" THEN AfterConnect ELSE "stream"
           /\ rbuf' = <<>> /\ proxyAddr' = Head(rbuf).val /\ Head(rbuf).form = "ok"
  <2>1. /\ UNCHANGED <<cmd, early, wrote, got, srv, granted, relayed>>
        /\ got = <<>> /\ ~wrote
    BY <1>1 DEF call, user, proxy, StreamInv, Buffers
  <2>2. Ahead[1] = Head(rbuf) /\ Len(Ahead) = Len(rbuf) + Len(rx)
        /\ Len(rbuf) \in Nat /\ Len(rbuf) >= 1 /\ Len(rx) \in Nat
    BY <1>1, AheadIs, SMTT(30) DEF StreamInv, Inv, TypeOK
  <2>3. pc' \in {"stream", "bound", "udp"}
    BY <1>3, CommandsAssumption DEF AfterConnect, StreamInv, Inv, TypeOK
  <2>4. CASE pc = "addr1"
    <3>1. AddrAhead(1) /\ srv \notin {"greeting", "auth", "request"}
      BY <2>4 DEF StreamInv, First
    <3>2. proxyAddr' = 1 /\ granted = 1
      BY <1>3, <2>2, <3>1 DEF AddrAhead
    <3>3. Buffers'
      BY <1>3, <2>1, <2>3, <3>1, BoundsAssumption DEF StreamInv, Buffers
    <3>4. OnlyPrefixLost'
      BY <1>1, <2>1, <3>1, AddrTaken DEF StreamInv, Inv
    <3>5. CASE cmd = BIND
      <4>1. pc' = "bound" /\ relayed = 0 /\ srv \in {"bound", "closed"}
        <5>1. AfterConnect = "bound"
          BY <3>5 DEF AfterConnect, CONNECT, BIND, UDP_ASSOCIATE
        <5>2. relayed = 0 /\ srv # "relay"
          BY <2>4, <3>5 DEF StreamInv, First
        <5> QED BY <1>3, <2>4, <3>1, <5>1, <5>2 DEF StreamInv, Inv, TypeOK
      <4>2. rx = <<>>
        <5>1. Len(rx) = 0
          <6>1. Len(Ahead) = 1
            BY <3>1, <4>1 DEF AddrAhead
          <6> QED BY <2>2, <6>1
        <5> QED BY <5>1 DEF StreamInv, Inv, TypeOK
      <4>3. Ahead' = <<>>
        BY <1>1, <1>3, <4>2 DEF Ahead
      <4>4. AtReply(2, "bound")'
        BY <2>1, <3>2, <4>1, <4>3 DEF AtReply
      <4> QED BY <2>1, <3>2, <3>3, <3>4, <3>5, <4>1, <4>4 DEF StreamInv, First, Second
    <3>6. CASE cmd # BIND
      <4>1. pc' \in {"stream", "udp"} /\ srv # "bound"
        BY <1>3, <2>3, <2>4, <3>6, CommandsAssumption
        DEF AfterConnect, StreamInv, First, Inv, TypeOK, CONNECT, BIND, UDP_ASSOCIATE
      <4> QED BY <2>1, <3>2, <3>3, <3>4, <3>6, <4>1 DEF StreamInv, First, Second
    <3> QED BY <3>5, <3>6
  <2>5. CASE pc = "addr2"
    <3>1. AddrAhead(2) /\ cmd = BIND /\ srv # "bound" /\ pc' = "stream"
      BY <1>3, <2>5 DEF StreamInv, Second
    <3>2. proxyAddr' = 2 /\ granted = 2
      BY <1>3, <2>2, <3>1 DEF AddrAhead
    <3>3. Buffers'
      BY <1>3, <2>1, <2>5, <3>1, BoundsAssumption DEF StreamInv, Buffers
    <3>4. OnlyPrefixLost'
      BY <1>1, <2>1, <3>1, AddrTaken DEF StreamInv, Inv
    <3> QED BY <2>1, <3>1, <3>2, <3>3, <3>4 DEF StreamInv, First, Second
  <2> QED BY <1>1, <2>4, <2>5
<1> QED BY <1>2, <1>3 DEF ReadAddr

\* Steps of the client after the replies, and of the user of its stream.
LEMMA UserStream ==
    ASSUME StreamInv, Inv', BindUdp \/ Accept \/ UserWrite \/ UserRead \/ UserDrop
    PROVE  StreamInv'
<1>1. UNCHANGED <<cmd, early, rbuf, proxyAddr, srv, granted, relayed>>
  BY DEF BindUdp, Accept, UserWrite, UserRead, UserDrop, Goto, call, user, proxy
<1>2. CASE BindUdp
  <2>1. pc = "udp" /\ pc' = "assoc" /\ UNCHANGED <<rx, wrote, got>>
    BY <1>2 DEF BindUdp, Goto, user
  <2> QED BY <1>1, <2>1 DEF StreamInv, Buffers, First, Second, OnlyPrefixLost, Answering
<1>3. CASE Accept
  <2>1. pc = "bound" /\ pc' = "reply2" /\ UNCHANGED <<rx, wrote, got>>
    BY <1>3 DEF Accept, Goto, user
  <2>2. AtReply(2, "bound")'
    BY <1>1, <2>1 DEF StreamInv, Second, AtReply, ReplyAhead, Ahead
  <2>3. Buffers' /\ First'
    BY <1>1, <2>1 DEF StreamInv, Buffers, First, Answering
  <2> QED BY <1>1, <2>1, <2>2, <2>3 DEF StreamInv, Second, OnlyPrefixLost
<1>4. CASE UserWrite
  <2>1. pc = "stream" /\ pc' = "stream" /\ wrote' /\ UNCHANGED <<rx, got>>
    BY <1>4 DEF UserWrite
  <2>2. Buffers' /\ First' /\ Second'
    BY <1>1, <2>1 DEF StreamInv, Buffers, First, Second, Answering
  <2>3. OnlyPrefixLost'
    BY <1>1, <2>1 DEF StreamInv, OnlyPrefixLost
  <2> QED BY <2>2, <2>3 DEF StreamInv
<1>5. CASE UserRead
  <2>1. /\ pc = "stream" /\ pc' = "stream" /\ wrote' = wrote /\ rx # <<>>
        /\ got' = Append(got, Head(rx)) /\ rx' = Tail(rx)
    BY <1>5 DEF UserRead
  <2>2. Buffers' /\ First' /\ Second'
    BY <1>1, <2>1 DEF StreamInv, Buffers, First, Second, Answering
  <2>3. got' \o rx' = got \o rx
    <3>1. rx \in Seq(Units) /\ got \in Seq(Units)
      BY DEF StreamInv, Inv, TypeOK
    <3>2. Append(got, Head(rx)) \o Tail(rx) = got \o rx
      BY <2>1, <3>1
    <3> QED BY <2>1, <3>2
  <2>4. OnlyPrefixLost'
    BY <1>1, <2>1, <2>3 DEF StreamInv, OnlyPrefixLost
  <2> QED BY <2>2, <2>4 DEF StreamInv
<1>6. CASE UserDrop
  <2>1. pc \in {"stream", "bound", "assoc"} /\ pc' = "closed" /\ UNCHANGED <<wrote, got>>
    BY <1>6 DEF UserDrop, Goto, user
  <2> QED BY <1>1, <2>1 DEF StreamInv, Buffers, First, Second, OnlyPrefixLost, Answering
<1> QED BY <1>2, <1>3, <1>4, <1>5, <1>6

\* The proxy's answers in the handshake reach a client that has not asked for
\* anything yet, or has given up.
LEMMA HandshakeStream ==
    ASSUME StreamInv, Inv', SelectMethod \/ CheckPassword
    PROVE  StreamInv'
<1>1. /\ UNCHANGED <<cmd, early, pc, rbuf, proxyAddr, wrote, got, granted, relayed>>
      /\ srv \in {"greeting", "auth"} /\ srv' \in {"auth", "request", "closed"}
  BY DEF SelectMethod, CheckPassword, ClientVars, call, user
<1>2. pc \in {"start", "method", "auth", "failed"}
  BY <1>1 DEF StreamInv, Buffers, First
<1>3. Buffers'
  BY <1>1, <1>2 DEF StreamInv, Buffers
<1>4. First' /\ Second' /\ OnlyPrefixLost'
  BY <1>1, <1>2 DEF First, Second, OnlyPrefixLost
<1> QED BY <1>3, <1>4 DEF StreamInv

\* A reply goes to a client with nothing ahead of it.
LEMMA ReplySent ==
    ASSUME StreamInv, NEW n \in {1, 2}, NEW next, SendReply(n, next), Ahead = <<>>, relayed = 0,
           rbuf' = rbuf
    PROVE  ReplyAhead(n)'
<1>1. PICK v \in Versions, r \in Statuses, z \in Statuses, f \in Forms :
         /\ rx' = rx \o <<Reply(v, r, z), Addr(f, n)>>
         /\ granted' = IF v = 5 /\ r = 0 /\ z = 0 /\ f = "ok" THEN n ELSE granted
  BY DEF SendReply
<1>2. rbuf = <<>> /\ rx = <<>>
  <2>1. Len(rbuf) + Len(rx) = 0
    BY AheadIs DEF StreamInv, Inv
  <2>2. rbuf \in Seq(Units) /\ rx \in Seq(Units)
    BY DEF StreamInv, Inv, TypeOK
  <2> QED BY <2>1, <2>2
<1>3. Ahead' = <<Reply(v, r, z), Addr(f, n)>>
  BY <1>1, <1>2 DEF Ahead
<1>4. Len(Ahead') = 2 /\ Ahead'[1] = Reply(v, r, z) /\ Ahead'[2] = Addr(f, n) /\ relayed' = 0
  BY <1>3 DEF SendReply
<1>5. Ahead'[2].val = n /\ Ahead'[2].form = f /\ Ahead'[1].ver = v /\ Ahead'[1].val = r
      /\ Ahead'[1].rsv = z
  BY <1>4 DEF Reply, Addr
<1> QED BY <1>1, <1>4, <1>5 DEF ReplyAhead

LEMMA GrantStream ==
    ASSUME StreamInv, Inv', Grant
    PROVE  StreamInv'
<1> DEFINE next == IF cmd = BIND THEN "bound" ELSE "relay"
<1>1. SendReply(1, next) /\ srv = "request" /\ Request \in sent
  BY DEF Grant
<1>2. /\ UNCHANGED <<cmd, early, pc, rbuf, proxyAddr, wrote, got, relayed>>
      /\ srv' \in {next, "closed"}
  BY <1>1 DEF SendReply, ClientVars, call, user
<1>3. pc \in {"reply1", "failed"}
  BY <1>1 DEF StreamInv, Inv, Handshake, Buffers
<1>4. Buffers'
  BY <1>2, <1>3 DEF StreamInv, Buffers
<1>5. CASE pc = "failed"
  BY <1>2, <1>4, <1>5 DEF StreamInv, First, Second, OnlyPrefixLost
<1>6. CASE pc = "reply1"
  <2>1. Ahead = <<>> /\ relayed = 0
    BY <1>1, <1>6 DEF StreamInv, First, AtReply
  <2>2. ReplyAhead(1)'
    BY <1>1, <1>2, <2>1, ReplySent
  <2>3. AtReply(1, "request")'
    BY <1>2, <2>2 DEF AtReply
  <2>4. First'
    BY <1>2, <1>6, <2>1, <2>3 DEF First
  <2> QED BY <1>2, <1>4, <1>6, <2>4 DEF StreamInv, Second, OnlyPrefixLost
<1> QED BY <1>3, <1>5, <1>6

LEMMA RemoteStream ==
    ASSUME StreamInv, Inv', RemoteConnects
    PROVE  StreamInv'
<1>1. SendReply(2, "relay") /\ srv = "bound" /\ pc \notin {"reply1", "addr1"}
  BY DEF RemoteConnects
<1>2. /\ UNCHANGED <<cmd, early, pc, rbuf, proxyAddr, wrote, got, relayed>>
      /\ srv' \in {"relay", "closed"} /\ granted' \in {2, granted}
  BY <1>1 DEF SendReply, ClientVars, call, user
<1>3. pc \in {"bound", "reply2", "failed", "closed"}
  BY <1>1 DEF StreamInv, Inv, TypeOK, Handshake, First, Second, Waiting, Answering, Returned
<1>4. Buffers'
  BY <1>2, <1>3 DEF StreamInv, Buffers
<1>5. CASE pc \in {"failed", "closed"}
  BY <1>2, <1>4, <1>5 DEF StreamInv, First, Second, OnlyPrefixLost
<1>6. CASE pc \in {"bound", "reply2"}
  <2>1. Ahead = <<>> /\ relayed = 0
    BY <1>1, <1>6 DEF StreamInv, Second, AtReply
  <2>2. ReplyAhead(2)'
    BY <1>1, <1>2, <2>1, ReplySent
  <2>3. AtReply(2, "bound")'
    BY <1>2, <2>2 DEF AtReply
  <2>4. Second'
    BY <1>2, <1>6, <2>3 DEF StreamInv, Second
  <2> QED BY <1>2, <1>4, <1>6, <2>4 DEF StreamInv, First, OnlyPrefixLost
<1> QED BY <1>3, <1>5, <1>6

\* A chunk of payload goes to the end of what is ahead.
LEMMA ChunkSent ==
    ASSUME TypeOK, rbuf' = rbuf, rx' = Append(rx, Data(relayed + 1)), relayed' = relayed + 1,
           granted' = granted
    PROVE  /\ \A n : ReplyAhead(n) => ReplyAhead(n)'
           /\ \A n : AddrAhead(n) => AddrAhead(n)'
<1>1. /\ rbuf \in Seq(Units) /\ rx \in Seq(Units) /\ relayed \in Nat
      /\ Len(rbuf) \in Nat /\ Len(rx) \in Nat
  BY BoundsAssumption DEF TypeOK
<1>2. /\ Len(Ahead') = Len(Ahead) + 1
      /\ \A i \in 1..Len(Ahead) : Ahead'[i] = Ahead[i]
      /\ Ahead'[Len(Ahead) + 1] = Data(relayed + 1)
      /\ Len(Ahead) \in Nat
  BY <1>1 DEF Ahead
<1>3. ASSUME NEW n, ReplyAhead(n)
      PROVE  ReplyAhead(n)'
  <2>1. Len(Ahead) = relayed + 2
    BY <1>3 DEF ReplyAhead
  <2>2. Ahead'[1] = Ahead[1] /\ Ahead'[2] = Ahead[2] /\ Len(Ahead') = relayed' + 2
    BY <1>1, <1>2, <2>1
  <2>3. \A i \in 1..relayed' : Ahead'[i + 2] = Data(i)
    <3> SUFFICES ASSUME NEW i \in 1..relayed' PROVE Ahead'[i + 2] = Data(i)
      OBVIOUS
    <3>1. CASE i = relayed + 1
      BY <1>1, <1>2, <2>1, <3>1
    <3>2. CASE i # relayed + 1
      <4>1. i \in 1..relayed /\ i + 2 \in 1..Len(Ahead)
        BY <1>1, <2>1, <3>2
      <4> QED BY <1>2, <1>3, <4>1 DEF ReplyAhead
    <3> QED BY <3>1, <3>2
  <2> QED BY <1>3, <2>2, <2>3 DEF ReplyAhead
<1>4. ASSUME NEW n, AddrAhead(n)
      PROVE  AddrAhead(n)'
  <2>1. Len(Ahead) = relayed + 1
    BY <1>4 DEF AddrAhead
  <2>2. Ahead'[1] = Ahead[1] /\ Len(Ahead') = relayed' + 1
    BY <1>1, <1>2, <2>1
  <2>3. \A i \in 1..relayed' : Ahead'[i + 1] = Data(i)
    <3> SUFFICES ASSUME NEW i \in 1..relayed' PROVE Ahead'[i + 1] = Data(i)
      OBVIOUS
    <3>1. CASE i = relayed + 1
      BY <1>1, <1>2, <2>1, <3>1
    <3>2. CASE i # relayed + 1
      <4>1. i \in 1..relayed /\ i + 1 \in 1..Len(Ahead)
        BY <1>1, <2>1, <3>2
      <4> QED BY <1>2, <1>4, <4>1 DEF AddrAhead
    <3> QED BY <3>1, <3>2
  <2> QED BY <1>4, <2>2, <2>3 DEF AddrAhead
<1> QED BY <1>3, <1>4

LEMMA PeerStream ==
    ASSUME StreamInv, Inv', PeerSends
    PROVE  StreamInv'
<1>1. /\ UNCHANGED <<cmd, early, pc, rbuf, proxyAddr, wrote, got, srv, granted>>
      /\ srv = "relay" /\ (early \/ wrote)
      /\ relayed' = relayed + 1 /\ rx' = Append(rx, Data(relayed + 1))
  BY DEF PeerSends, ClientVars, call, user
<1>2. pc \notin {"start", "method", "auth"}
  BY <1>1 DEF StreamInv, Inv, Handshake
<1>3. Buffers'
  BY <1>1, <1>2 DEF StreamInv, Buffers
<1>4. /\ \A n : ReplyAhead(n) => ReplyAhead(n)'
      /\ \A n : AddrAhead(n) => AddrAhead(n)'
  BY <1>1, ChunkSent DEF StreamInv, Inv
<1>5. First'
  <2>1. pc = "reply1" => AtReply(1, "request")'
    BY <1>1, <1>4 DEF StreamInv, First, AtReply
  <2> QED BY <1>1, <1>4, <2>1 DEF StreamInv, First
<1>6. Second'
  <2>1. pc \in {"bound", "reply2"} => AtReply(2, "bound")'
    BY <1>1, <1>4 DEF StreamInv, Second, AtReply
  <2> QED BY <1>1, <1>4, <2>1 DEF StreamInv, Second
<1>7. OnlyPrefixLost'
  <2> SUFFICES ASSUME pc = "stream" PROVE OnlyPrefixLost'
    BY <1>1 DEF OnlyPrefixLost
  <2> DEFINE pending == got \o rx
             lost == relayed - Len(pending)
  <2>1. got \in Seq(Units) /\ rx \in Seq(Units) /\ relayed \in Nat
    BY BoundsAssumption DEF StreamInv, Inv, TypeOK
  <2>2. /\ lost \in 0..(IF early THEN BufCap - 1 ELSE 0)
        /\ \A i \in 1..Len(pending) : pending[i] = Data(lost + i)
    BY DEF StreamInv, OnlyPrefixLost
  <2>3. pending' = Append(pending, Data(relayed + 1)) /\ pending \in Seq(Units)
    BY <1>1, <2>1
  <2>4. /\ Len(pending') = Len(pending) + 1 /\ Len(pending) \in Nat
        /\ \A i \in 1..Len(pending) : pending'[i] = pending[i]
        /\ pending'[Len(pending) + 1] = Data(relayed + 1)
    <3> HIDE DEF pending
    <3> QED BY <2>3
  <2> HIDE DEF pending
  <2>5. lost' = lost /\ lost + (Len(pending) + 1) = relayed + 1 /\ lost \in Nat
    BY <1>1, <2>1, <2>2, <2>4, BoundsAssumption
  <2>6. \A i \in 1..Len(pending') : pending'[i] = Data(lost' + i)
    <3> SUFFICES ASSUME NEW i \in 1..Len(pending') PROVE pending'[i] = Data(lost + i)
      BY <2>5
    <3> HIDE DEF lost
    <3>1. CASE i = Len(pending) + 1
      BY <2>4, <2>5, <3>1
    <3>2. CASE i # Len(pending) + 1
      BY <2>2, <2>4, <3>2
    <3> QED BY <3>1, <3>2
  <2>7. lost' \in 0..(IF early' THEN BufCap - 1 ELSE 0)
    BY <1>1, <2>2, <2>5
  <2> QED BY <2>6, <2>7 DEF OnlyPrefixLost, pending
<1> QED BY <1>3, <1>5, <1>6, <1>7 DEF StreamInv

LEMMA CloseStream ==
    ASSUME StreamInv, Inv', ProxyCloses
    PROVE  StreamInv'
<1>1. /\ UNCHANGED <<cmd, early, pc, rbuf, rx, proxyAddr, wrote, got, granted, relayed>>
      /\ srv' = "closed"
  BY DEF ProxyCloses, ClientVars, call, user
<1>2. \A n, waits : /\ AddrAhead(n)' = AddrAhead(n)
                    /\ waits # "closed" /\ AtReply(n, waits) => AtReply(n, waits)'
  BY <1>1 DEF AtReply, ReplyAhead, AddrAhead, Ahead
<1>3. Buffers' /\ OnlyPrefixLost'
  BY <1>1 DEF StreamInv, Buffers, OnlyPrefixLost
<1>4. First' /\ Second'
  BY <1>1, <1>2 DEF StreamInv, First, Second
<1> QED BY <1>3, <1>4 DEF StreamInv

LEMMA StreamInvariant == Spec => []StreamInv
<1>1. Init => StreamInv
  <2> SUFFICES ASSUME Init PROVE StreamInv
    OBVIOUS
  <2>1. Inv
    BY InitTypes DEF Inv, Init, Handshake, Authorised
  <2>2. Buffers
    BY BoundsAssumption DEF Init, Buffers
  <2>3. First /\ Second /\ OnlyPrefixLost
    BY DEF Init, First, Second, OnlyPrefixLost
  <2> QED BY <2>1, <2>2, <2>3 DEF StreamInv
<1>2. StreamInv /\ [Next]_vars => StreamInv'
  <2> SUFFICES ASSUME StreamInv, [Next]_vars PROVE StreamInv'
    OBVIOUS
  <2>1. Inv'
    BY InvStep DEF StreamInv
  <2>2. CASE UnexpectedEof \/ IoError
    <3>1. \E kind : Fail(kind)
      BY <2>2 DEF UnexpectedEof, IoError
    <3>2. UNCHANGED <<call, user, proxy>> /\ pc \notin {"stream", "closed"}
      BY <2>2 DEF UnexpectedEof, IoError, Waiting, Answering
    <3> QED BY <2>1, <3>1, <3>2, FailStream
  <2>3. CASE UNCHANGED vars
    <3>1. UNCHANGED <<cmd, early, pc, rbuf, rx, proxyAddr, wrote, got, srv, granted, relayed>>
      BY <2>3 DEF vars, call, user, proxy
    <3>2. \A n, waits : /\ AddrAhead(n)' = AddrAhead(n)
                        /\ AtReply(n, waits)' = AtReply(n, waits)
      BY <3>1 DEF AtReply, ReplyAhead, AddrAhead, Ahead
    <3>3. Buffers' /\ OnlyPrefixLost'
      BY <3>1 DEF StreamInv, Buffers, OnlyPrefixLost
    <3>4. First' /\ Second'
      BY <3>1, <3>2 DEF StreamInv, First, Second
    <3> QED BY <2>1, <3>3, <3>4 DEF StreamInv
  <2>4. CASE Client \/ User
    BY <2>1, <2>2, <2>4, GreetingStream, FillBufStream, ReadReplyStream, ReadAddrStream, UserStream
    DEF Client, User, ReadFirst, ReadSecond
  <2> QED BY <2>1, <2>2, <2>3, <2>4, HandshakeStream, GrantStream, RemoteStream, PeerStream,
             CloseStream DEF Next, Proxy
<1> QED BY <1>1, <1>2, PTL DEF Spec

\* connect, bind and accept return Ok only for a reply the proxy granted, and
\* hand out the address of that reply and of no other.
THEOREM SuccessMeansGranted == Spec => []SuccessIsGranted
<1>1. StreamInv => SuccessIsGranted
  BY DEF StreamInv, First, Second, SuccessIsGranted
<1> QED BY <1>1, StreamInvariant, PTL

\* The stream delivers what the far end sent, in order and once, but for a
\* prefix that the BufReader of read_response took with it: shorter than the
\* buffer, and empty when the far end does not speak first.
THEOREM LossIsBounded == Spec => []OnlyPrefixLost
<1>1. StreamInv => OnlyPrefixLost
  BY DEF StreamInv
<1> QED BY <1>1, StreamInvariant, PTL

\* The loss is only ever the far end's haste: a stream to one that waits for
\* the client to write (HTTP, TLS) delivers everything, from the first byte.
THEOREM PatientPeerIntact == Spec => [](~early => StreamIntact)
<1>1. StreamInv => (~early => StreamIntact)
  <2> SUFFICES ASSUME StreamInv, ~early, pc = "stream", NEW i \in 1..Len(got)
               PROVE  got[i] = Data(i)
    BY DEF StreamIntact
  <2> DEFINE pending == got \o rx
  <2>1. got \in Seq(Units) /\ rx \in Seq(Units)
    BY DEF StreamInv, Inv, TypeOK
  <2>2. i \in 1..Len(pending) /\ pending[i] = got[i] /\ i \in Nat
    BY <2>1
  <2>3. relayed - Len(pending) = 0
    BY DEF StreamInv, OnlyPrefixLost
  <2>4. pending[i] = Data((relayed - Len(pending)) + i)
    BY <2>2 DEF StreamInv, OnlyPrefixLost
  <2> HIDE DEF pending
  <2> QED BY <2>2, <2>3, <2>4
<1> QED BY <1>1, StreamInvariant, PTL
-----------------------------------------------------------------------------
\* The state of the tunnel that a state of the client stands for.
TLost == IF pc = "stream" THEN relayed - Len(got \o rx) ELSE 0
TOut == [i \in 1..Len(got) |-> got[i].val]

\* Whatever happens before the stream is handed out, but for the far end's
\* sends, is invisible or closes the tunnel or opens it.
LEMMA IdleStep ==
    ASSUME StreamInv, StreamInv', UNCHANGED <<early, relayed, got>>,
           pc \notin {"stream", "closed", "failed"}
    PROVE  [T!Next]_<<Phase, early, relayed, TLost, TOut>>
<1>1. TOut' = TOut /\ Phase = "idle" /\ TLost = 0
  BY DEF TOut, Phase, TLost
<1>2. CASE pc' \notin {"stream", "closed", "failed"}
  BY <1>1, <1>2 DEF Phase, TLost
<1>3. CASE pc' \in {"closed", "failed"}
  <2>1. Phase' = "closed" /\ TLost' = 0
    BY <1>3 DEF Phase, TLost
  <2>2. T!Close
    BY <1>1, <2>1 DEF T!Close, TLost, TOut
  <2> QED BY <2>2 DEF T!Next
<1>4. CASE pc' = "stream"
  <2>1. Phase' = "open" /\ TLost' = relayed' - Len(got' \o rx')
    BY <1>4 DEF Phase, TLost
  <2>2. TLost' \in 0..(IF early' THEN BufCap - 1 ELSE 0)
    BY <1>4, <2>1 DEF StreamInv, OnlyPrefixLost
  <2>3. TLost' \in 0..(BufCap - 1)
    BY <2>2, BoundsAssumption
  <2>4. TLost' <= relayed
    BY <2>1, BoundsAssumption DEF StreamInv, Inv, TypeOK
  <2>5. T!Open
    BY <1>1, <2>1, <2>3, <2>4 DEF T!Open, TLost, TOut
  <2> QED BY <2>5 DEF T!Next
<1> QED BY <1>2, <1>3, <1>4

\* The far end sends: what opening lost does not change.
LEMMA SendStep ==
    ASSUME StreamInv, PeerSends
    PROVE  [T!Next]_<<Phase, early, relayed, TLost, TOut>>
<1>1. /\ UNCHANGED <<pc, early, got>> /\ (early \/ wrote)
      /\ relayed' = relayed + 1 /\ rx' = Append(rx, Data(relayed + 1))
  BY DEF PeerSends, ClientVars, call, user
<1>2. got \in Seq(Units) /\ rx \in Seq(Units) /\ relayed \in Nat
  BY BoundsAssumption DEF StreamInv, Inv, TypeOK
<1>3. Len(got \o rx) \in Nat /\ Len(got' \o rx') = Len(got \o rx) + 1
  BY <1>1, <1>2
<1>4. TLost' = TLost /\ Phase' = Phase /\ TOut' = TOut
  BY <1>1, <1>2, <1>3 DEF TLost, TOut, Phase
<1>5. early \/ Phase # "idle"
  BY <1>1 DEF StreamInv, Buffers, Phase
<1>6. T!FarSends
  BY <1>1, <1>4, <1>5 DEF T!FarSends, TLost, TOut
<1> QED BY <1>6 DEF T!Next

\* The user reads: the next chunk after what was lost and what was read.
LEMMA ReadStep ==
    ASSUME StreamInv, UserRead
    PROVE  [T!Next]_<<Phase, early, relayed, TLost, TOut>>
<1>1. /\ pc = "stream" /\ rx # <<>> /\ got' = Append(got, Head(rx)) /\ rx' = Tail(rx)
      /\ UNCHANGED <<pc, early, relayed>>
  BY DEF UserRead, call, proxy
<1>2. got \in Seq(Units) /\ rx \in Seq(Units) /\ relayed \in Nat
  BY BoundsAssumption DEF StreamInv, Inv, TypeOK
<1>3. /\ Len(got \o rx) = Len(got) + Len(rx) /\ Len(rx) \in Nat /\ Len(rx) >= 1
      /\ Len(got) \in Nat /\ Len(got' \o rx') = Len(got \o rx)
      /\ (got \o rx)[Len(got) + 1] = Head(rx)
  BY <1>1, <1>2
<1>4. /\ TLost = relayed - Len(got \o rx) /\ TLost' = TLost /\ Phase' = Phase /\ Phase = "open"
      /\ TLost \in Nat
  BY <1>1, <1>2, <1>3, BoundsAssumption DEF TLost, Phase, StreamInv, OnlyPrefixLost
<1>5. Head(rx) = Data(TLost + (Len(got) + 1))
  BY <1>1, <1>3, <1>4 DEF StreamInv, OnlyPrefixLost
<1>6. Head(rx).val = TLost + Len(got) + 1
  BY <1>3, <1>4, <1>5 DEF Data
<1>7. TOut \in Seq(Nat) /\ Len(TOut) = Len(got) /\ \A i \in 1..Len(got) : TOut[i] = got[i].val
  <2>1. \A i \in 1..Len(got) : got[i].val \in Nat
    BY <1>2, UnitVals
  <2> QED BY <1>3, <2>1 DEF TOut
<1>8. TOut' = Append(TOut, TLost + Len(TOut) + 1)
  <2>1. TOut' \in Seq(Nat)  /\ Len(TOut') = Len(got) + 1
        /\ \A i \in 1..(Len(got) + 1) : TOut'[i] = got'[i].val
    <3>1. got' \in Seq(Units) /\ Len(got') = Len(got) + 1
      BY <1>1, <1>2
    <3>2. \A i \in 1..Len(got') : got'[i].val \in Nat
      BY <3>1, UnitVals
    <3> QED BY <3>1, <3>2 DEF TOut
  <2>2. \A i \in 1..Len(got) : got'[i] = got[i]
    BY <1>1, <1>2
  <2>3. got'[Len(got) + 1] = Head(rx)
    BY <1>1, <1>2
  <2>4. \A i \in 1..Len(got) : TOut'[i] = TOut[i]
    <3> SUFFICES ASSUME NEW i \in 1..Len(got) PROVE TOut'[i] = TOut[i]
      OBVIOUS
    <3>1. i \in 1..(Len(got) + 1)
      BY <1>3
    <3> QED BY <1>7, <2>1, <2>2, <3>1
  <2>5. TOut'[Len(TOut) + 1] = TLost + Len(TOut) + 1
    BY <1>3, <1>6, <1>7, <2>1, <2>3
  <2> DEFINE more == Append(TOut, TLost + Len(TOut) + 1)
  <2>6. /\ more \in Seq(Nat) /\ Len(more) = Len(got) + 1
        /\ \A i \in 1..Len(got) : more[i] = TOut[i]
        /\ more[Len(got) + 1] = TLost + Len(TOut) + 1
    BY <1>3, <1>4, <1>7
  <2> HIDE DEF more
  <2>7. \A i \in 1..(Len(got) + 1) : TOut'[i] = more[i]
    <3> SUFFICES ASSUME NEW i \in 1..(Len(got) + 1) PROVE TOut'[i] = more[i]
      OBVIOUS
    <3>1. i \in 1..Len(got) \/ i = Len(got) + 1
      BY <1>3
    <3> QED BY <1>7, <2>4, <2>5, <2>6, <3>1
  <2>8. TOut' = more
    BY <2>1, <2>6, <2>7
  <2> QED BY <2>8 DEF more
<1>9. T!Deliver
  <2>1. TLost + Len(TOut) < relayed
    BY <1>2, <1>3, <1>4, <1>7, SMTT(30)
  <2> QED BY <1>1, <1>4, <1>8, <2>1 DEF T!Deliver, TLost, TOut
<1> QED BY <1>9 DEF T!Next

\* The remaining steps once the stream is there: only the user's drop shows.
LEMMA OpenStep ==
    ASSUME StreamInv, StreamInv', [Next]_vars, ~PeerSends, ~UserRead,
           pc \in {"stream", "closed", "failed"}
    PROVE  [T!Next]_<<Phase, early, relayed, TLost, TOut>>
<1>1. \/ UNCHANGED <<pc, early, relayed, got, rx>>
      \/ UNCHANGED <<pc, early, relayed, got>> /\ pc # "stream"
      \/ pc = "stream" /\ pc' = "closed" /\ UNCHANGED <<early, relayed, got>>
  <2>1. ~Client /\ ~IoError /\ ~Accept
    BY DEF Client, IoError, Accept, Connect, ReadMethod, ReadAuth, FillBuf, ReadFirst, ReadSecond,
           ReadReply, ReadAddr, BindUdp, UnexpectedEof, Waiting, Answering
  <2>2. CASE UserWrite \/ UserDrop
    BY <2>2 DEF UserWrite, UserDrop, Goto, call, user, proxy
  <2>3. CASE Proxy
    <3>1. UNCHANGED <<pc, early, relayed, got>>
      BY <2>3 DEF Proxy, SelectMethod, CheckPassword, Grant, RemoteConnects, SendReply, ClientVars,
                  call, user
    <3>2. pc # "stream"
      BY <2>3 DEF Proxy, SelectMethod, CheckPassword, Grant, RemoteConnects, StreamInv, Buffers,
                  Second
    <3> QED BY <3>1, <3>2
  <2>4. CASE ProxyCloses
    BY <2>4 DEF ProxyCloses, ClientVars, call, user
  <2>5. CASE UNCHANGED vars
    BY <2>5 DEF vars, call, user, proxy
  <2> QED BY <2>1, <2>2, <2>3, <2>4, <2>5 DEF Next, User
<1>2. CASE UNCHANGED <<pc, early, relayed, got, rx>>
  BY <1>2 DEF TLost, TOut, Phase
<1>3. CASE UNCHANGED <<pc, early, relayed, got>> /\ pc # "stream"
  BY <1>3 DEF TLost, TOut, Phase
<1>4. CASE pc = "stream" /\ pc' = "closed" /\ UNCHANGED <<early, relayed, got>>
  <2>1. Phase = "open" /\ Phase' = "closed" /\ TLost' = 0 /\ TOut' = TOut
    BY <1>4 DEF Phase, TLost, TOut
  <2>2. T!Close
    BY <1>4, <2>1 DEF T!Close, TLost, TOut
  <2> QED BY <2>2 DEF T!Next
<1> QED BY <1>1, <1>2, <1>3, <1>4

\* The client, with its handshake, buffers, errors and an arbitrary proxy,
\* implements the tunnel: Tunnel's user cannot tell it from one that only ever
\* opens, loses a bounded prefix then, and delivers the rest.
THEOREM ClientImplementsTunnel == Spec => ImplementsTunnel
<1>1. Init => T!Init
  <2> SUFFICES ASSUME Init PROVE T!Init
    OBVIOUS
  <2>1. pc = "start" /\ relayed = 0 /\ got = <<>> /\ early \in EarlyPeers
    BY DEF Init
  <2>2. Phase = "idle" /\ early \in BOOLEAN
    BY <2>1, PeersAssumption DEF Phase
  <2>3. TOut = <<>> /\ TLost = 0
    BY <2>1 DEF TOut, TLost
  <2> QED BY <2>1, <2>2, <2>3 DEF T!Init, TOut, TLost
<1>2. StreamInv /\ StreamInv' /\ [Next]_vars => [T!Next]_<<Phase, early, relayed, TLost, TOut>>
  <2> SUFFICES ASSUME StreamInv, StreamInv', [Next]_vars
               PROVE  [T!Next]_<<Phase, early, relayed, TLost, TOut>>
    OBVIOUS
  <2>1. CASE PeerSends
    BY <2>1, SendStep
  <2>2. CASE UserRead
    BY <2>2, ReadStep
  <2>3. CASE ~PeerSends /\ ~UserRead /\ pc \in {"stream", "closed", "failed"}
    BY <2>3, OpenStep
  <2>4. CASE ~PeerSends /\ ~UserRead /\ pc \notin {"stream", "closed", "failed"}
    <3>1. UNCHANGED <<early, relayed, got>>
      BY <2>4 DEF Next, vars, Client, IoError, User, Accept, UserWrite, UserDrop, Connect,
             ReadMethod, ReadAuth, FillBuf, ReadFirst, ReadSecond, ReadReply, ReadAddr, BindUdp,
             UnexpectedEof, Proxy, SelectMethod, CheckPassword, Grant, RemoteConnects, SendReply,
             ProxyCloses, ClientVars, call, user, proxy
    <3> QED BY <2>4, <3>1, IdleStep
  <2> QED BY <2>1, <2>2, <2>3, <2>4
<1> QED BY <1>1, <1>2, StreamInvariant, PTL DEF Spec, ImplementsTunnel, T!Spec, TLost, TOut
=============================================================================
