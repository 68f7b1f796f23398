------------------------- MODULE Socks5ClientProofs -------------------------
(***************************************************************************)
(* Type correctness of the SOCKS5 client, that it asks for nothing before  *)
(* the proxy has let it in, and that its packets fit their arrays, for     *)
(* every choice of commands, lengths, buffer size and payload.             *)
(***************************************************************************)
EXTENDS Socks5Client, TLAPS

\* The packets the client builds are made of bytes.
LEMMA PacketTypes ==
    ASSUME TypeOK
    PROVE  Greeting \in Packets /\ Password \in Packets /\ Request \in Packets
<1>1. auth.user \in Nat /\ auth.pass \in Nat /\ target.len \in Nat /\ cmd \in {1, 2, 3}
  <2>1. auth.user \in Nat /\ auth.pass \in Nat
    <3>1. CASE auth = NoAuth
      BY <3>1 DEF NoAuth
    <3>2. CASE auth \in [kind : {"Password"}, user : NameLens, pass : NameLens]
      BY <3>2, LengthsAssumption
    <3> QED BY <3>1, <3>2 DEF TypeOK, Auths
  <2>2. target.len \in Nat
    <3>1. CASE target \in [kind : {"V4", "V6"}, len : {0}]
      BY <3>1
    <3>2. CASE target \in [kind : {"Domain"}, len : DomainLens]
      BY <3>2, DomainLensAssumption
    <3> QED BY <3>1, <3>2 DEF TypeOK, Targets
  <2>3. cmd \in {1, 2, 3}
    BY CommandsAssumption DEF TypeOK, CONNECT, BIND, UDP_ASSOCIATE
  <2> QED BY <2>1, <2>2, <2>3
<1>2. \A n \in Nat : n % 256 \in Byte
  BY DEF Byte
<1>3. id(auth) \in Byte
  BY DEF id, Byte
<1> QED BY <1>1, <1>2, <1>3, SMTT(30) DEF Greeting, Password, Request, Packets, Byte

\* The units the proxy sends are units.
LEMMA UnitTypes ==
    /\ \A v \in Versions, m \in Methods : Method(v, m) \in Units
    /\ \A v \in Versions, s \in Statuses : AuthReply(v, s) \in Units
    /\ \A v \in Versions, r \in Statuses, z \in Statuses : Reply(v, r, z) \in Units
    /\ \A f \in Forms, n \in {1, 2} : Addr(f, n) \in Units
    /\ \A n \in 1..MaxPayload : Data(n) \in Units
BY DEF Versions, Methods, Statuses, Method, AuthReply, Reply, Addr, Data, Units, Byte

\* Any unit read as an address has a number for its value.
LEMMA UnitVals == \A u \in Units : u.val \in Nat
BY BoundsAssumption DEF Units, Byte

\* An action that ends in one of the two ways every client step ends in.
LEMMA FailTypes ==
    ASSUME TypeOK, NEW kind, Fail(kind),
           kind \in {"InvalidData", "InvalidInput", "Other", "PermissionDenied",
                     "UnexpectedEof", "Io"}
    PROVE  /\ pc' \in Waiting \cup Returned \cup {"start", "udp"}
           /\ err' \in {"none", "InvalidData", "InvalidInput", "Other", "PermissionDenied",
                        "UnexpectedEof", "Io"}
           /\ sent' \subseteq Packets /\ rbuf' \in Seq(Units) /\ proxyAddr' \in Nat
BY DEF Fail, TypeOK, Returned

\* SendRequest and SendPassword keep the types of what they change.
LEMMA SendTypes ==
    ASSUME TypeOK, SendRequest \/ SendPassword
    PROVE  /\ pc' \in Waiting \cup Returned \cup {"start", "udp"}
           /\ err' \in {"none", "InvalidData", "InvalidInput", "Other", "PermissionDenied",
                        "UnexpectedEof", "Io"}
           /\ sent' \subseteq Packets /\ rbuf' \in Seq(Units) /\ proxyAddr' \in Nat
<1>1. CASE SendRequest
  <2>1. CASE Writable(target)
    BY <1>1, <2>1, PacketTypes DEF SendRequest, Goto, TypeOK, Waiting, Answering
  <2>2. CASE ~Writable(target)
    BY <1>1, <2>2, FailTypes DEF SendRequest
  <2> QED BY <2>1, <2>2
<1>2. CASE SendPassword
  <2>1. CASE ValidName(auth.user) /\ ValidName(auth.pass)
    BY <1>2, <2>1, PacketTypes DEF SendPassword, Goto, TypeOK, Waiting, Answering
  <2>2. CASE ~(ValidName(auth.user) /\ ValidName(auth.pass))
    BY <1>2, <2>2, FailTypes DEF SendPassword
  <2> QED BY <2>1, <2>2
<1> QED BY <1>1, <1>2

\* Every step of the client and of its user keeps the types.
LEMMA ClientTypes ==
    ASSUME TypeOK, Client \/ User \/ IoError
    PROVE  TypeOK'
<1> USE DEF call, user, proxy
<1>1. CASE Connect
  BY <1>1, PacketTypes DEF Connect, Goto, TypeOK, Waiting
<1>2. CASE ReadMethod
  <2>1. rx' \in Seq(Units)
    BY <1>2 DEF ReadMethod, TypeOK
  <2>2. Fail("InvalidData") \/ Fail("Other") \/ SendRequest \/ SendPassword
    BY <1>2 DEF ReadMethod
  <2>3. UNCHANGED <<call, user, proxy>>
    BY <1>2 DEF ReadMethod
  <2> QED BY <2>1, <2>2, <2>3, FailTypes, SendTypes DEF TypeOK
<1>3. CASE ReadAuth
  <2>1. rx' \in Seq(Units)
    BY <1>3 DEF ReadAuth, TypeOK
  <2>2. Fail("InvalidData") \/ Fail("PermissionDenied") \/ SendRequest
    BY <1>3 DEF ReadAuth
  <2>3. UNCHANGED <<call, user, proxy>>
    BY <1>3 DEF ReadAuth
  <2> QED BY <2>1, <2>2, <2>3, FailTypes, SendTypes DEF TypeOK
<1>4. CASE FillBuf
  <2>1. PICK n \in 1..BufCap : /\ n <= Len(rx)
                               /\ rbuf' = SubSeq(rx, 1, n)
                               /\ rx' = SubSeq(rx, n + 1, Len(rx))
    BY <1>4 DEF FillBuf
  <2>2. rbuf' \in Seq(Units) /\ rx' \in Seq(Units)
    BY <2>1, BoundsAssumption DEF TypeOK
  <2> QED BY <1>4, <2>2 DEF FillBuf, TypeOK
<1>5. ASSUME NEW here, NEW next \in Waiting, ReadReply(here, next)
      PROVE  TypeOK'
  <2>1. UNCHANGED <<call, rx, user, proxy>>
    BY <1>5 DEF ReadReply
  <2>2. CASE Fail("InvalidData") \/ Fail("Other")
    BY <2>1, <2>2, FailTypes DEF TypeOK
  <2>3. CASE pc' = next /\ rbuf' = Tail(rbuf) /\ UNCHANGED <<err, sent, proxyAddr>>
    <3>1. rbuf # <<>>
      BY <1>5 DEF ReadReply
    <3>2. rbuf' \in Seq(Units)
      BY <2>3, <3>1 DEF TypeOK
    <3> QED BY <2>1, <2>3, <3>2 DEF TypeOK
  <2> QED BY <1>5, <2>2, <2>3 DEF ReadReply
<1>6. ASSUME NEW here, NEW next \in Returned \cup {"udp"}, ReadAddr(here, next)
      PROVE  TypeOK'
  <2>1. UNCHANGED <<call, rx, user, proxy>>
    BY <1>6 DEF ReadAddr
  <2>2. CASE Fail("InvalidData") \/ Fail("Other")
    BY <2>1, <2>2, FailTypes DEF TypeOK
  <2>3. CASE pc' = next /\ rbuf' = <<>> /\ proxyAddr' = Head(rbuf).val /\ UNCHANGED <<err, sent>>
    <3>1. rbuf # <<>> /\ Head(rbuf) \in Units
      BY <1>6 DEF ReadAddr, TypeOK
    <3>2. Head(rbuf).val \in Nat
      BY <3>1, UnitVals
    <3> QED BY <2>1, <2>3, <3>2 DEF TypeOK
  <2> QED BY <1>6, <2>2, <2>3 DEF ReadAddr
<1>7. CASE ReadFirst
  <2>1. AfterConnect \in Returned \cup {"udp"}
    BY CommandsAssumption DEF TypeOK, AfterConnect, Returned
  <2>2. "addr1" \in Waiting
    BY DEF Waiting, Answering
  <2> QED BY <1>5, <1>6, <1>7, <2>1, <2>2 DEF ReadFirst
<1>8. CASE ReadSecond
  <2>1. "stream" \in Returned /\ "addr2" \in Waiting
    BY DEF Waiting, Answering, Returned
  <2> QED BY <1>5, <1>6, <1>8, <2>1 DEF ReadSecond
<1>9. CASE BindUdp
  BY <1>9 DEF BindUdp, Goto, TypeOK, Returned
<1>10. CASE UnexpectedEof
  BY <1>10, FailTypes DEF UnexpectedEof, TypeOK
<1>11. CASE IoError
  BY <1>11, FailTypes DEF IoError, TypeOK
<1>12. CASE Accept
  BY <1>12 DEF Accept, Goto, TypeOK, Waiting, Answering
<1>13. CASE UserWrite
  BY <1>13 DEF UserWrite, TypeOK
<1>14. CASE UserRead
  <2>1. rx' \in Seq(Units) /\ got' \in Seq(Units)
    BY <1>14 DEF UserRead, TypeOK
  <2> QED BY <1>14, <2>1 DEF UserRead, TypeOK
<1>15. CASE UserDrop
  BY <1>15 DEF UserDrop, Goto, TypeOK, Returned
<1> QED
  BY <1>1, <1>2, <1>3, <1>4, <1>7, <1>8, <1>9, <1>10, <1>11, <1>12, <1>13, <1>14, <1>15
  DEF Client, User

\* Every step of the proxy and the far end keeps the types.
LEMMA ProxyTypes ==
    ASSUME TypeOK, Proxy \/ PeerSends \/ ProxyCloses
    PROVE  TypeOK'
<1> USE DEF call, user, ClientVars
<1>1. CASE SelectMethod
  <2>1. PICK v \in Versions, m \in Methods :
           /\ rx' = Append(rx, Method(v, m)) /\ chosen' = m
           /\ srv' = IF m = 2 THEN "auth" ELSE "request"
    BY <1>1 DEF SelectMethod
  <2>2. rx' \in Seq(Units) /\ chosen' \in Byte
    BY <2>1, UnitTypes DEF TypeOK, Methods, Byte
  <2> QED BY <1>1, <2>1, <2>2 DEF SelectMethod, TypeOK
<1>2. CASE CheckPassword
  <2>1. PICK v \in Versions, s \in Statuses :
           /\ rx' = Append(rx, AuthReply(v, s)) /\ status' = s
           /\ srv' = IF s = 0 THEN "request" ELSE "closed"
    BY <1>2 DEF CheckPassword
  <2>2. rx' \in Seq(Units) /\ status' \in Byte
    BY <2>1, UnitTypes DEF TypeOK, Statuses, Byte
  <2> QED BY <1>2, <2>1, <2>2 DEF CheckPassword, TypeOK
<1>3. ASSUME NEW n \in {1, 2}, NEW next \in {"bound", "relay"}, SendReply(n, next)
      PROVE  TypeOK'
  <2>1. PICK v \in Versions, r \in Statuses, z \in Statuses, f \in Forms :
           /\ rx' = rx \o <<Reply(v, r, z), Addr(f, n)>>
           /\ srv' \in {next, "closed"} /\ granted' \in {n, granted}
    BY <1>3 DEF SendReply
  <2>2. Reply(v, r, z) \in Units /\ Addr(f, n) \in Units
    BY UnitTypes
  <2>3. rx' \in Seq(Units)
    BY <2>1, <2>2 DEF TypeOK
  <2> QED BY <1>3, <2>1, <2>3 DEF SendReply, TypeOK
<1>4. CASE Grant
  BY <1>3, <1>4 DEF Grant
<1>5. CASE RemoteConnects
  BY <1>3, <1>5 DEF RemoteConnects
<1>6. CASE PeerSends
  <2>1. relayed + 1 \in 1..MaxPayload
    BY <1>6, BoundsAssumption DEF PeerSends, TypeOK
  <2>2. rx' \in Seq(Units)
    BY <1>6, <2>1, UnitTypes DEF PeerSends, TypeOK
  <2> QED BY <1>6, <2>1, <2>2 DEF PeerSends, TypeOK
<1>7. CASE ProxyCloses
  BY <1>7 DEF ProxyCloses, TypeOK
<1> QED BY <1>1, <1>2, <1>4, <1>5, <1>6, <1>7 DEF Proxy

LEMMA InitTypes == Init => TypeOK
<1> SUFFICES ASSUME Init PROVE TypeOK
  OBVIOUS
<1>1. target \in Targets
  <2>1. Unspecified \in Targets
    BY DEF Unspecified, Targets
  <2> QED BY <2>1 DEF Init
<1>2. <<>> \in Seq(Units) /\ {} \subseteq Packets /\ 0 \in 0..MaxPayload
  BY BoundsAssumption
<1>3. cmd \in Commands /\ auth \in Auths /\ early \in EarlyPeers
  BY DEF Init
<1>4. /\ sent \subseteq Packets
      /\ rx \in Seq(Units) /\ rbuf \in Seq(Units) /\ got \in Seq(Units)
      /\ wrote \in BOOLEAN /\ relayed \in 0..MaxPayload
  BY <1>2 DEF Init
<1>5. /\ proxyAddr \in Nat /\ granted \in 0..2
      /\ chosen \in Byte \cup {NoMethod} /\ status \in Byte \cup {NoMethod}
  BY DEF Init
<1>6. pc = "start" /\ err = "none" /\ srv = "greeting"
  BY DEF Init
<1> QED BY <1>1, <1>3, <1>4, <1>5, <1>6 DEF TypeOK

LEMMA NextTypes == TypeOK /\ [Next]_vars => TypeOK'
<1> SUFFICES ASSUME TypeOK, [Next]_vars PROVE TypeOK'
  OBVIOUS
<1>1. CASE UNCHANGED vars
  BY <1>1 DEF vars, call, user, proxy, TypeOK
<1> QED BY <1>1, ClientTypes, ProxyTypes DEF Next

\* Every variable keeps its type, whatever the proxy answers.
THEOREM TypeCorrect == Spec => []TypeOK
BY InitTypes, NextTypes, PTL DEF Spec
-----------------------------------------------------------------------------
\* Why the client knows what the proxy decided: while it waits for an answer,
\* the socket holds that answer and nothing else, because the proxy says no
\* more before the client's next packet.
Handshake ==
    /\ pc \in {"start", "method"} => Password \notin sent /\ Request \notin sent
    /\ pc = "auth" => Password \in sent /\ Request \notin sent /\ chosen = 2
    /\ srv = "greeting" => rx = <<>> /\ Password \notin sent /\ Request \notin sent
    /\ srv = "auth" => Request \notin sent /\ chosen = 2
    /\ srv \in {"bound", "relay"} => Request \in sent
    /\ pc \in {"start", "method"} /\ rx # <<>> => Tail(rx) = <<>> /\ Head(rx).val = chosen
    /\ pc = "auth" /\ rx # <<>> =>
          Tail(rx) = <<>> /\ Head(rx).val = status /\ srv # "auth"

Inv == TypeOK /\ Handshake /\ Authorised

\* The three packets differ.
LEMMA PacketsDiffer == Greeting # Password /\ Greeting # Request /\ Password # Request
BY DEF Greeting, Password, Request

\* A step of the client that only fails keeps the invariant.
LEMMA FailKeeps ==
    ASSUME Inv, TypeOK', NEW kind, Fail(kind), UNCHANGED <<call, proxy>>,
           rx' = rx \/ (rx # <<>> /\ rx' = Tail(rx))
    PROVE  Inv'
BY DEF Inv, Handshake, Authorised, Fail, call, proxy, Password, Request, Offered, id

\* The request goes out when the proxy's decision allows it.
LEMMA RequestKeeps ==
    ASSUME Inv, TypeOK', SendRequest, UNCHANGED <<call, proxy>>, rx # <<>>, rx' = Tail(rx),
           chosen \in Offered(auth), chosen = 2 => Password \in sent /\ status = 0,
           srv \notin {"greeting", "auth"}
    PROVE  Inv'
<1>1. CASE ~Writable(target)
  BY <1>1, FailKeeps DEF SendRequest
<1>2. CASE Writable(target)
  <2>1. sent' = sent \cup {Request} /\ pc' = "reply1"
    BY <1>2 DEF SendRequest, Goto
  <2>2. Password' = Password /\ Request' = Request /\ Offered(auth)' = Offered(auth)
    BY DEF call, Password, Request, Offered, id
  <2>3. Handshake'
    BY <2>1, <2>2, PacketsDiffer DEF Inv, Handshake, proxy
  <2>4. Authorised'
    BY <2>1, <2>2, PacketsDiffer DEF Inv, Authorised, proxy, call
  <2> QED BY <2>3, <2>4 DEF Inv
<1> QED BY <1>1, <1>2

\* The steps of the client keep the invariant.
LEMMA ClientKeeps ==
    ASSUME Inv, TypeOK', Client \/ User \/ IoError
    PROVE  Inv'
<1>0. ASSUME UNCHANGED call
      PROVE  Password' = Password /\ Request' = Request /\ Offered(auth)' = Offered(auth)
  BY <1>0 DEF call, Password, Request, Offered, id
<1>1. CASE Connect
  <2>1. UNCHANGED <<call, rx, proxy>> /\ sent' = sent \cup {Greeting} /\ pc = "start" /\ pc' = "method"
    BY <1>1 DEF Connect, Goto
  <2>2. Handshake'
    BY <1>0, <2>1, PacketsDiffer DEF Inv, Handshake, proxy
  <2>3. Authorised'
    BY <1>0, <2>1, PacketsDiffer DEF Inv, Handshake, Authorised, proxy, call
  <2> QED BY <2>2, <2>3 DEF Inv
<1>2. CASE ReadMethod
  <2> DEFINE m == Head(rx)
  <2>1. /\ pc = "method" /\ rx # <<>> /\ rx' = Tail(rx) /\ UNCHANGED <<call, proxy>>
        /\ Tail(rx) = <<>> /\ m.val = chosen /\ srv # "greeting"
    BY <1>2 DEF ReadMethod, Inv, Handshake
  <2>2. CASE Fail("InvalidData") \/ Fail("Other")
    BY <2>1, <2>2, FailKeeps
  <2>3. CASE m.val = 0 /\ SendRequest
    <3>1. chosen = 0 /\ 0 \in Offered(auth) /\ srv # "auth"
      BY <2>1, <2>3 DEF Offered, Inv, Handshake
    <3> QED BY <2>1, <2>3, <3>1, RequestKeeps
  <2>4. CASE m.val = 2 /\ auth.kind = "Password" /\ SendPassword
    <3>1. CASE ~(ValidName(auth.user) /\ ValidName(auth.pass))
      BY <2>1, <2>4, <3>1, FailKeeps DEF SendPassword
    <3>2. CASE ValidName(auth.user) /\ ValidName(auth.pass)
      <4>1. sent' = sent \cup {Password} /\ pc' = "auth" /\ rx' = <<>>
        BY <2>1, <2>4, <3>2 DEF SendPassword, Goto
      <4>2. Handshake'
        BY <1>0, <2>1, <2>4, <4>1, PacketsDiffer DEF Inv, Handshake, proxy
      <4>3. Authorised'
        BY <1>0, <2>1, <2>4, <4>1, PacketsDiffer DEF Inv, Handshake, Authorised, proxy, call
      <4> QED BY <4>2, <4>3 DEF Inv
    <3> QED BY <3>1, <3>2
  <2> QED BY <1>2, <2>2, <2>3, <2>4 DEF ReadMethod
<1>3. CASE ReadAuth
  <2> DEFINE a == Head(rx)
  <2>1. /\ pc = "auth" /\ rx # <<>> /\ rx' = Tail(rx) /\ UNCHANGED <<call, proxy>>
        /\ a.val = status /\ Password \in sent /\ chosen = 2 /\ srv \notin {"greeting", "auth"}
    BY <1>3 DEF ReadAuth, Inv, Handshake
  <2>2. CASE Fail("InvalidData") \/ Fail("PermissionDenied")
    BY <2>1, <2>2, FailKeeps
  <2>3. CASE a.val = 0 /\ SendRequest
    <3>1. 2 \in Offered(auth)
      BY <2>1 DEF Inv, Authorised, Offered, id
    <3> QED BY <2>1, <2>3, <3>1, RequestKeeps
  <2> QED BY <1>3, <2>2, <2>3 DEF ReadAuth
<1>4. ASSUME /\ UNCHANGED <<call, proxy, sent>>
             /\ pc' \notin {"start", "method", "auth"}
             /\ rx' = rx \/ rx # <<>>
      PROVE  Inv'
  <2>1. Handshake'
    BY <1>0, <1>4 DEF Inv, Handshake, proxy
  <2>2. Authorised'
    BY <1>0, <1>4 DEF Inv, Authorised, proxy, call
  <2> QED BY <2>1, <2>2 DEF Inv
<1>5. CASE FillBuf
  BY <1>4, <1>5 DEF FillBuf, Answering
<1>6. ASSUME NEW here, NEW next \in {"addr1", "addr2"}, ReadReply(here, next)
      PROVE  Inv'
  BY <1>4, <1>6 DEF ReadReply, Fail
<1>7. ASSUME NEW here, NEW next \in {"stream", "bound", "udp"}, ReadAddr(here, next)
      PROVE  Inv'
  BY <1>4, <1>7 DEF ReadAddr, Fail
<1>8. CASE ReadFirst
  <2>1. AfterConnect \in {"stream", "bound", "udp"}
    BY CommandsAssumption DEF Inv, TypeOK, AfterConnect
  <2> QED BY <1>6, <1>7, <1>8, <2>1 DEF ReadFirst
<1>9. CASE ReadSecond
  BY <1>6, <1>7, <1>9 DEF ReadSecond
<1>10. CASE BindUdp
  BY <1>4, <1>10 DEF BindUdp, Goto
<1>11. CASE UnexpectedEof
  BY <1>4, <1>11 DEF UnexpectedEof, Fail
<1>12. CASE IoError
  BY <1>4, <1>12 DEF IoError, Fail
<1>13. CASE User
  BY <1>4, <1>13 DEF User, Accept, UserWrite, UserRead, UserDrop, Goto
<1> QED
  BY <1>1, <1>2, <1>3, <1>5, <1>8, <1>9, <1>10, <1>11, <1>12, <1>13 DEF Client

\* The steps of the proxy keep the invariant.
LEMMA ProxyKeeps ==
    ASSUME Inv, TypeOK', Proxy \/ PeerSends \/ ProxyCloses
    PROVE  Inv'
<1> USE DEF ClientVars, call
<1>0. Proxy \/ PeerSends \/ ProxyCloses =>
         Password' = Password /\ Request' = Request /\ Offered(auth)' = Offered(auth)
  BY DEF Proxy, SelectMethod, CheckPassword, Grant, RemoteConnects, SendReply, PeerSends,
         ProxyCloses, Password, Request, Offered, id
<1>1. CASE SelectMethod
  <2>1. PICK v \in Versions, m \in Methods :
           /\ rx' = Append(rx, Method(v, m)) /\ chosen' = m
           /\ srv' = IF m = 2 THEN "auth" ELSE "request"
    BY <1>1 DEF SelectMethod
  <2>2. /\ srv = "greeting" /\ rx = <<>> /\ Password \notin sent /\ Request \notin sent
        /\ UNCHANGED <<pc, sent, status>> /\ pc # "auth"
    BY <1>1 DEF SelectMethod, Inv, Handshake
  <2>3. Tail(rx') = <<>> /\ Head(rx').val = chosen'
    BY <2>1, <2>2 DEF Method
  <2>4. Handshake'
    BY <1>0, <2>1, <2>2, <2>3 DEF Handshake
  <2>5. Authorised'
    BY <1>0, <2>2 DEF Authorised
  <2> QED BY <2>4, <2>5 DEF Inv
<1>2. CASE CheckPassword
  <2>1. PICK v \in Versions, s \in Statuses :
           /\ rx' = Append(rx, AuthReply(v, s)) /\ status' = s
           /\ srv' = IF s = 0 THEN "request" ELSE "closed"
    BY <1>2 DEF CheckPassword
  <2>2. /\ srv = "auth" /\ Password \in sent /\ Request \notin sent /\ chosen = 2
        /\ UNCHANGED <<pc, sent, chosen, auth>>
    BY <1>2 DEF CheckPassword, Inv, Handshake
  <2>3. pc = "auth" => Tail(rx') = <<>> /\ Head(rx').val = status'
    BY <2>1, <2>2 DEF AuthReply, Inv, Handshake
  <2>4. Handshake'
    BY <1>0, <2>1, <2>2, <2>3 DEF Inv, Handshake
  <2>5. Authorised'
    BY <1>0, <2>2 DEF Inv, Authorised
  <2> QED BY <2>4, <2>5 DEF Inv
<1>3. CASE Grant \/ RemoteConnects \/ PeerSends
  <2>1. /\ Request \in sent /\ pc \notin {"start", "method", "auth"}
        /\ srv \notin {"greeting", "auth"}
        /\ UNCHANGED <<pc, sent, chosen, status, auth>>
        /\ srv' \in {"bound", "relay", "closed"}
    BY <1>3 DEF Grant, RemoteConnects, SendReply, PeerSends, Inv, Handshake
  <2>2. Handshake'
    BY <1>0, <1>3, <2>1 DEF Inv, Handshake, Proxy
  <2>3. Authorised'
    BY <1>0, <1>3, <2>1 DEF Inv, Authorised, Proxy
  <2> QED BY <2>2, <2>3 DEF Inv
<1>4. CASE ProxyCloses
  BY <1>0, <1>4 DEF ProxyCloses, Inv, Handshake, Authorised
<1> QED BY <1>1, <1>2, <1>3, <1>4 DEF Proxy

LEMMA InvStep == Inv /\ [Next]_vars => Inv'
<1> SUFFICES ASSUME Inv, [Next]_vars PROVE Inv'
  OBVIOUS
<1>1. TypeOK'
  BY NextTypes DEF Inv
<1>2. CASE UNCHANGED vars
  BY <1>1, <1>2 DEF vars, call, user, proxy, Inv, Handshake, Authorised, Password, Request,
                    Offered, id
<1> QED BY <1>1, <1>2, ClientKeeps, ProxyKeeps DEF Next

\* connect_raw sends its request only after the proxy chose a method that was
\* offered and, where it asked for one, accepted the password; and it sends the
\* password only to a proxy that asked for it.
THEOREM RequestIsAuthorised == Spec => []Authorised
<1>1. Init => Inv
  <2> SUFFICES ASSUME Init PROVE Inv
    OBVIOUS
  <2>1. TypeOK
    BY InitTypes
  <2> QED BY <2>1 DEF Inv, Init, Handshake, Authorised
<1>2. Inv => Authorised
  BY DEF Inv
<1> QED BY <1>1, <1>2, InvStep, PTL DEF Spec
-----------------------------------------------------------------------------
\* The packets of the protocol keep what they say when the call's parameters
\* do, and Writable and ValidName are what makes them say the truth.
LEMMA LengthBytes ==
    ASSUME TypeOK
    PROVE  /\ Writable(target) => HeaderLen(target) <= HEADER /\ Request.b = target.len
           /\ ValidName(auth.user) /\ ValidName(auth.pass) =>
                 /\ 3 + auth.user + auth.pass <= PASSWORD_PACKET_LEN
                 /\ Password.a = auth.user /\ Password.b = auth.pass
                 /\ Password.a > 0 /\ Password.b > 0
<1>1. auth.user \in Nat /\ auth.pass \in Nat
  <2>1. CASE auth = NoAuth
    BY <2>1 DEF NoAuth
  <2>2. CASE auth \in [kind : {"Password"}, user : NameLens, pass : NameLens]
    BY <2>2, LengthsAssumption
  <2> QED BY <2>1, <2>2 DEF TypeOK, Auths
<1>2. ASSUME Writable(target)
      PROVE  HeaderLen(target) <= HEADER /\ Request.b = target.len
  <2>1. CASE target \in [kind : {"V4", "V6"}, len : {0}]
    BY <2>1 DEF HeaderLen, HEADER, MAX_ADDR_LEN, AddrLen, Request
  <2>2. CASE target \in [kind : {"Domain"}, len : DomainLens]
    <3>1. target.kind = "Domain" /\ target.len \in Nat /\ target.len <= 255
      BY <1>2, <2>2, DomainLensAssumption DEF Writable
    <3> QED BY <3>1 DEF HeaderLen, HEADER, MAX_ADDR_LEN, AddrLen, Request
  <2> QED BY <2>1, <2>2 DEF TypeOK, Targets
<1>3. ASSUME ValidName(auth.user), ValidName(auth.pass)
      PROVE  /\ 3 + auth.user + auth.pass <= PASSWORD_PACKET_LEN
             /\ Password.a = auth.user /\ Password.b = auth.pass
             /\ Password.a > 0 /\ Password.b > 0
  BY <1>1, <1>3 DEF ValidName, Password, PASSWORD_PACKET_LEN
<1> QED BY <1>2, <1>3

FrameInv == TypeOK /\ FramesFit

\* Nothing but the two sends adds a request or a password to what was sent.
LEMMA FrameSends ==
    ASSUME FrameInv, TypeOK', [Next]_vars
    PROVE  FrameInv'
<1>1. UNCHANGED call /\ (sent' \subseteq sent \cup {Greeting} \/ SendRequest \/ SendPassword)
  <2>1. \A kind : Fail(kind) => sent' = sent
    BY DEF Fail
  <2>2. CASE Client
    BY <2>1, <2>2 DEF Client, Connect, ReadMethod, ReadAuth, FillBuf, ReadFirst, ReadSecond,
                      ReadReply, ReadAddr, BindUdp, UnexpectedEof, Goto
  <2>3. CASE User \/ IoError
    BY <2>1, <2>3 DEF User, IoError, Accept, UserWrite, UserRead, UserDrop, Goto
  <2>4. CASE Proxy \/ PeerSends \/ ProxyCloses
    BY <2>4 DEF Proxy, SelectMethod, CheckPassword, Grant, RemoteConnects, SendReply, PeerSends,
                ProxyCloses, ClientVars
  <2>5. CASE UNCHANGED vars
    BY <2>5 DEF vars
  <2> QED BY <2>2, <2>3, <2>4, <2>5 DEF Next
<1>2. Request' = Request /\ Password' = Password /\ UNCHANGED <<auth, target>>
  BY <1>1 DEF call, Request, Password
<1>3. \/ sent' \subseteq sent \cup {Greeting}
      \/ sent' = sent \cup {Request} /\ Writable(target)
      \/ sent' = sent \cup {Password} /\ ValidName(auth.user) /\ ValidName(auth.pass)
  BY <1>1 DEF SendRequest, SendPassword, Fail
<1>4. FramesFit'
  <2>1. ASSUME Request \in sent'
        PROVE  HeaderLen(target) <= HEADER /\ Request.b = target.len
    BY <1>3, <2>1, PacketsDiffer, LengthBytes DEF FrameInv, FramesFit
  <2>2. ASSUME Password \in sent'
        PROVE  /\ 3 + auth.user + auth.pass <= PASSWORD_PACKET_LEN
               /\ Password.a = auth.user /\ Password.b = auth.pass
               /\ Password.a > 0 /\ Password.b > 0
    BY <1>3, <2>2, PacketsDiffer, LengthBytes DEF FrameInv, FramesFit
  <2>3. HeaderLen(target)' = HeaderLen(target)
    BY <1>2 DEF HeaderLen, AddrLen
  <2> QED BY <1>2, <2>1, <2>2, <2>3 DEF FramesFit
<1> QED BY <1>4 DEF FrameInv

\* The request and the password packet fit the arrays they are built in, and
\* their length bytes are exact, for names of every length: what does not fit
\* is refused before it is sent.
THEOREM FramesAlwaysFit == Spec => []FramesFit
<1>1. Init => FrameInv
  BY InitTypes DEF Init, FrameInv, FramesFit
<1>2. FrameInv /\ [Next]_vars => FrameInv'
  BY NextTypes, FrameSends DEF FrameInv
<1>3. FrameInv => FramesFit
  BY DEF FrameInv
<1> QED BY <1>1, <1>2, <1>3, PTL DEF Spec
=============================================================================
