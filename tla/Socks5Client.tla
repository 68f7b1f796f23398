---------------------------- MODULE Socks5Client ----------------------------
(***************************************************************************)
(* The blocking SOCKS5 client of tache/src/protocol/socks/v5.rs: one call  *)
(* of Socks5Stream::connect*, Socks5Listener::bind* (and accept) or        *)
(* Socks5Datagram::bind*, against an arbitrary proxy.                      *)
(*                                                                         *)
(* The byte stream from the proxy is a sequence of units.  A unit is what  *)
(* the client parses in one go: the two bytes of a method or password      *)
(* answer, the three bytes VER REP RSV of a reply, its address, or one     *)
(* chunk of payload.  read_exact takes whole units from the socket; the    *)
(* BufReader of read_response takes whatever has arrived and is dropped,   *)
(* with what is left in it, when the function returns.                     *)
(***************************************************************************)
EXTENDS Socks5Addr, Sequences

CONSTANTS
    Commands,     \* the commands called: CONNECT, BIND, UDP_ASSOCIATE
    NameLens,     \* lengths of user names and passwords
    MaxPayload,   \* bound: chunks of payload the far end sends
    BufCap,       \* capacity of the BufReader, in units
    EarlyPeers    \* may the far end send before the client wrote to it?

CONNECT == 1
BIND == 2
UDP_ASSOCIATE == 3

ASSUME CommandsAssumption == Commands \subseteq {CONNECT, BIND, UDP_ASSOCIATE}
ASSUME LengthsAssumption == NameLens \subseteq Nat
ASSUME BoundsAssumption == MaxPayload \in Nat /\ BufCap \in Nat \ {0}
ASSUME PeersAssumption == EarlyPeers \subseteq BOOLEAN

VARIABLES
    cmd, auth, target,  \* the parameters of the call
    early,     \* the far end speaks first
    pc,        \* where the client is
    err,       \* io::ErrorKind of the error the call returned
    sent,      \* the packets the client has written
    rx,        \* units the proxy has sent and the socket still holds
    rbuf,      \* units held by the BufReader of read_response
    proxyAddr, \* Socks5Stream.proxy_addr
    wrote,     \* has the user of the stream written to it?
    got,       \* units the user of the stream has read
    srv,       \* where the proxy is
    chosen,    \* the method the proxy selected
    status,    \* the proxy's verdict on the password
    granted,   \* replies with which the proxy granted the request
    relayed    \* chunks of payload the far end has sent

call == <<cmd, auth, target, early>>
proxy == <<srv, chosen, status, granted, relayed>>
user == <<wrote, got>>
vars == <<call, pc, err, sent, rx, rbuf, proxyAddr, user, proxy>>
-----------------------------------------------------------------------------
\* Data.

PASSWORD_PACKET_LEN == 515
NoMethod == 256           \* what `chosen' and `status' hold before the answer
NoAuth == [kind |-> "None", user |-> 0, pass |-> 0]
Auths == {NoAuth} \cup [kind : {"Password"}, user : NameLens, pass : NameLens]
id(a) == IF a.kind = "Password" THEN 2 ELSE 0
Offered(a) == {id(a), 0}

\* The three packets, with lengths as the u8 that goes on the wire.
Greeting == [type |-> "greeting", a |-> id(auth), b |-> 0]
Password == [type |-> "auth", a |-> auth.user % 256, b |-> auth.pass % 256]
Request  == [type |-> "request", a |-> cmd, b |-> target.len % 256]
Packets == [type : {"greeting", "auth", "request"}, a : Byte, b : Byte]

Method(v, m) == [tag |-> "method", ver |-> v, val |-> m]
AuthReply(v, s) == [tag |-> "auth", ver |-> v, val |-> s]
Reply(v, r, z) == [tag |-> "reply", ver |-> v, val |-> r, rsv |-> z]
Addr(f, n) == [tag |-> "addr", form |-> f, val |-> n]
Data(n) == [tag |-> "data", val |-> n]
Forms == {"ok", "badtype", "badutf8"}
Units == [tag : {"method", "auth"}, ver : Byte, val : Byte]
         \cup [tag : {"reply"}, ver : Byte, val : Byte, rsv : Byte]
         \cup [tag : {"addr"}, form : Forms, val : {1, 2}]
         \cup [tag : {"data"}, val : 1..MaxPayload]

\* Representatives of the byte values the code tells apart.
Versions == {1, 4, 5}
Methods == {0, 1, 2, 255}
Statuses == {0, 1}

Answering == {"reply1", "addr1", "reply2", "addr2"}
Returned == {"bound", "stream", "assoc", "failed", "closed"}
Waiting == {"method", "auth"} \cup Answering
-----------------------------------------------------------------------------
Init ==
    /\ cmd \in Commands
    /\ auth \in Auths
    /\ target \in IF cmd = UDP_ASSOCIATE THEN {Unspecified} ELSE Targets
    /\ early \in EarlyPeers
    /\ pc = "start" /\ err = "none"
    /\ sent = {} /\ rx = <<>> /\ rbuf = <<>>
    /\ proxyAddr = 0
    /\ wrote = FALSE /\ got = <<>>
    /\ srv = "greeting" /\ chosen = NoMethod /\ status = NoMethod
    /\ granted = 0 /\ relayed = 0

\* The call returns Err: the socket and the BufReader are dropped.
Fail(kind) ==
    /\ pc' = "failed" /\ err' = kind
    /\ rbuf' = <<>>
    /\ UNCHANGED <<sent, proxyAddr>>

Goto(label) == pc' = label /\ UNCHANGED <<err, rbuf, proxyAddr>>

(***************************************************************************)
(* Client.                                                                 *)
(***************************************************************************)

\* connect_raw up to the greeting.  A failure of TcpStream::connect or of
\* to_target_addr is an IoError step.
Connect ==
    /\ pc = "start"
    /\ sent' = sent \cup {Greeting}
    /\ Goto("method")
    /\ UNCHANGED <<call, rx, user, proxy>>

\* Mutant: the length of the domain name is not checked and not narrowed.
SendRequestWide ==
    /\ sent' = sent \cup {[type |-> "request", a |-> cmd, b |-> target.len]}
    /\ Goto("reply1")

\* write_addr and the request packet, on every path that reaches them.
SendRequest ==
    IF Writable(target)
    THEN sent' = sent \cup {Request} /\ Goto("reply1")
    ELSE Fail("InvalidInput")

\* Mutant: a name of 256 bytes is let through.
ValidNameOffByOne(len) == len >= 1 /\ len <= 256

ValidName(len) == len >= 1 /\ len <= 255

\* The first half of password_authentication.
SendPassword ==
    IF ValidName(auth.user) /\ ValidName(auth.pass)
    THEN sent' = sent \cup {Password} /\ Goto("auth")
    ELSE Fail("InvalidInput")

\* connect_raw reads the method selection and acts on it.
ReadMethod ==
    /\ pc = "method" /\ rx # <<>>
    /\ rx' = Tail(rx)
    /\ LET m == Head(rx) IN
       \/ m.ver # 5 /\ Fail("InvalidData")
       \/ m.ver = 5 /\ m.val \notin Offered(auth) /\ Fail("Other")
       \/ m.ver = 5 /\ m.val = 0 /\ SendRequest
       \/ m.ver = 5 /\ m.val = 2 /\ auth.kind = "Password" /\ SendPassword
    /\ UNCHANGED <<call, user, proxy>>

\* Mutant: the status byte is not looked at.
ReadAuthTrusting ==
    /\ pc = "auth" /\ rx # <<>>
    /\ rx' = Tail(rx)
    /\ \/ Head(rx).ver # 1 /\ Fail("InvalidData")
       \/ Head(rx).ver = 1 /\ SendRequest
    /\ UNCHANGED <<call, user, proxy>>

\* The second half of password_authentication.
ReadAuth ==
    /\ pc = "auth" /\ rx # <<>>
    /\ rx' = Tail(rx)
    /\ LET a == Head(rx) IN
       \/ a.ver # 1 /\ Fail("InvalidData")
       \/ a.ver = 1 /\ a.val # 0 /\ Fail("PermissionDenied")
       \/ a.ver = 1 /\ a.val = 0 /\ SendRequest
    /\ UNCHANGED <<call, user, proxy>>

\* Mutants: the reader waits for a full buffer (read_exact for read), or looks
\* at what the socket holds without taking it.
FillBufWhole ==
    /\ pc \in Answering /\ rbuf = <<>> /\ Len(rx) >= BufCap
    /\ rbuf' = SubSeq(rx, 1, BufCap)
    /\ rx' = SubSeq(rx, BufCap + 1, Len(rx))
    /\ UNCHANGED <<call, pc, err, sent, proxyAddr, user, proxy>>

FillBufPeeks ==
    /\ pc \in Answering /\ rbuf = <<>> /\ rx # <<>>
    /\ rbuf' = rx
    /\ UNCHANGED <<call, pc, err, sent, rx, proxyAddr, user, proxy>>

\* The BufReader is empty and asks the socket: any part of what was sent may
\* have arrived.
FillBuf ==
    /\ pc \in Answering /\ rbuf = <<>> /\ rx # <<>>
    /\ \E n \in 1..BufCap :
          /\ n <= Len(rx)
          /\ rbuf' = SubSeq(rx, 1, n)
          /\ rx' = SubSeq(rx, n + 1, Len(rx))
    /\ UNCHANGED <<call, pc, err, sent, proxyAddr, user, proxy>>

\* Mutant: REP is not looked at.
ReadReplyAnyRep(here, next) ==
    /\ pc = here /\ rbuf # <<>>
    /\ LET h == Head(rbuf) IN
       \/ (h.ver # 5 \/ h.rsv # 0) /\ Fail("InvalidData")
       \/ /\ h.ver = 5 /\ h.rsv = 0
          /\ pc' = next /\ rbuf' = Tail(rbuf)
          /\ UNCHANGED <<err, sent, proxyAddr>>
    /\ UNCHANGED <<call, rx, user, proxy>>

\* VER, REP and RSV of a reply, read from the BufReader.
ReadReply(here, next) ==
    /\ pc = here /\ rbuf # <<>>
    /\ LET h == Head(rbuf) IN
       \/ h.ver # 5 /\ Fail("InvalidData")
       \/ h.ver = 5 /\ h.val # 0 /\ Fail("Other")
       \/ h.ver = 5 /\ h.val = 0 /\ h.rsv # 0 /\ Fail("InvalidData")
       \/ /\ h.ver = 5 /\ h.val = 0 /\ h.rsv = 0
          /\ pc' = next /\ rbuf' = Tail(rbuf)
          /\ UNCHANGED <<err, sent, proxyAddr>>
    /\ UNCHANGED <<call, rx, user, proxy>>

\* read_addr, and read_response returns: the BufReader goes out of scope with
\* whatever it still holds.
ReadAddr(here, next) ==
    /\ pc = here /\ rbuf # <<>>
    /\ LET a == Head(rbuf) IN
       \/ a.form = "badtype" /\ Fail("Other")
       \/ a.form = "badutf8" /\ Fail("InvalidData")
       \/ /\ a.form = "ok"
          /\ pc' = next /\ rbuf' = <<>> /\ proxyAddr' = a.val
          /\ UNCHANGED <<err, sent>>
    /\ UNCHANGED <<call, rx, user, proxy>>

\* Mutant: bind hands out the stream after the first reply.
AfterConnectNoAccept == IF cmd = UDP_ASSOCIATE THEN "udp" ELSE "stream"

\* What connect_raw's caller returns: a Socks5Stream, a Socks5Listener, or
\* bind_internal going on to its UDP socket.
AfterConnect == CASE cmd = CONNECT -> "stream"
                  [] cmd = BIND -> "bound"
                  [] cmd = UDP_ASSOCIATE -> "udp"

ReadFirst == ReadReply("reply1", "addr1") \/ ReadAddr("addr1", AfterConnect)
ReadSecond == ReadReply("reply2", "addr2") \/ ReadAddr("addr2", "stream")

\* Socks5Listener::accept.
Accept ==
    /\ pc = "bound"
    /\ Goto("reply2")
    /\ UNCHANGED <<call, sent, rx, user, proxy>>

\* bind_internal: UdpSocket::bind and connect succeed.
BindUdp ==
    /\ pc = "udp"
    /\ Goto("assoc")
    /\ UNCHANGED <<call, sent, rx, user, proxy>>

\* Any system call of the client returns an error.
IoError ==
    /\ pc \in Waiting \cup {"start", "udp"}
    /\ Fail("Io")
    /\ UNCHANGED <<call, rx, user, proxy>>

\* The proxy closed the stream in the middle of what the client reads.
UnexpectedEof ==
    /\ pc \in Waiting /\ srv = "closed" /\ rx = <<>> /\ rbuf = <<>>
    /\ Fail("UnexpectedEof")
    /\ UNCHANGED <<call, rx, user, proxy>>

\* The user of the stream writes, reads and drops it.
UserWrite ==
    /\ pc = "stream" /\ ~wrote
    /\ wrote' = TRUE
    /\ UNCHANGED <<call, pc, err, sent, rx, rbuf, proxyAddr, got, proxy>>

UserRead ==
    /\ pc = "stream" /\ rx # <<>>
    /\ got' = Append(got, Head(rx)) /\ rx' = Tail(rx)
    /\ UNCHANGED <<call, pc, err, sent, rbuf, proxyAddr, wrote, proxy>>

UserDrop ==
    /\ pc \in {"stream", "bound", "assoc"}
    /\ Goto("closed")
    /\ UNCHANGED <<call, sent, rx, user, proxy>>

Client == Connect \/ ReadMethod \/ ReadAuth \/ FillBuf \/ ReadFirst \/ ReadSecond
          \/ BindUdp \/ UnexpectedEof
User == Accept \/ UserWrite \/ UserRead \/ UserDrop
-----------------------------------------------------------------------------
(***************************************************************************)
(* Proxy and far end (external): answers in the order of the protocol,     *)
(* with any field values, and may close the stream at any time.            *)
(***************************************************************************)
ClientVars == <<call, pc, err, sent, rbuf, proxyAddr, user>>

SelectMethod ==
    /\ srv = "greeting" /\ Greeting \in sent
    /\ \E v \in Versions, m \in Methods :
          /\ rx' = Append(rx, Method(v, m))
          /\ chosen' = m
          /\ srv' = IF m = 2 THEN "auth" ELSE "request"
    /\ UNCHANGED <<ClientVars, status, granted, relayed>>

CheckPassword ==
    /\ srv = "auth" /\ Password \in sent
    /\ \E v \in Versions, s \in Statuses :
          /\ rx' = Append(rx, AuthReply(v, s))
          /\ status' = s
          /\ srv' = IF s = 0 THEN "request" ELSE "closed"
    /\ UNCHANGED <<ClientVars, chosen, granted, relayed>>

\* Grants or refuses; the address of the n-th reply is the number n.  A proxy
\* that closes between the two is a client that fails: IoError.
SendReply(n, next) ==
    /\ \E v \in Versions, r \in Statuses, z \in Statuses, f \in Forms :
          /\ rx' = rx \o <<Reply(v, r, z), Addr(f, n)>>
          /\ LET ok == v = 5 /\ r = 0 /\ z = 0 /\ f = "ok" IN
             /\ srv' = IF ok THEN next ELSE "closed"
             /\ granted' = IF ok THEN n ELSE granted
    /\ UNCHANGED <<ClientVars, chosen, status, relayed>>

Grant ==
    /\ srv = "request" /\ Request \in sent
    /\ SendReply(1, IF cmd = BIND THEN "bound" ELSE "relay")

\* The remote process, which knows the listener's address from the value bind
\* returned (proxy_addr), connects to it.  Assumed of the proxy: the second reply
\* does not come before bind has returned, with the first one's bytes.
RemoteConnects ==
    /\ srv = "bound" /\ pc \notin {"reply1", "addr1"}
    /\ SendReply(2, "relay")

PeerSends ==
    /\ srv = "relay" /\ cmd # UDP_ASSOCIATE /\ (early \/ wrote)
    /\ relayed < MaxPayload
    /\ relayed' = relayed + 1
    /\ rx' = Append(rx, Data(relayed + 1))
    /\ UNCHANGED <<ClientVars, srv, chosen, status, granted>>

ProxyCloses ==
    /\ srv # "closed" /\ srv' = "closed"
    /\ UNCHANGED <<ClientVars, rx, chosen, status, granted, relayed>>

Proxy == SelectMethod \/ CheckPassword \/ Grant \/ RemoteConnects

Next == Client \/ User \/ IoError \/ Proxy \/ PeerSends \/ ProxyCloses

Spec == Init /\ [][Next]_vars

\* The client's thread runs; the proxy (and the remote process a BIND waits
\* for) answers or closes.  The code has no timeout, so the second conjunct
\* is all that ever ends a call.
FairSpec == Spec /\ WF_vars(Client) /\ WF_vars(Proxy)
-----------------------------------------------------------------------------
(***************************************************************************)
(* Properties.                                                             *)
(***************************************************************************)

\* Every variable has its type.
TypeOK ==
    /\ cmd \in Commands /\ auth \in Auths /\ target \in Targets /\ early \in EarlyPeers
    /\ pc \in Waiting \cup Returned \cup {"start", "udp"}
    /\ err \in {"none", "InvalidData", "InvalidInput", "Other", "PermissionDenied",
                "UnexpectedEof", "Io"}
    /\ sent \subseteq Packets
    /\ rx \in Seq(Units) /\ rbuf \in Seq(Units) /\ got \in Seq(Units)
    /\ proxyAddr \in Nat /\ wrote \in BOOLEAN
    /\ srv \in {"greeting", "auth", "request", "bound", "relay", "closed"}
    /\ chosen \in Byte \cup {NoMethod} /\ status \in Byte \cup {NoMethod}
    /\ granted \in 0..2 /\ relayed \in 0..MaxPayload

\* connect_raw asks the proxy for anything only after the two have agreed: the
\* proxy selected a method the client had offered, and if that was the
\* password method, it has accepted the password.  The credentials leave the
\* client only when the proxy selected that method.
Authorised ==
    /\ Request \in sent => /\ chosen \in Offered(auth)
                           /\ chosen = 2 => Password \in sent /\ status = 0
    /\ Password \in sent => auth.kind = "Password" /\ chosen = 2

\* The packets the client builds fit the fixed arrays they are built in, and
\* the length bytes (`as u8') say the length of what follows them.
FramesFit ==
    /\ Request \in sent => /\ HeaderLen(target) <= HEADER
                           /\ Request.b = target.len
    /\ Password \in sent => /\ 3 + auth.user + auth.pass <= PASSWORD_PACKET_LEN
                            /\ Password.a = auth.user /\ Password.b = auth.pass
                            /\ Password.a > 0 /\ Password.b > 0

\* A call returns Ok only for a reply that granted it, and hands out that
\* reply's address: a listener or an association carries the first reply's,
\* a stream from accept the second's (accept overwrites proxy_addr).
SuccessIsGranted ==
    /\ pc \in {"bound", "reply2", "addr2"} => proxyAddr = 1 /\ granted >= 1
    /\ pc \in {"udp", "assoc"} => proxyAddr = 1 /\ granted = 1
    /\ pc = "stream" => proxyAddr = granted /\ granted = IF cmd = BIND THEN 2 ELSE 1

\* What the user of a Socks5Stream reads is what the far end sent, from the
\* first byte on.
StreamIntact ==
    pc = "stream" => \A i \in 1..Len(got) : got[i] = Data(i)

\* Of what the far end sent nothing is duplicated or reordered, no protocol
\* byte leaks into it, and what the stream cannot deliver is a prefix no
\* longer than the BufReader of read_response beside the reply itself; there
\* is no such prefix when the far end waits for the client to write.
OnlyPrefixLost ==
    pc = "stream" =>
      LET pending == got \o rx
          lost == relayed - Len(pending)
      IN  /\ lost \in 0..(IF early THEN BufCap - 1 ELSE 0)
          /\ \A i \in 1..Len(pending) : pending[i] = Data(lost + i)

\* The tunnel the client's user sees.
Phase == CASE pc = "stream" -> "open"
           [] pc \in {"failed", "closed"} -> "closed"
           [] OTHER -> "idle"

T == INSTANCE Tunnel WITH
        MaxLost <- BufCap - 1,
        phase <- Phase,
        eager <- early,
        sentN <- relayed,
        lost  <- IF pc = "stream" THEN relayed - Len(got \o rx) ELSE 0,
        out   <- [i \in 1..Len(got) |-> got[i].val]

\* The handshake, with its buffers, authentication and errors, implements the
\* tunnel: whatever step the client, its user, the proxy or the far end takes
\* is a step of Tunnel or invisible there.
ImplementsTunnel == T!Spec

\* connect, bind and accept return, with a stream or with an error, as soon as
\* the proxy answers or closes at every step.
CallReturns == pc \notin Returned ~> pc \in Returned
=============================================================================
