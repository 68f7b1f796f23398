---------------------------- MODULE Socks5Codec -----------------------------
(***************************************************************************)
(* The SOCKS5 messages of tache/src/protocol/socks/socks5.rs as bytes: one *)
(* side writes the messages of its direction with write_to, the other      *)
(* reads them with read_from, over a stream that may be cut short and may  *)
(* carry a byte nobody of the two wrote.                                   *)
(***************************************************************************)
EXTENDS Integers, Sequences

CONSTANTS
    Ip4,           \* IPv4 addresses, as bytes
    Ip6,           \* IPv6 addresses, as segments
    Names,         \* domain names, as bytes
    Ports,         \* port numbers
    MethodLists,   \* the methods of a handshake request
    Methods,       \* the method of a handshake response
    Replies,       \* Reply as its number: as_u8 and from_u8 name 0..8 and keep the others
    Frags,         \* fragment numbers of a datagram
    Payload,       \* what a writer sends after its messages
    Noise,         \* bytes the stream may carry instead of what was written
    Places,        \* where it may carry them
    Cuts           \* how many bytes may arrive of a stream that breaks

Byte == 0..255
Words == 0..65535
Ascii == 0..127

ASSUME AddressAssumption ==
    /\ \A ip \in Ip4 : ip \in Seq(Byte) /\ Len(ip) = 4
    /\ \A ip \in Ip6 : ip \in Seq(Words) /\ Len(ip) = 8
    /\ Names \subseteq Seq(Ascii) /\ Ports \subseteq Words
ASSUME MessageAssumption ==
    /\ \A l \in MethodLists : l \in Seq(Byte) /\ Len(l) <= 255
    /\ Methods \subseteq Byte /\ Replies \subseteq Byte /\ Frags \subseteq Byte
ASSUME StreamAssumption ==
    /\ Payload \in Seq(Byte) /\ Noise \subseteq Byte
    /\ Places \subseteq Nat \ {0} /\ Cuts \subseteq Nat

VARIABLES
    dir,      \* which way this stream goes
    written,  \* messages write_to has written
    wire,     \* bytes written and not read
    read,     \* messages read_from has returned
    raw,      \* the bytes the last of them was read from
    err,      \* the error read_from has returned
    writer,   \* "up", or "panicked"
    payload,  \* has the writer gone on to payload?
    ended,    \* no more bytes come: the writer closed, or the connection broke
    damaged   \* "no", "cut" or "noise": what happened to the bytes on their way

vars == <<dir, written, wire, read, raw, err, writer, payload, ended, damaged>>
-----------------------------------------------------------------------------
\* Bytes.

Front(s, n) == SubSeq(s, 1, n)
Back(s, n) == SubSeq(s, n + 1, Len(s))      \* what follows the first n bytes

put_u16_be(n) == <<n \div 256, n % 256>>
get_u16_be(s, i) == 256 * s[i] + s[i + 1]

\* Addresses.  Names are ASCII in memory; on the wire a byte above 127 between
\* ASCII bytes is what String::from_utf8 rejects.
Addresses ==
    [kind : {"V4"}, ip : Ip4, port : Ports]
    \cup [kind : {"V6"}, ip : Ip6, port : Ports]
    \cup [kind : {"Domain"}, name : Names, port : Ports]

write_ipv4_address(a) == <<1>> \o a.ip \o put_u16_be(a.port)

write_ipv6_address(a) ==
    <<4>> \o [i \in 1..16 |-> put_u16_be(a.ip[(i + 1) \div 2])[2 - (i % 2)]]
    \o put_u16_be(a.port)

write_domain_name_address(a) ==
    <<3, Len(a.name) % 256>> \o a.name \o put_u16_be(a.port)

write_address(a) == CASE a.kind = "V4" -> write_ipv4_address(a)
                      [] a.kind = "V6" -> write_ipv6_address(a)
                      [] a.kind = "Domain" -> write_domain_name_address(a)

\* Mutant: the length byte of a name is forgotten.
get_addr_len_short(a) == CASE a.kind = "V4" -> 1 + 4 + 2
                           [] a.kind = "V6" -> 1 + 8 * 2 + 2
                           [] a.kind = "Domain" -> 1 + Len(a.name) + 2

get_addr_len(a) == CASE a.kind = "V4" -> 1 + 4 + 2
                     [] a.kind = "V6" -> 1 + 8 * 2 + 2
                     [] a.kind = "Domain" -> 1 + 1 + Len(a.name) + 2

\* write_domain_name_address asserts that the length of the name is a u8.
Asserts(a) == a.kind = "Domain" => Len(a.name) <= 255

\* Outcomes of a read: a value and the bytes it took, too few bytes, an error.
Value(v, n) == [res |-> "ok", val |-> v, used |-> n]
Short == [res |-> "short"]
Error(kind) == [res |-> kind]

\* Mutant: the name is taken without a look at its encoding.
read_domain_unchecked(s) ==
    IF Len(s) < 2 \/ Len(s) < 2 + s[2] + 2 THEN Short
    ELSE Value([kind |-> "Domain", name |-> SubSeq(s, 3, 2 + s[2]),
                port |-> get_u16_be(s, 3 + s[2])], 2 + s[2] + 2)

read_domain(s) ==
    IF Len(s) < 2 \/ Len(s) < 2 + s[2] + 2 THEN Short
    ELSE IF \E i \in 3..(2 + s[2]) : s[i] >= 128 THEN Error("GeneralFailure")
    ELSE Value([kind |-> "Domain", name |-> SubSeq(s, 3, 2 + s[2]),
                port |-> get_u16_be(s, 3 + s[2])], 2 + s[2] + 2)

\* Mutants: the port is read little-endian; the buffer is a byte too long.
read_ipv4_swapped(s) ==
    IF Len(s) < 7 THEN Short
    ELSE Value([kind |-> "V4", ip |-> SubSeq(s, 2, 5), port |-> s[6] + 256 * s[7]], 7)

read_ipv4_reads_on(s) ==
    IF Len(s) < 8 THEN Short
    ELSE Value([kind |-> "V4", ip |-> SubSeq(s, 2, 5), port |-> get_u16_be(s, 6)], 8)

read_ipv4(s) ==
    IF Len(s) < 7 THEN Short
    ELSE Value([kind |-> "V4", ip |-> SubSeq(s, 2, 5), port |-> get_u16_be(s, 6)], 7)

read_ipv6(s) ==
    IF Len(s) < 19 THEN Short
    ELSE Value([kind |-> "V6", ip |-> [i \in 1..8 |-> get_u16_be(s, 2 * i)],
                port |-> get_u16_be(s, 18)], 19)

\* Address::read_from
read_address(s) ==
    CASE Len(s) < 1 -> Short
      [] Len(s) >= 1 /\ s[1] = 1 -> read_ipv4(s)
      [] Len(s) >= 1 /\ s[1] = 4 -> read_ipv6(s)
      [] Len(s) >= 1 /\ s[1] = 3 -> read_domain(s)
      [] Len(s) >= 1 /\ s[1] \notin {1, 3, 4} -> Error("AddressTypeNotSupported")
-----------------------------------------------------------------------------
\* Messages.

Commands == {"TcpConnect", "TcpBind", "UdpAssociate"}
Command_as_u8(c) == CASE c = "TcpConnect" -> 1 [] c = "TcpBind" -> 2 [] c = "UdpAssociate" -> 3
Command_from_u8(n) == CHOOSE c \in Commands : Command_as_u8(c) = n

Messages(type) ==
    CASE type = "HandshakeRequest" ->
            [type : {type}, methods : MethodLists]
      [] type = "HandshakeResponse" -> [type : {type}, method : Methods]
      [] type = "TcpRequestHeader" -> [type : {type}, command : Commands, address : Addresses]
      [] type = "TcpResponseHeader" -> [type : {type}, reply : Replies, address : Addresses]
      [] type = "UdpAssociateHeader" -> [type : {type}, frag : Frags, address : Addresses]

write_to_buf(m) ==
    CASE m.type = "HandshakeRequest" -> <<5, Len(m.methods) % 256>> \o m.methods
      [] m.type = "HandshakeResponse" -> <<5, m.method>>
      [] m.type = "TcpRequestHeader" ->
            <<5, Command_as_u8(m.command), 0>> \o write_address(m.address)
      [] m.type = "TcpResponseHeader" -> <<5, m.reply, 0>> \o write_address(m.address)
      [] m.type = "UdpAssociateHeader" -> <<0, 0, m.frag>> \o write_address(m.address)

serialized_len(m) ==
    CASE m.type = "HandshakeRequest" -> 2 + Len(m.methods)
      [] m.type = "HandshakeResponse" -> 2
      [] m.type \notin {"HandshakeRequest", "HandshakeResponse"} -> 3 + get_addr_len(m.address)

HandshakeRequest_read(s) ==
    IF Len(s) < 2 THEN Short
    ELSE IF s[1] # 5 THEN Error("Other")
    ELSE IF Len(s) < 2 + s[2] THEN Short
    ELSE Value([type |-> "HandshakeRequest", methods |-> SubSeq(s, 3, 2 + s[2])], 2 + s[2])

HandshakeResponse_read(s) ==
    IF Len(s) < 2 THEN Short
    ELSE IF s[1] # 5 THEN Error("Other")
    ELSE Value([type |-> "HandshakeResponse", method |-> s[2]], 2)

\* Three bytes and then an address: Make builds the message from both.
WithAddress(s, Make(_)) ==
    LET r == read_address(Back(s, 3)) IN
    IF r.res = "ok" THEN Value(Make(r.val), 3 + r.used) ELSE r

TcpRequestHeader_read(s) ==
    IF Len(s) < 3 THEN Short
    ELSE IF s[1] # 5 THEN Error("ConnectionRefused")
    ELSE IF s[2] \notin 1..3 THEN Error("CommandNotSupported")
    ELSE WithAddress(s, LAMBDA a : [type |-> "TcpRequestHeader",
                                    command |-> Command_from_u8(s[2]), address |-> a])

\* Mutant: a reply that has no name becomes a general failure.
TcpResponseHeader_read_folds(s) ==
    IF Len(s) < 3 THEN Short
    ELSE IF s[1] # 5 THEN Error("ConnectionRefused")
    ELSE WithAddress(s, LAMBDA a : [type |-> "TcpResponseHeader",
                                    reply |-> IF s[2] <= 8 THEN s[2] ELSE 1, address |-> a])

TcpResponseHeader_read(s) ==
    IF Len(s) < 3 THEN Short
    ELSE IF s[1] # 5 THEN Error("ConnectionRefused")
    ELSE WithAddress(s, LAMBDA a : [type |-> "TcpResponseHeader", reply |-> s[2], address |-> a])

UdpAssociateHeader_read(s) ==
    IF Len(s) < 3 THEN Short
    ELSE WithAddress(s, LAMBDA a : [type |-> "UdpAssociateHeader", frag |-> s[3], address |-> a])

read_from(type, s) ==
    CASE type = "HandshakeRequest" -> HandshakeRequest_read(s)
      [] type = "HandshakeResponse" -> HandshakeResponse_read(s)
      [] type = "TcpRequestHeader" -> TcpRequestHeader_read(s)
      [] type = "TcpResponseHeader" -> TcpResponseHeader_read(s)
      [] type = "UdpAssociateHeader" -> UdpAssociateHeader_read(s)
-----------------------------------------------------------------------------
\* What goes over a stream in each direction before the payload.
Script(d) == CASE d = "request" -> <<"HandshakeRequest", "TcpRequestHeader">>
               [] d = "response" -> <<"HandshakeResponse", "TcpResponseHeader">>
               [] d = "datagram" -> <<"UdpAssociateHeader">>

Init ==
    /\ dir \in {"request", "response", "datagram"}
    /\ written = <<>> /\ wire = <<>> /\ read = <<>> /\ raw = <<>>
    /\ err = "none" /\ writer = "up" /\ payload = FALSE /\ ended = FALSE /\ damaged = "no"

\* write_to: a buffer of serialized_len bytes, filled by write_to_buf, which
\* panics when the name is too long for its assertion or the buffer for it.
Outcome(m) ==
    IF "address" \in DOMAIN m /\ ~Asserts(m.address) THEN "panicked"
    ELSE IF Len(write_to_buf(m)) > serialized_len(m) THEN "overfull"
    ELSE "up"

Write ==
    /\ writer = "up" /\ ~ended /\ Len(written) < Len(Script(dir))
    /\ \E m \in Messages(Script(dir)[Len(written) + 1]) :
          /\ writer' = Outcome(m) /\ ended' = (Outcome(m) # "up")
          /\ written' = IF Outcome(m) = "up" THEN Append(written, m) ELSE written
          /\ wire' = IF Outcome(m) = "up" THEN wire \o write_to_buf(m) ELSE wire
    /\ UNCHANGED <<dir, read, raw, err, payload, damaged>>

\* Mutant: the end of the stream is taken for bytes that have not come yet.
ReadIgnoresEnd ==
    /\ err = "none" /\ Len(read) < Len(Script(dir))
    /\ LET r == read_from(Script(dir)[Len(read) + 1], wire) IN
       /\ r.res = "ok"
       /\ read' = Append(read, r.val) /\ raw' = Front(wire, r.used)
       /\ wire' = Back(wire, r.used) /\ err' = err
    /\ UNCHANGED <<dir, written, writer, payload, ended, damaged>>

\* read_from: waits until the bytes are there or the stream has ended.
Read ==
    /\ err = "none" /\ Len(read) < Len(Script(dir))
    /\ LET r == read_from(Script(dir)[Len(read) + 1], wire) IN
       \/ /\ r.res = "ok"
          /\ read' = Append(read, r.val) /\ raw' = Front(wire, r.used)
          /\ wire' = Back(wire, r.used) /\ err' = err
       \/ /\ r.res = "short" /\ ended
          /\ err' = "eof" /\ UNCHANGED <<read, raw, wire>>
       \/ /\ r.res \notin {"ok", "short"}
          /\ err' = r.res /\ UNCHANGED <<read, raw, wire>>
    /\ UNCHANGED <<dir, written, writer, payload, ended, damaged>>

\* The user of the writer goes on to its payload (external).
WritePayload ==
    /\ writer = "up" /\ ~ended /\ ~payload /\ Len(written) = Len(Script(dir))
    /\ payload' = TRUE /\ wire' = wire \o Payload
    /\ UNCHANGED <<dir, written, read, raw, err, writer, ended, damaged>>

\* The stream ends, with or without the loss of its last bytes (external).
End ==
    /\ ~ended /\ ended' = TRUE
    /\ \/ UNCHANGED <<wire, damaged>>
       \/ /\ damaged = "no" /\ damaged' = "cut"
          /\ \E n \in Cuts \cup {Len(wire) - 1} : 0 <= n /\ n < Len(wire) /\ wire' = Front(wire, n)
    /\ UNCHANGED <<dir, written, read, raw, err, writer, payload>>

\* One of the next bytes is another (external): the peer speaks differently.
Garble ==
    /\ damaged = "no" /\ damaged' = "noise"
    /\ \E p \in Places, b \in Noise : p <= Len(wire) /\ wire' = [wire EXCEPT ![p] = b]
    /\ UNCHANGED <<dir, written, read, raw, err, writer, payload, ended>>

Next == Write \/ Read \/ WritePayload \/ End \/ Garble

Spec == Init /\ [][Next]_vars

\* The reading task runs.
FairSpec == Spec /\ WF_vars(Read)
-----------------------------------------------------------------------------
(***************************************************************************)
(* Properties.                                                             *)
(***************************************************************************)

\* A domain name in memory is a String, which is text.
HasText(m) ==
    "address" \in DOMAIN m /\ m.address.kind = "Domain" =>
       \A i \in 1..Len(m.address.name) : m.address.name[i] \in Ascii

\* Every variable has its type; the stream carries bytes, and a name that was
\* read from it is text, whatever it carries.
TypeOK ==
    /\ dir \in {"request", "response", "datagram"}
    /\ \A i \in 1..Len(wire) : wire[i] \in Byte
    /\ \A i \in 1..Len(written) : written[i] \in Messages(Script(dir)[i])
    /\ Len(read) <= Len(Script(dir)) /\ \A i \in 1..Len(read) : HasText(read[i])
    /\ writer \in {"up", "panicked", "overfull"}
    /\ payload \in BOOLEAN /\ ended \in BOOLEAN /\ damaged \in {"no", "cut", "noise"}

\* The reader gets the messages that were written, in order, each as it was:
\* over an undamaged stream all of them (it never reports an error but for a
\* writer that stopped early), over one that was cut a prefix of them.
InSync ==
    damaged # "noise" =>
       /\ Len(read) <= Len(written) /\ \A i \in 1..Len(read) : read[i] = written[i]
       /\ damaged = "no" /\ err # "none" =>
             err = "eof" /\ ended /\ Len(read) = Len(written) /\ wire = <<>>

\* Having read its messages, the reader has taken no byte of what follows.
PayloadUntouched ==
    damaged = "no" /\ Len(read) = Len(Script(dir)) =>
       wire = IF payload THEN Payload ELSE <<>>

\* Whatever the stream carries, a message read_from accepts stands for the
\* bytes it was read from: write_to would produce as many, and the same but for
\* the reserved ones, which read_from does not look at.
ReadStandsForBytes ==
    read # <<>> =>
       LET m == read[Len(read)]
           again == write_to_buf(m)
           reserved == CASE m.type = "UdpAssociateHeader" -> {1, 2}
                         [] m.type \in {"TcpRequestHeader", "TcpResponseHeader"} -> {3}
                         [] m.type \in {"HandshakeRequest", "HandshakeResponse"} -> {}
       IN  /\ Len(raw) = serialized_len(m) /\ Len(again) = Len(raw)
           /\ \A i \in 1..Len(raw) : i \in reserved \/ again[i] = raw[i]

\* The buffers of write_to are never too small: the only panic of a writer is
\* the assertion on the length of a name.
BuffersSuffice == writer # "overfull"

\* Once the stream has ended, the reader has all its messages or an error.
ReaderDecides == ended ~> (err # "none" \/ Len(read) = Len(Script(dir)))
=============================================================================
