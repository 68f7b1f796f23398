------------------------- MODULE Socks5CodecProofs --------------------------
(***************************************************************************)
(* Proofs about Socks5Codec.  The first part is about the conversions      *)
(* alone: what write_address and write_to_buf produce, that read_from      *)
(* gives it back from any stream that begins with it, waits for more of    *)
(* any stream that only begins like it, and that what read_from accepts is *)
(* what write_to would write.  The second part is about the stream.        *)
(***************************************************************************)
EXTENDS Socks5Codec, TLAPS

Hi(n) == n \div 256
Lo(n) == n % 256

LEMMA Bytes == \A x : x \in Byte <=> x \in Int /\ 0 <= x /\ x <= 255
BY DEF Byte

LEMMA AsciiAre == \A x : x \in Ascii <=> x \in Int /\ 0 <= x /\ x <= 127
BY DEF Ascii

LEMMA AsciiBytes ==
    ASSUME NEW s \in Seq(Ascii)
    PROVE  s \in Seq(Byte) /\ \A i \in 1..Len(s) : s[i] \in Int /\ s[i] < 128
<1>1. Ascii \subseteq Byte
  BY AsciiAre, Bytes
<1>2. \A i \in 1..Len(s) : s[i] \in Ascii
  OBVIOUS
<1> QED BY <1>1, <1>2, AsciiAre

LEMMA WordsAre == \A x : x \in Words <=> x \in Int /\ 0 <= x /\ x <= 65535
<1> DEFINE n == 65535
<1>1. n \in Nat /\ Words = 0..n
  BY DEF Words
<1>2. n = 65535
  OBVIOUS
<1> HIDE DEF n
<1>3. \A x : x \in Words <=> x \in Int /\ 0 <= x /\ x <= n
  BY <1>1
<1> QED BY <1>2, <1>3

\* A port is two bytes, and get_u16_be puts them together again.
LEMMA TwoBytes ==
    ASSUME NEW n \in Words
    PROVE  /\ put_u16_be(n) \in Seq(Byte) /\ Len(put_u16_be(n)) = 2
           /\ put_u16_be(n)[1] = Hi(n) /\ put_u16_be(n)[2] = Lo(n)
           /\ Hi(n) \in Byte /\ Lo(n) \in Byte
           /\ 256 * Hi(n) + Lo(n) = n
<1>1. n \in Int /\ 0 <= n /\ n <= 65535
  BY WordsAre
<1>2. /\ Hi(n) \in Int /\ 0 <= Hi(n) /\ Hi(n) <= 255
      /\ Lo(n) \in Int /\ 0 <= Lo(n) /\ Lo(n) <= 255
      /\ 256 * Hi(n) + Lo(n) = n
  BY <1>1 DEF Hi, Lo
<1>3. put_u16_be(n) = <<Hi(n), Lo(n)>>
  BY DEF put_u16_be, Hi, Lo
<1>4. Hi(n) \in Byte /\ Lo(n) \in Byte
  BY <1>2, Bytes
<1> QED BY <1>2, <1>3, <1>4

\* Two bytes are a word, and put_u16_be takes it apart again.
LEMMA OneWord ==
    ASSUME NEW hi \in Byte, NEW lo \in Byte
    PROVE  /\ 256 * hi + lo \in Words
           /\ Hi(256 * hi + lo) = hi /\ Lo(256 * hi + lo) = lo
<1>1. hi \in Int /\ 0 <= hi /\ hi <= 255 /\ lo \in Int /\ 0 <= lo /\ lo <= 255
  BY Bytes
<1>2. 256 * hi + lo \in Int /\ 0 <= 256 * hi + lo /\ 256 * hi + lo <= 65535
  BY <1>1
<1>3. Hi(256 * hi + lo) = hi /\ Lo(256 * hi + lo) = lo
  BY <1>1 DEF Hi, Lo
<1> QED BY <1>2, <1>3, WordsAre

\* w is h, v and p in a row.
Parts(w, h, v, p) ==
    /\ w \in Seq(Byte) /\ Len(w) = Len(h) + Len(v) + Len(p)
    /\ \A i \in 1..Len(h) : w[i] = h[i]
    /\ \A i \in 1..Len(v) : w[i + Len(h)] = v[i]
    /\ \A i \in 1..Len(p) : w[i + Len(h) + Len(v)] = p[i]

LEMMA Tuples ==
    ASSUME NEW S, NEW n \in Nat, NEW f \in [1..n -> S]
    PROVE  f \in Seq(S) /\ Len(f) = n
OBVIOUS

LEMMA JoinedThree ==
    ASSUME NEW h \in Seq(Byte), NEW v \in Seq(Byte), NEW p \in Seq(Byte)
    PROVE  Parts(h \o v \o p, h, v, p)
BY DEF Parts

\* The bytes of an address: what comes first, its body, its port.
Layout(w, h, v, n) ==
    /\ w \in Seq(Byte) /\ Len(w) = Len(h) + Len(v) + 2
    /\ \A i \in 1..Len(h) : w[i] = h[i]
    /\ \A i \in 1..Len(v) : w[i + Len(h)] = v[i]
    /\ w[1 + Len(h) + Len(v)] = Hi(n) /\ w[2 + Len(h) + Len(v)] = Lo(n)

LEMMA WritesLayout ==
    ASSUME NEW h \in Seq(Byte), NEW v \in Seq(Byte), NEW n \in Words
    PROVE  Layout(h \o v \o put_u16_be(n), h, v, n)
<1> DEFINE p == put_u16_be(n)
           w == h \o v \o p
<1>1. p \in Seq(Byte) /\ Len(p) = 2 /\ p[1] = Hi(n) /\ p[2] = Lo(n)
  BY TwoBytes
<1> HIDE DEF p
<1>2. Parts(w, h, v, p)
  BY <1>1, JoinedThree
<1> HIDE DEF w
<1>3. 1 \in 1..Len(p) /\ 2 \in 1..Len(p)
  BY ONLY <1>1
<1>4. Layout(w, h, v, n)
  BY ONLY <1>1, <1>2, <1>3 DEF Parts, Layout
<1> QED BY <1>4 DEF p, w

LEMMA WritesIpv4 ==
    ASSUME NEW a, a.kind = "V4", a.ip \in Seq(Byte), Len(a.ip) = 4, a.port \in Words
    PROVE  LET w == write_address(a) IN
           /\ w \in Seq(Byte) /\ Len(w) = 7 /\ get_addr_len(a) = 7
           /\ w[1] = 1 /\ \A i \in 1..4 : w[i + 1] = a.ip[i]
           /\ w[6] = Hi(a.port) /\ w[7] = Lo(a.port)
<1> DEFINE w == write_address(a)
           h == <<1>>
<1>1. 1 \in Byte
  BY Bytes
<1>2. h \in Seq(Byte) /\ Len(h) = 1 /\ h[1] = 1
  BY <1>1
<1>3. w = h \o a.ip \o put_u16_be(a.port)
  BY DEF write_address, write_ipv4_address
<1>4. get_addr_len(a) = 7
  BY DEF get_addr_len
<1> HIDE DEF w, h
<1>5. Layout(w, h, a.ip, a.port)
  BY <1>2, <1>3, WritesLayout
<1>6. /\ w \in Seq(Byte) /\ Len(w) = 7 /\ w[1] = 1 /\ \A i \in 1..4 : w[i + 1] = a.ip[i]
      /\ w[6] = Hi(a.port) /\ w[7] = Lo(a.port)
  BY <1>2, <1>5 DEF Layout
<1> QED BY <1>4, <1>6 DEF w

LEMMA WritesIpv6 ==
    ASSUME NEW a, a.kind = "V6", a.ip \in Seq(Words), Len(a.ip) = 8, a.port \in Words
    PROVE  LET w == write_address(a) IN
           /\ w \in Seq(Byte) /\ Len(w) = 19 /\ get_addr_len(a) = 19
           /\ w[1] = 4 /\ \A i \in 1..8 : w[2 * i] = Hi(a.ip[i]) /\ w[2 * i + 1] = Lo(a.ip[i])
           /\ w[18] = Hi(a.port) /\ w[19] = Lo(a.port)
<1> DEFINE w == write_address(a)
           h == <<4>>
           v == [i \in 1..16 |-> put_u16_be(a.ip[(i + 1) \div 2])[2 - (i % 2)]]
<1>1. 4 \in Byte
  BY Bytes
<1>2. h \in Seq(Byte) /\ Len(h) = 1 /\ h[1] = 4
  BY <1>1
<1>3. w = h \o v \o put_u16_be(a.port)
  BY DEF write_address, write_ipv6_address
<1>4. get_addr_len(a) = 19
  BY DEF get_addr_len
<1>5. \A j \in 1..8 : /\ put_u16_be(a.ip[j])[1] = Hi(a.ip[j]) /\ Hi(a.ip[j]) \in Byte
                      /\ put_u16_be(a.ip[j])[2] = Lo(a.ip[j]) /\ Lo(a.ip[j]) \in Byte
  <2>1. \A j \in 1..8 : a.ip[j] \in Words
    OBVIOUS
  <2> QED BY <2>1, TwoBytes
<1>6. ASSUME NEW i \in 1..16 PROVE put_u16_be(a.ip[(i + 1) \div 2])[2 - (i % 2)] \in Byte
  <2>1. (i + 1) \div 2 \in 1..8 /\ 2 - (i % 2) \in {1, 2}
    OBVIOUS
  <2> QED BY <1>5, <2>1
<1>7. v \in [1..16 -> Byte]
  BY <1>6
<1>8. ASSUME NEW j \in 1..8
      PROVE  /\ v[2 * j - 1] = Hi(a.ip[j]) /\ v[2 * j] = Lo(a.ip[j])
             /\ 2 * j - 1 \in 1..16 /\ 2 * j \in 1..16
  <2>1. /\ 2 * j - 1 \in 1..16 /\ ((2 * j - 1) + 1) \div 2 = j /\ 2 - ((2 * j - 1) % 2) = 1
        /\ 2 * j \in 1..16 /\ (2 * j + 1) \div 2 = j /\ 2 - ((2 * j) % 2) = 2
    OBVIOUS
  <2> QED BY <1>5, <2>1
<1> HIDE DEF w, h, v
<1>9. v \in Seq(Byte) /\ Len(v) = 16
  <2> DEFINE n == 16
  <2>1. n \in Nat /\ v \in [1..n -> Byte]
    BY <1>7
  <2>2. n = 16
    OBVIOUS
  <2> HIDE DEF n
  <2>3. v \in Seq(Byte) /\ Len(v) = n
    BY <2>1, Tuples
  <2> QED BY <2>2, <2>3
<1>10. Layout(w, h, v, a.port)
  BY <1>2, <1>3, <1>9, WritesLayout
<1>11. /\ w \in Seq(Byte) /\ Len(w) = 19 /\ w[1] = 4 /\ \A i \in 1..16 : w[i + 1] = v[i]
       /\ w[18] = Hi(a.port) /\ w[19] = Lo(a.port)
  BY <1>2, <1>9, <1>10 DEF Layout
<1>12. ASSUME NEW i \in 1..8
       PROVE  w[2 * i] = Hi(a.ip[i]) /\ w[2 * i + 1] = Lo(a.ip[i])
  <2>1. (2 * i - 1) + 1 = 2 * i
    OBVIOUS
  <2> QED BY <1>8, <1>11, <2>1
<1> QED BY <1>4, <1>11, <1>12 DEF w

LEMMA WritesDomain ==
    ASSUME NEW a, a.kind = "Domain", a.name \in Seq(Ascii), Len(a.name) <= 255,
           a.port \in Words
    PROVE  LET w == write_address(a)
               n == Len(a.name) IN
           /\ w \in Seq(Byte) /\ Len(w) = n + 4 /\ get_addr_len(a) = n + 4
           /\ w[1] = 3 /\ w[2] = n /\ \A i \in 1..n : w[i + 2] = a.name[i]
           /\ w[n + 3] = Hi(a.port) /\ w[n + 4] = Lo(a.port)
<1> DEFINE w == write_address(a)
           n == Len(a.name)
           h == <<3, n % 256>>
<1>a. n \in Nat
  OBVIOUS
<1> HIDE DEF n
<1>b. n <= 255
  BY DEF n
<1>1. 3 \in Byte /\ n \in Byte /\ n % 256 = n
  BY ONLY <1>a, <1>b, Bytes
<1>2. h \in Seq(Byte) /\ Len(h) = 2 /\ h[1] = 3 /\ h[2] = n
  BY ONLY <1>1
<1>3. w = h \o a.name \o put_u16_be(a.port)
  BY DEF write_address, write_domain_name_address, n
<1>4. get_addr_len(a) = n + 4
  BY <1>a DEF get_addr_len, n
<1>5. a.name \in Seq(Byte)
  BY AsciiBytes
<1> HIDE DEF w, h
<1>6. Layout(w, h, a.name, a.port)
  BY <1>2, <1>3, <1>5, WritesLayout
<1>7. /\ w \in Seq(Byte) /\ Len(w) = n + 4 /\ w[1] = 3 /\ w[2] = n
      /\ \A i \in 1..n : w[i + 2] = a.name[i]
      /\ w[n + 3] = Hi(a.port) /\ w[n + 4] = Lo(a.port)
  BY <1>a, <1>2, <1>6 DEF Layout, n
<1> QED BY <1>4, <1>7 DEF w, n

\* Equal sequences.
LEMMA SameSeq ==
    ASSUME NEW S, NEW s \in Seq(S), NEW t \in Seq(S), Len(s) = Len(t),
           \A i \in 1..Len(s) : s[i] = t[i]
    PROVE  s = t
OBVIOUS

\* An address of the wire format, whatever the constants are: what read_from
\* can return, and what write_to does not refuse.
WireV4(a) ==
    /\ a = [kind |-> "V4", ip |-> a.ip, port |-> a.port]
    /\ a.ip \in Seq(Byte) /\ Len(a.ip) = 4 /\ a.port \in Words
WireV6(a) ==
    /\ a = [kind |-> "V6", ip |-> a.ip, port |-> a.port]
    /\ a.ip \in Seq(Words) /\ Len(a.ip) = 8 /\ a.port \in Words
WireDomain(a) ==
    /\ a = [kind |-> "Domain", name |-> a.name, port |-> a.port]
    /\ a.name \in Seq(Ascii) /\ Len(a.name) <= 255 /\ a.port \in Words
WireAddress(a) == WireV4(a) \/ WireV6(a) \/ WireDomain(a)

\* s and t are the same as far as both go.
Agree(s, t) == \A i \in 1..Len(s) : i <= Len(t) => s[i] = t[i]

\* A reader that finds v at the beginning of s, n bytes long, waits for them.
Finds(r, s, v, n) == r = IF Len(s) < n THEN Short ELSE Value(v, n)

\* Address::read_from looks at the first byte.
LEMMA ByType ==
    ASSUME NEW s \in Seq(Byte)
    PROVE  /\ Len(s) \in Nat
           /\ Len(s) < 1 => read_address(s) = Short
           /\ Len(s) >= 1 /\ s[1] = 1 => read_address(s) = read_ipv4(s)
           /\ Len(s) >= 1 /\ s[1] = 4 => read_address(s) = read_ipv6(s)
           /\ Len(s) >= 1 /\ s[1] = 3 => read_address(s) = read_domain(s)
           /\ Len(s) >= 1 /\ s[1] \notin {1, 3, 4} =>
                 read_address(s) = Error("AddressTypeNotSupported")
BY DEF read_address

LEMMA FindsIpv4 ==
    ASSUME NEW a, WireV4(a), NEW s \in Seq(Byte), Agree(s, write_address(a))
    PROVE  Finds(read_address(s), s, a, get_addr_len(a))
<1> DEFINE w == write_address(a)
<1>1. a.kind = "V4"
  BY DEF WireV4
<1>2. a.ip \in Seq(Byte) /\ Len(a.ip) = 4 /\ a.port \in Words
  BY DEF WireV4
<1>3. /\ w \in Seq(Byte) /\ Len(w) = 7 /\ get_addr_len(a) = 7
      /\ w[1] = 1 /\ \A i \in 1..4 : w[i + 1] = a.ip[i]
      /\ w[6] = Hi(a.port) /\ w[7] = Lo(a.port)
  BY <1>1, <1>2, WritesIpv4
<1>4. 256 * Hi(a.port) + Lo(a.port) = a.port
  BY <1>2, TwoBytes
<1> HIDE DEF w
<1>5. Agree(s, w) /\ Len(s) \in Nat
  BY DEF w
<1>6. CASE Len(s) < 1
  BY <1>3, <1>6, ByType DEF Finds
<1>7. CASE Len(s) >= 1 /\ Len(s) < 7
  <2>1. s[1] = 1
    BY <1>3, <1>5, <1>7 DEF Agree
  <2> QED BY <1>3, <1>7, <2>1, ByType DEF Finds, read_ipv4
<1>8. CASE Len(s) >= 7
  <2>1. /\ s[1] = 1 /\ \A i \in 1..4 : s[i + 1] = a.ip[i]
        /\ s[6] = Hi(a.port) /\ s[7] = Lo(a.port)
    BY <1>3, <1>5, <1>8 DEF Agree
  <2>2. /\ SubSeq(s, 2, 5) \in Seq(Byte) /\ Len(SubSeq(s, 2, 5)) = 4
        /\ \A i \in 1..4 : SubSeq(s, 2, 5)[i] = s[i + 1]
    BY <1>8
  <2>3. SubSeq(s, 2, 5) = a.ip
    BY <1>2, <2>1, <2>2, SameSeq
  <2>4. get_u16_be(s, 6) = a.port
    BY <1>4, <2>1 DEF get_u16_be
  <2>5. [kind |-> "V4", ip |-> SubSeq(s, 2, 5), port |-> get_u16_be(s, 6)] = a
    BY <2>3, <2>4 DEF WireV4
  <2>6. read_address(s) = Value(a, 7)
    BY <1>8, <2>1, <2>5, ByType DEF read_ipv4
  <2> QED BY <1>3, <1>8, <2>6 DEF Finds
<1> QED BY <1>5, <1>6, <1>7, <1>8

LEMMA FindsIpv6 ==
    ASSUME NEW a, WireV6(a), NEW s \in Seq(Byte), Agree(s, write_address(a))
    PROVE  Finds(read_address(s), s, a, get_addr_len(a))
<1> DEFINE w == write_address(a)
<1>1. a.kind = "V6"
  BY DEF WireV6
<1>2. a.ip \in Seq(Words) /\ Len(a.ip) = 8 /\ a.port \in Words
  BY DEF WireV6
<1>3. /\ w \in Seq(Byte) /\ Len(w) = 19 /\ get_addr_len(a) = 19
      /\ w[1] = 4 /\ \A i \in 1..8 : w[2 * i] = Hi(a.ip[i]) /\ w[2 * i + 1] = Lo(a.ip[i])
      /\ w[18] = Hi(a.port) /\ w[19] = Lo(a.port)
  BY <1>1, <1>2, WritesIpv6
<1>4. /\ 256 * Hi(a.port) + Lo(a.port) = a.port
      /\ \A i \in 1..8 : 256 * Hi(a.ip[i]) + Lo(a.ip[i]) = a.ip[i]
  <2>1. \A i \in 1..8 : a.ip[i] \in Words
    BY <1>2
  <2> QED BY <1>2, <2>1, TwoBytes
<1> HIDE DEF w
<1>5. Agree(s, w) /\ Len(s) \in Nat
  BY DEF w
<1>6. CASE Len(s) < 1
  BY <1>3, <1>6, ByType DEF Finds
<1>7. CASE Len(s) >= 1 /\ Len(s) < 19
  <2>1. s[1] = 4
    BY <1>3, <1>5, <1>7, SMTT(30) DEF Agree
  <2> QED BY <1>3, <1>7, <2>1, ByType DEF Finds, read_ipv6
<1>8. CASE Len(s) >= 19
  <2> DEFINE ip == [i \in 1..8 |-> get_u16_be(s, 2 * i)]
  <2>1. s[1] = 4 /\ s[18] = Hi(a.port) /\ s[19] = Lo(a.port)
    <3>1. /\ 1 \in 1..Len(s) /\ 18 \in 1..Len(s) /\ 19 \in 1..Len(s)
          /\ 1 <= Len(w) /\ 18 <= Len(w) /\ 19 <= Len(w)
      BY <1>3, <1>5, <1>8, SMTT(30)
    <3>2. s[1] = w[1] /\ s[18] = w[18] /\ s[19] = w[19]
      BY ONLY <1>5, <3>1 DEF Agree
    <3> QED BY <1>3, <3>2
  <2>2. ASSUME NEW i \in 1..8 PROVE s[2 * i] = Hi(a.ip[i]) /\ s[2 * i + 1] = Lo(a.ip[i])
    <3>1. 2 * i \in 1..Len(s) /\ 2 * i <= 19 /\ 2 * i + 1 \in 1..Len(s) /\ 2 * i + 1 <= 19
      BY <1>8
    <3> QED BY <1>3, <1>5, <3>1 DEF Agree
  <2>3. \A i \in 1..8 : ip[i] = a.ip[i]
    BY <1>4, <2>2 DEF get_u16_be
  <2>4. ip = a.ip
    <3> DEFINE n == 8
    <3>1. DOMAIN ip = 1..n /\ \A i \in 1..n : ip[i] = a.ip[i]
      BY <2>3
    <3>2. Len(a.ip) = n /\ ip = [i \in DOMAIN ip |-> ip[i]]
      BY <1>2
    <3> HIDE DEF n, ip
    <3>3. DOMAIN a.ip = 1..n /\ a.ip = [i \in DOMAIN a.ip |-> a.ip[i]]
      BY <1>2, <3>2
    <3> QED BY <3>1, <3>2, <3>3
  <2>5. get_u16_be(s, 18) = a.port
    BY <1>4, <2>1 DEF get_u16_be
  <2> HIDE DEF ip
  <2>6. [kind |-> "V6", ip |-> ip, port |-> get_u16_be(s, 18)] = a
    BY <2>4, <2>5 DEF WireV6
  <2>7. read_address(s) = read_ipv6(s)
    BY <1>8, <2>1, ByType
  <2>8. read_ipv6(s) = Value([kind |-> "V6", ip |-> ip, port |-> get_u16_be(s, 18)], 19)
    BY <1>8 DEF read_ipv6, ip
  <2> QED BY <1>3, <1>8, <2>6, <2>7, <2>8 DEF Finds
<1> QED BY <1>5, <1>6, <1>7, <1>8

LEMMA FindsDomain ==
    ASSUME NEW a, WireDomain(a), NEW s \in Seq(Byte), Agree(s, write_address(a))
    PROVE  Finds(read_address(s), s, a, get_addr_len(a))
<1> DEFINE w == write_address(a)
           n == Len(a.name)
<1>1. a.kind = "Domain"
  BY DEF WireDomain
<1>2. a.name \in Seq(Ascii) /\ n \in Nat /\ n <= 255 /\ a.port \in Words
  BY DEF WireDomain
<1>3. /\ w \in Seq(Byte) /\ Len(w) = n + 4 /\ get_addr_len(a) = n + 4
      /\ w[1] = 3 /\ w[2] = n /\ \A i \in 1..n : w[i + 2] = a.name[i]
      /\ w[n + 3] = Hi(a.port) /\ w[n + 4] = Lo(a.port)
  BY <1>1, <1>2, WritesDomain
<1>4. 256 * Hi(a.port) + Lo(a.port) = a.port
  BY <1>2, TwoBytes
<1> HIDE DEF w
<1>5. Agree(s, w) /\ Len(s) \in Nat
  BY DEF w
<1>6. CASE Len(s) < 1
  BY <1>2, <1>3, <1>6, ByType DEF Finds
<1>7. CASE Len(s) >= 1 /\ Len(s) < n + 4
  <2>1. s[1] = 3 /\ (Len(s) >= 2 => s[2] = n)
    BY <1>2, <1>3, <1>5, <1>7 DEF Agree
  <2>2. read_domain(s) = Short
    BY <1>2, <1>7, <2>1 DEF read_domain
  <2> QED BY <1>3, <1>7, <2>1, <2>2, ByType DEF Finds
<1>8. CASE Len(s) >= n + 4
  <2>1. s[1] = 3 /\ s[2] = n /\ s[n + 3] = Hi(a.port) /\ s[n + 4] = Lo(a.port)
    <3>1. /\ 1 \in 1..Len(s) /\ 2 \in 1..Len(s) /\ n + 3 \in 1..Len(s) /\ n + 4 \in 1..Len(s)
          /\ 1 <= Len(w) /\ 2 <= Len(w) /\ n + 3 <= Len(w) /\ n + 4 <= Len(w)
      BY <1>2, <1>3, <1>5, <1>8
    <3>2. s[1] = w[1] /\ s[2] = w[2] /\ s[n + 3] = w[n + 3] /\ s[n + 4] = w[n + 4]
      BY ONLY <1>5, <3>1 DEF Agree
    <3> QED BY <1>3, <3>2
  <2>2. ASSUME NEW i \in 1..n PROVE s[i + 2] = a.name[i]
    <3>1. i + 2 \in 1..Len(s) /\ i + 2 <= Len(w)
      BY <1>2, <1>3, <1>5, <1>8
    <3> QED BY ONLY <1>3, <1>5, <3>1, i \in 1..n DEF Agree
  <2>3. \A i \in 3..(2 + n) : s[i] < 128
    <3>1. SUFFICES ASSUME NEW i \in 3..(2 + n) PROVE s[i] < 128
      OBVIOUS
    <3>2. i - 2 \in 1..n /\ (i - 2) + 2 = i
      BY <1>2
    <3>3. s[i] = a.name[i - 2]
      BY <2>2, <3>2
    <3>4. a.name[i - 2] \in Int /\ a.name[i - 2] < 128
      BY <1>2, <3>2, AsciiBytes
    <3> QED BY <3>3, <3>4
  <2> DEFINE v == SubSeq(s, 3, 2 + n)
  <2>4. /\ v \in Seq(Byte) /\ Len(v) = n
        /\ \A i \in 1..n : v[i] = s[i + 2]
    BY <1>2, <1>8
  <2>5. a.name \in Seq(Byte)
    BY <1>2, AsciiBytes
  <2>6. v = a.name
    <3> HIDE DEF v
    <3> QED BY <2>2, <2>4, <2>5, SameSeq
  <2>7. get_u16_be(s, 3 + n) = a.port
    <3>1. s[3 + n] = Hi(a.port) /\ s[(3 + n) + 1] = Lo(a.port)
      BY <1>2, <2>1
    <3> QED BY <1>4, <3>1 DEF get_u16_be
  <2> HIDE DEF v
  <2>8. [kind |-> "Domain", name |-> v, port |-> get_u16_be(s, 3 + n)] = a
    BY <2>6, <2>7 DEF WireDomain
  <2>9. read_domain(s) = Value([kind |-> "Domain", name |-> v,
                                port |-> get_u16_be(s, 3 + n)], n + 4)
    <3>1. ~(Len(s) < 2 \/ Len(s) < 2 + s[2] + 2)
      BY <1>2, <1>8, <2>1
    <3>2. ~(\E i \in 3..(2 + s[2]) : s[i] >= 128)
      <4>1. \A i \in 3..(2 + n) : s[i] \in Int /\ ~(s[i] >= 128)
        <5>1. \A i \in 3..(2 + n) : i \in 1..Len(s)
          BY <1>2, <1>8
        <5>2. \A i \in 1..Len(s) : s[i] \in Int
          BY Bytes
        <5> QED BY <2>3, <5>1, <5>2
      <4> QED BY <2>1, <4>1
    <3>3. 2 + s[2] + 2 = n + 4
      BY <1>2, <2>1
    <3> QED BY <2>1, <3>1, <3>2, <3>3 DEF read_domain, v
  <2>10. read_address(s) = read_domain(s)
    BY <1>2, <1>8, <2>1, ByType
  <2> QED BY <1>2, <1>3, <1>8, <2>8, <2>9, <2>10 DEF Finds
<1> QED BY <1>2, <1>5, <1>6, <1>7, <1>8

\* Address::read_from gives back what write_address wrote.
LEMMA FindsAddress ==
    ASSUME NEW a, WireAddress(a), NEW s \in Seq(Byte), Agree(s, write_address(a))
    PROVE  Finds(read_address(s), s, a, get_addr_len(a))
BY FindsIpv4, FindsIpv6, FindsDomain DEF WireAddress

\* v, read from the first n bytes of s, is written as these bytes.
Rewritten(v, n, s) ==
    /\ WireAddress(v) /\ n \in Nat /\ n <= Len(s) /\ n = get_addr_len(v)
    /\ write_address(v) \in Seq(Byte) /\ Len(write_address(v)) = n
    /\ \A i \in 1..n : write_address(v)[i] = s[i]

LEMMA StandsIpv4 ==
    ASSUME NEW s \in Seq(Byte), Len(s) >= 7, s[1] = 1
    PROVE  /\ read_ipv4(s).res = "ok"
           /\ Rewritten(read_ipv4(s).val, read_ipv4(s).used, s)
<1> DEFINE v == SubSeq(s, 2, 5)
           p == get_u16_be(s, 6)
           a == [kind |-> "V4", ip |-> v, port |-> p]
           w == write_address(a)
<1>1. /\ v \in Seq(Byte) /\ Len(v) = 4
      /\ \A i \in 1..4 : v[i] = s[i + 1]
  OBVIOUS
<1>2. s[6] \in Byte /\ s[7] \in Byte
  OBVIOUS
<1>3. p \in Words /\ Hi(p) = s[6] /\ Lo(p) = s[7]
  <2>1. p = 256 * s[6] + s[7]
    BY DEF get_u16_be
  <2> QED BY <1>2, <2>1, OneWord
<1>4. read_ipv4(s) = Value(a, 7)
  BY DEF read_ipv4
<1> HIDE DEF v, p
<1>5. a.kind = "V4" /\ a.ip = v /\ a.port = p
  OBVIOUS
<1>6. WireV4(a)
  BY <1>1, <1>3 DEF WireV4
<1> HIDE DEF a
<1>7. /\ w \in Seq(Byte) /\ Len(w) = 7 /\ get_addr_len(a) = 7
      /\ w[1] = 1 /\ \A i \in 1..4 : w[i + 1] = a.ip[i]
      /\ w[6] = Hi(a.port) /\ w[7] = Lo(a.port)
  BY <1>1, <1>3, <1>5, WritesIpv4
<1> HIDE DEF w
<1>8. ASSUME NEW i \in 1..7 PROVE w[i] = s[i]
  <2>1. CASE i \in 2..5
    <3>1. i - 1 \in 1..4 /\ (i - 1) + 1 = i
      BY <2>1
    <3>2. w[i] = v[i - 1] /\ v[i - 1] = s[i]
      BY ONLY <1>1, <1>5, <1>7, <3>1
    <3> QED BY <3>2
  <2>2. CASE i \in {1, 6, 7}
    BY <1>3, <1>5, <1>7, <2>2
  <2> QED BY <2>1, <2>2
<1>9. Rewritten(a, 7, s)
  BY <1>6, <1>7, <1>8 DEF Rewritten, WireAddress, w
<1> QED BY <1>4, <1>9 DEF Value

LEMMA StandsIpv6 ==
    ASSUME NEW s \in Seq(Byte), Len(s) >= 19, s[1] = 4
    PROVE  /\ read_ipv6(s).res = "ok"
           /\ Rewritten(read_ipv6(s).val, read_ipv6(s).used, s)
<1> DEFINE v == [i \in 1..8 |-> get_u16_be(s, 2 * i)]
           p == get_u16_be(s, 18)
           a == [kind |-> "V6", ip |-> v, port |-> p]
           w == write_address(a)
<1>1. \A i \in 1..9 : s[2 * i] \in Byte /\ s[2 * i + 1] \in Byte
  <2> SUFFICES ASSUME NEW i \in 1..9 PROVE s[2 * i] \in Byte /\ s[2 * i + 1] \in Byte
    OBVIOUS
  <2>1. 2 * i \in 1..Len(s) /\ 2 * i + 1 \in 1..Len(s)
    OBVIOUS
  <2> QED BY <2>1
<1>2. \A i \in 1..9 : /\ get_u16_be(s, 2 * i) \in Words
                      /\ Hi(get_u16_be(s, 2 * i)) = s[2 * i]
                      /\ Lo(get_u16_be(s, 2 * i)) = s[2 * i + 1]
  <2> SUFFICES ASSUME NEW i \in 1..9
               PROVE  /\ get_u16_be(s, 2 * i) \in Words
                      /\ Hi(get_u16_be(s, 2 * i)) = s[2 * i]
                      /\ Lo(get_u16_be(s, 2 * i)) = s[2 * i + 1]
    OBVIOUS
  <2>1. get_u16_be(s, 2 * i) = 256 * s[2 * i] + s[2 * i + 1]
    BY DEF get_u16_be
  <2>2. s[2 * i] \in Byte /\ s[2 * i + 1] \in Byte
    BY <1>1
  <2> QED BY <2>1, <2>2, OneWord
<1>3. p \in Words /\ Hi(p) = s[18] /\ Lo(p) = s[19]
  <2>1. 9 \in 1..9 /\ 2 * 9 = 18 /\ 2 * 9 + 1 = 19
    OBVIOUS
  <2> QED BY <1>2, <2>1
<1>4. /\ v \in Seq(Words) /\ Len(v) = 8
      /\ \A i \in 1..8 : Hi(v[i]) = s[2 * i] /\ Lo(v[i]) = s[2 * i + 1]
  <2> DEFINE n == 8
  <2>1. \A i \in 1..8 : i \in 1..9
    OBVIOUS
  <2>2. n \in Nat /\ v = [i \in 1..n |-> get_u16_be(s, 2 * i)]
    OBVIOUS
  <2>3. n = 8
    OBVIOUS
  <2>4. \A i \in 1..n : get_u16_be(s, 2 * i) \in Words
    BY <1>2, <2>1
  <2>5. \A i \in 1..8 : Hi(v[i]) = s[2 * i] /\ Lo(v[i]) = s[2 * i + 1]
    BY <1>2, <2>1
  <2> HIDE DEF n, v
  <2>6. v \in [1..n -> Words]
    BY <2>2, <2>4
  <2>7. v \in Seq(Words) /\ Len(v) = n
    BY <2>2, <2>6, Tuples
  <2> QED BY <2>3, <2>5, <2>7
<1>5. read_ipv6(s) = Value(a, 19)
  BY DEF read_ipv6
<1> HIDE DEF v, p
<1>6. a.kind = "V6" /\ a.ip = v /\ a.port = p
  OBVIOUS
<1>7. WireV6(a)
  BY <1>3, <1>4 DEF WireV6
<1> HIDE DEF a
<1>8. /\ w \in Seq(Byte) /\ Len(w) = 19 /\ get_addr_len(a) = 19
      /\ w[1] = 4 /\ \A i \in 1..8 : w[2 * i] = Hi(a.ip[i]) /\ w[2 * i + 1] = Lo(a.ip[i])
      /\ w[18] = Hi(a.port) /\ w[19] = Lo(a.port)
  BY <1>3, <1>4, <1>6, WritesIpv6
<1> HIDE DEF w
<1>9. ASSUME NEW i \in 1..8 PROVE w[2 * i] = s[2 * i] /\ w[2 * i + 1] = s[2 * i + 1]
  BY <1>4, <1>6, <1>8
<1>10. w[1] = s[1] /\ w[18] = s[18] /\ w[19] = s[19]
  BY <1>3, <1>6, <1>8
<1>11. ASSUME NEW i \in 1..19 PROVE w[i] = s[i]
  <2>1. i \in {1, 18, 19} \/ (\E k \in 1..8 : i = 2 * k \/ i = 2 * k + 1)
    <3>1. CASE i \in 2..17
      <4>1. i \div 2 \in 1..8 /\ (i = 2 * (i \div 2) \/ i = 2 * (i \div 2) + 1)
        BY <3>1
      <4> QED BY <4>1
    <3> QED BY <3>1
  <2> QED BY <1>9, <1>10, <2>1
<1>12. Rewritten(a, 19, s)
  BY <1>7, <1>8, <1>11 DEF Rewritten, WireAddress, w
<1> QED BY <1>5, <1>12 DEF Value

LEMMA StandsDomain ==
    ASSUME NEW s \in Seq(Byte), s[1] = 3, read_domain(s).res = "ok"
    PROVE  Rewritten(read_domain(s).val, read_domain(s).used, s)
<1> DEFINE n == s[2]
           v == SubSeq(s, 3, 2 + n)
           p == get_u16_be(s, 3 + n)
           a == [kind |-> "Domain", name |-> v, port |-> p]
           w == write_address(a)
<1>1. /\ ~(Len(s) < 2 \/ Len(s) < 2 + s[2] + 2)
      /\ ~(\E i \in 3..(2 + s[2]) : s[i] >= 128)
      /\ read_domain(s) = Value(a, 2 + n + 2)
  BY DEF read_domain, Short, Error
<1>2. n \in Byte
  BY <1>1
<1>3. n \in Nat /\ n <= 255
  BY <1>2, Bytes
<1> HIDE DEF n
<1>4. Len(s) \in Nat /\ Len(s) >= n + 4
  BY <1>1, <1>3 DEF n
<1>5. /\ v \in Seq(Byte) /\ Len(v) = n
      /\ \A i \in 1..n : v[i] = s[i + 2]
  BY <1>3, <1>4
<1>6. s[n + 3] \in Byte /\ s[n + 4] \in Byte
  <2>1. n + 3 \in 1..Len(s) /\ n + 4 \in 1..Len(s)
    BY <1>3, <1>4
  <2> QED BY <2>1
<1>7. p \in Words /\ Hi(p) = s[n + 3] /\ Lo(p) = s[n + 4]
  <2>1. p = 256 * s[n + 3] + s[n + 4]
    BY <1>3 DEF get_u16_be
  <2> QED BY <1>6, <2>1, OneWord
<1>8. v \in Seq(Ascii)
  <2>1. ASSUME NEW i \in 1..n PROVE v[i] \in Ascii
    <3>1. i + 2 \in 3..(2 + n) /\ i + 2 \in 1..Len(s)
      BY <1>3, <1>4
    <3>2. s[i + 2] \in Byte
      BY <3>1
    <3>3. ~(s[i + 2] >= 128)
      BY <1>1, <3>1 DEF n
    <3>4. s[i + 2] \in Ascii
      BY <3>2, <3>3, Bytes, AsciiAre
    <3> QED BY <1>5, <3>4
  <2> HIDE DEF v
  <2> QED BY <1>5, <2>1
<1> HIDE DEF v, p
<1>9. a.kind = "Domain" /\ a.name = v /\ a.port = p
  OBVIOUS
<1>10. WireDomain(a)
  BY <1>3, <1>5, <1>7, <1>8 DEF WireDomain
<1>11. 2 + n + 2 = n + 4
  BY <1>3
<1> HIDE DEF a
<1>12. /\ w \in Seq(Byte) /\ Len(w) = n + 4 /\ get_addr_len(a) = n + 4
       /\ w[1] = 3 /\ w[2] = n /\ \A i \in 1..n : w[i + 2] = a.name[i]
       /\ w[n + 3] = Hi(a.port) /\ w[n + 4] = Lo(a.port)
  BY <1>3, <1>5, <1>7, <1>8, <1>9, WritesDomain
<1> HIDE DEF w
<1>13. ASSUME NEW i \in 1..(n + 4) PROVE w[i] = s[i]
  <2>1. CASE i \in 3..(n + 2)
    <3>1. i - 2 \in 1..n /\ (i - 2) + 2 = i
      BY <1>3, <2>1
    <3>2. w[i] = v[i - 2] /\ v[i - 2] = s[i]
      BY ONLY <1>5, <1>9, <1>12, <3>1
    <3> QED BY <3>2
  <2>2. CASE i \in {1, 2, n + 3, n + 4}
    BY <1>7, <1>9, <1>12, <2>2 DEF n
  <2> QED BY <1>3, <2>1, <2>2
<1>14. Rewritten(a, n + 4, s)
  BY <1>3, <1>4, <1>10, <1>12, <1>13 DEF Rewritten, WireAddress, w
<1>15. read_domain(s).val = a /\ read_domain(s).used = n + 4
  BY <1>1, <1>11 DEF Value, n, v, p, a
<1> QED BY <1>14, <1>15

\* What Address::read_from accepts is what write_address writes.
LEMMA StandsAddress ==
    ASSUME NEW s \in Seq(Byte), read_address(s).res = "ok"
    PROVE  Rewritten(read_address(s).val, read_address(s).used, s)
<1>1. Len(s) >= 1 /\ s[1] \in {1, 3, 4}
  BY ByType DEF Short, Error
<1>2. CASE s[1] = 1
  <2>1. read_address(s) = read_ipv4(s)
    BY <1>1, <1>2, ByType
  <2>2. Len(s) >= 7
    BY <2>1 DEF read_ipv4, Short
  <2> QED BY <1>2, <2>1, <2>2, StandsIpv4
<1>3. CASE s[1] = 4
  <2>1. read_address(s) = read_ipv6(s)
    BY <1>1, <1>3, ByType
  <2>2. Len(s) >= 19
    BY <2>1 DEF read_ipv6, Short
  <2> QED BY <1>3, <2>1, <2>2, StandsIpv6
<1>4. CASE s[1] = 3
  BY <1>1, <1>4, ByType, StandsDomain
<1> QED BY <1>1, <1>2, <1>3, <1>4

\* Three bytes before an address.
LEMMA WritesHeader ==
    ASSUME NEW a, WireAddress(a), NEW x \in Byte, NEW y \in Byte, NEW z \in Byte
    PROVE  LET w == <<x, y, z>> \o write_address(a) IN
           /\ w \in Seq(Byte) /\ Len(w) = 3 + get_addr_len(a) /\ get_addr_len(a) \in Nat
           /\ write_address(a) \in Seq(Byte) /\ Len(write_address(a)) = get_addr_len(a)
           /\ w[1] = x /\ w[2] = y /\ w[3] = z
           /\ \A i \in 1..get_addr_len(a) : w[i + 3] = write_address(a)[i]
<1> DEFINE h == <<x, y, z>>
           v == write_address(a)
           w == h \o v
<1>1. v \in Seq(Byte) /\ Len(v) = get_addr_len(a)
  <2>1. CASE WireV4(a)
    <3>1. a.kind = "V4"
      BY <2>1 DEF WireV4
    <3> QED BY <2>1, <3>1, WritesIpv4 DEF WireV4
  <2>2. CASE WireV6(a)
    <3>1. a.kind = "V6"
      BY <2>2 DEF WireV6
    <3> QED BY <2>2, <3>1, WritesIpv6 DEF WireV6
  <2>3. CASE WireDomain(a)
    <3>1. a.kind = "Domain"
      BY <2>3 DEF WireDomain
    <3> QED BY <2>3, <3>1, WritesDomain DEF WireDomain
  <2> QED BY <2>1, <2>2, <2>3 DEF WireAddress
<1>2. h \in Seq(Byte) /\ Len(h) = 3 /\ h[1] = x /\ h[2] = y /\ h[3] = z
  OBVIOUS
<1> HIDE DEF h, v
<1>3. /\ w \in Seq(Byte) /\ Len(w) = Len(h) + Len(v)
      /\ \A i \in 1..Len(h) : w[i] = h[i]
      /\ \A i \in 1..Len(v) : w[i + Len(h)] = v[i]
  <2>1. h \in Seq(Byte) /\ v \in Seq(Byte)
    BY <1>1, <1>2
  <2> QED BY ONLY <2>1
<1> HIDE DEF w
<1>4. 1 \in 1..Len(h) /\ 2 \in 1..Len(h) /\ 3 \in 1..Len(h)
  BY <1>2
<1>5. /\ w \in Seq(Byte) /\ Len(w) = 3 + get_addr_len(a) /\ get_addr_len(a) \in Nat
      /\ v \in Seq(Byte) /\ Len(v) = get_addr_len(a)
      /\ w[1] = x /\ w[2] = y /\ w[3] = z
      /\ \A i \in 1..get_addr_len(a) : w[i + 3] = v[i]
  BY <1>1, <1>2, <1>3, <1>4
<1> QED BY <1>5 DEF w, v, h

LEMMA AddressLength ==
    ASSUME NEW a, WireAddress(a)
    PROVE  get_addr_len(a) \in Nat
<1>1. 0 \in Byte
  BY Bytes
<1> QED BY <1>1, WritesHeader

\* A message of the wire format, whatever the constants are.
WireMessage(type, m) ==
    \/ /\ type = "HandshakeRequest" /\ m = [type |-> type, methods |-> m.methods]
       /\ m.methods \in Seq(Byte) /\ Len(m.methods) <= 255
    \/ /\ type = "HandshakeResponse" /\ m = [type |-> type, method |-> m.method]
       /\ m.method \in Byte
    \/ /\ type = "TcpRequestHeader"
       /\ m = [type |-> type, command |-> m.command, address |-> m.address]
       /\ m.command \in Commands /\ WireAddress(m.address)
    \/ /\ type = "TcpResponseHeader"
       /\ m = [type |-> type, reply |-> m.reply, address |-> m.address]
       /\ m.reply \in Byte /\ WireAddress(m.address)
    \/ /\ type = "UdpAssociateHeader"
       /\ m = [type |-> type, frag |-> m.frag, address |-> m.address]
       /\ m.frag \in Byte /\ WireAddress(m.address)

\* The bytes of a message are as many as serialized_len says.
Serialized(m) ==
    /\ write_to_buf(m) \in Seq(Byte) /\ Len(write_to_buf(m)) = serialized_len(m)
    /\ serialized_len(m) \in Nat /\ serialized_len(m) >= 2

LEMMA Headers ==
    ASSUME NEW m, WireMessage(m.type, m),
           m.type \notin {"HandshakeRequest", "HandshakeResponse"}
    PROVE  /\ WireAddress(m.address) /\ serialized_len(m) = 3 + get_addr_len(m.address)
           /\ \E x, y, z \in Byte :
                 /\ write_to_buf(m) = <<x, y, z>> \o write_address(m.address)
                 /\ m.type = "TcpRequestHeader" => x = 5 /\ y = Command_as_u8(m.command)
                 /\ m.type = "TcpResponseHeader" => x = 5 /\ y = m.reply
                 /\ m.type = "UdpAssociateHeader" => z = m.frag
<1>1. 0 \in Byte /\ 1 \in Byte /\ 2 \in Byte /\ 3 \in Byte /\ 5 \in Byte
  BY Bytes
<1>2. WireAddress(m.address)
  BY DEF WireMessage
<1>3. serialized_len(m) = 3 + get_addr_len(m.address)
  BY DEF serialized_len
<1>4. CASE m.type = "TcpRequestHeader"
  <2>1. m.command \in Commands
    BY <1>4 DEF WireMessage
  <2>2. Command_as_u8(m.command) \in Byte
    BY <1>1, <2>1 DEF Command_as_u8, Commands
  <2>3. write_to_buf(m) = <<5, Command_as_u8(m.command), 0>> \o write_address(m.address)
    BY <1>4 DEF write_to_buf
  <2> QED BY <1>1, <1>2, <1>3, <1>4, <2>2, <2>3
<1>5. CASE m.type = "TcpResponseHeader"
  <2>1. m.reply \in Byte
    BY <1>5 DEF WireMessage
  <2>2. write_to_buf(m) = <<5, m.reply, 0>> \o write_address(m.address)
    BY <1>5 DEF write_to_buf
  <2> QED BY <1>1, <1>2, <1>3, <1>5, <2>1, <2>2
<1>6. CASE m.type = "UdpAssociateHeader"
  <2>1. m.frag \in Byte
    BY <1>6 DEF WireMessage
  <2>2. write_to_buf(m) = <<0, 0, m.frag>> \o write_address(m.address)
    BY <1>6 DEF write_to_buf
  <2> QED BY <1>1, <1>2, <1>3, <1>6, <2>1, <2>2
<1> QED BY <1>4, <1>5, <1>6 DEF WireMessage

LEMMA WritesRequest ==
    ASSUME NEW m, m.type = "HandshakeRequest", m.methods \in Seq(Byte), Len(m.methods) <= 255
    PROVE  LET w == write_to_buf(m)
               n == Len(m.methods) IN
           /\ w \in Seq(Byte) /\ Len(w) = n + 2 /\ serialized_len(m) = n + 2
           /\ w[1] = 5 /\ w[2] = n /\ \A i \in 1..n : w[i + 2] = m.methods[i]
<1> DEFINE w == write_to_buf(m)
           v == m.methods
           n == Len(v)
           h == <<5, n % 256>>
<1>1. n \in Nat /\ n <= 255
  OBVIOUS
<1>2. w = h \o v
  BY DEF write_to_buf
<1>3. serialized_len(m) = n + 2
  BY <1>1 DEF serialized_len
<1>4. v \in Seq(Byte)
  OBVIOUS
<1> HIDE DEF w, v, n
<1>5. n % 256 = n /\ n \in Byte /\ 5 \in Byte
  BY ONLY <1>1, Bytes
<1>6. h \in Seq(Byte) /\ Len(h) = 2 /\ h[1] = 5 /\ h[2] = n
  BY ONLY <1>5
<1> HIDE DEF h
<1>7. /\ w \in Seq(Byte) /\ Len(w) = Len(h) + Len(v)
      /\ \A i \in 1..Len(h) : w[i] = h[i]
      /\ \A i \in 1..Len(v) : w[i + Len(h)] = v[i]
  <2>1. h \in Seq(Byte)
    BY <1>6
  <2> QED BY ONLY <1>2, <1>4, <2>1
<1>8. /\ w \in Seq(Byte) /\ Len(w) = n + 2 /\ w[1] = 5 /\ w[2] = n
      /\ \A i \in 1..n : w[i + 2] = v[i]
  BY <1>1, <1>6, <1>7 DEF n
<1> QED BY <1>3, <1>8 DEF w, v, n

LEMMA WritesResponse ==
    ASSUME NEW m, m.type = "HandshakeResponse", m.method \in Byte
    PROVE  LET w == write_to_buf(m) IN
           /\ w \in Seq(Byte) /\ Len(w) = 2 /\ serialized_len(m) = 2
           /\ w[1] = 5 /\ w[2] = m.method
<1>1. write_to_buf(m) = <<5, m.method>> /\ serialized_len(m) = 2
  BY DEF write_to_buf, serialized_len
<1>2. 5 \in Byte
  BY Bytes
<1> QED BY <1>1, <1>2

LEMMA WritesMessage ==
    ASSUME NEW m, WireMessage(m.type, m)
    PROVE  Serialized(m)
<1>1. CASE m.type = "HandshakeRequest"
  <2>1. m.methods \in Seq(Byte) /\ Len(m.methods) <= 255 /\ Len(m.methods) \in Nat
    BY <1>1 DEF WireMessage
  <2> QED BY <1>1, <2>1, WritesRequest DEF Serialized
<1>2. CASE m.type = "HandshakeResponse"
  <2>1. m.method \in Byte
    BY <1>2 DEF WireMessage
  <2>2. /\ write_to_buf(m) \in Seq(Byte) /\ Len(write_to_buf(m)) = 2
        /\ serialized_len(m) = 2
    BY <1>2, <2>1, WritesResponse
  <2> QED BY <2>2 DEF Serialized
<1>3. CASE m.type \notin {"HandshakeRequest", "HandshakeResponse"}
  <2>1. WireAddress(m.address) /\ serialized_len(m) = 3 + get_addr_len(m.address)
    BY <1>3, Headers
  <2>2. PICK x, y, z \in Byte : write_to_buf(m) = <<x, y, z>> \o write_address(m.address)
    BY <1>3, Headers
  <2>3. /\ write_to_buf(m) \in Seq(Byte) /\ get_addr_len(m.address) \in Nat
        /\ Len(write_to_buf(m)) = 3 + get_addr_len(m.address)
    BY <2>1, <2>2, WritesHeader
  <2> QED BY <2>1, <2>3 DEF Serialized
<1> QED BY <1>1, <1>2, <1>3

LEMMA FindsRequest ==
    ASSUME NEW m, WireMessage("HandshakeRequest", m), NEW s \in Seq(Byte),
           Agree(s, write_to_buf(m))
    PROVE  Finds(HandshakeRequest_read(s), s, m, serialized_len(m))
<1> DEFINE w == write_to_buf(m)
           n == Len(m.methods)
<1>1. m.type = "HandshakeRequest" /\ m.methods \in Seq(Byte) /\ Len(m.methods) <= 255
  BY DEF WireMessage
<1>2. /\ w \in Seq(Byte) /\ Len(w) = n + 2 /\ serialized_len(m) = n + 2
      /\ w[1] = 5 /\ w[2] = n /\ \A i \in 1..n : w[i + 2] = m.methods[i]
  BY <1>1, WritesRequest
<1>3. n \in Nat /\ n <= 255 /\ Len(s) \in Nat
  BY <1>1
<1> HIDE DEF w, n
<1>4. Agree(s, w)
  BY DEF w
<1>5. CASE Len(s) < 2
  BY <1>2, <1>3, <1>5 DEF Finds, HandshakeRequest_read
<1>6. CASE Len(s) >= 2
  <2>1. s[1] = 5 /\ s[2] = n
    <3>1. 1 \in 1..Len(s) /\ 2 \in 1..Len(s) /\ 1 <= Len(w) /\ 2 <= Len(w)
      BY <1>2, <1>3, <1>6
    <3>2. s[1] = w[1] /\ s[2] = w[2]
      BY ONLY <1>4, <3>1 DEF Agree
    <3> QED BY <1>2, <3>2
  <2>2. CASE Len(s) < n + 2
    BY <1>2, <1>3, <1>6, <2>1, <2>2 DEF Finds, HandshakeRequest_read
  <2>3. CASE Len(s) >= n + 2
    <3> DEFINE v == SubSeq(s, 3, 2 + n)
    <3>1. /\ v \in Seq(Byte) /\ Len(v) = n
          /\ \A i \in 1..n : v[i] = s[i + 2]
      BY <1>3, <2>3
    <3>2. ASSUME NEW i \in 1..n PROVE s[i + 2] = m.methods[i]
      <4>1. i + 2 \in 1..Len(s) /\ i + 2 <= Len(w)
        BY <1>2, <1>3, <2>3
      <4> QED BY ONLY <1>2, <1>4, <4>1, i \in 1..n DEF Agree
    <3> HIDE DEF v
    <3>3. v = m.methods
      BY <1>1, <3>1, <3>2, SameSeq DEF n
    <3>4. [type |-> "HandshakeRequest", methods |-> v] = m
      BY <3>3 DEF WireMessage
    <3>5. HandshakeRequest_read(s) = Value([type |-> "HandshakeRequest", methods |-> v], n + 2)
      <4>1. ~(Len(s) < 2) /\ ~(s[1] # 5) /\ ~(Len(s) < 2 + s[2]) /\ 2 + s[2] = n + 2
        BY <1>3, <1>6, <2>1, <2>3
      <4> QED BY <2>1, <4>1 DEF HandshakeRequest_read, v
    <3> QED BY <1>2, <1>3, <2>3, <3>4, <3>5 DEF Finds
  <2> QED BY <1>3, <2>2, <2>3
<1> QED BY <1>3, <1>5, <1>6

LEMMA FindsResponse ==
    ASSUME NEW m, WireMessage("HandshakeResponse", m), NEW s \in Seq(Byte),
           Agree(s, write_to_buf(m))
    PROVE  Finds(HandshakeResponse_read(s), s, m, serialized_len(m))
<1> DEFINE w == write_to_buf(m)
<1>1. m.type = "HandshakeResponse" /\ m.method \in Byte
  BY DEF WireMessage
<1>2. Len(w) = 2 /\ serialized_len(m) = 2 /\ w[1] = 5 /\ w[2] = m.method
  BY <1>1, WritesResponse
<1>3. Len(s) \in Nat
  OBVIOUS
<1> HIDE DEF w
<1>4. Agree(s, w)
  BY DEF w
<1>5. CASE Len(s) < 2
  BY <1>2, <1>5 DEF Finds, HandshakeResponse_read
<1>6. CASE Len(s) >= 2
  <2>1. s[1] = 5 /\ s[2] = m.method
    <3>1. 1 \in 1..Len(s) /\ 2 \in 1..Len(s) /\ 1 <= Len(w) /\ 2 <= Len(w)
      BY <1>2, <1>3, <1>6
    <3>2. s[1] = w[1] /\ s[2] = w[2]
      BY ONLY <1>4, <3>1 DEF Agree
    <3> QED BY <1>2, <3>2
  <2>2. [type |-> "HandshakeResponse", method |-> s[2]] = m
    BY <2>1 DEF WireMessage
  <2>3. HandshakeResponse_read(s) = Value([type |-> "HandshakeResponse", method |-> s[2]], 2)
    BY <1>6, <2>1 DEF HandshakeResponse_read
  <2> QED BY <1>2, <1>6, <2>2, <2>3 DEF Finds
<1> QED BY <1>3, <1>5, <1>6

\* The bytes that follow the first n.
LEMMA Behind ==
    ASSUME NEW S, NEW s \in Seq(S), NEW n \in Nat, n <= Len(s)
    PROVE  /\ Back(s, n) \in Seq(S) /\ Len(Back(s, n)) = Len(s) - n
           /\ \A i \in 1..(Len(s) - n) : Back(s, n)[i] = s[i + n]
BY DEF Back

\* The address behind three bytes, found where the header has it.
LEMMA FindsHeader ==
    ASSUME NEW a, WireAddress(a), NEW x \in Byte, NEW y \in Byte, NEW z \in Byte,
           NEW s \in Seq(Byte), Agree(s, <<x, y, z>> \o write_address(a)), Len(s) >= 3
    PROVE  /\ s[1] = x /\ s[2] = y /\ s[3] = z
           /\ read_address(Back(s, 3)) = IF Len(s) < 3 + get_addr_len(a) THEN Short
                                         ELSE Value(a, get_addr_len(a))
<1> DEFINE v == write_address(a)
           w == <<x, y, z>> \o v
           t == Back(s, 3)
           n == get_addr_len(a)
<1>1. /\ w \in Seq(Byte) /\ Len(w) = 3 + n /\ n \in Nat
      /\ v \in Seq(Byte) /\ Len(v) = n
      /\ w[1] = x /\ w[2] = y /\ w[3] = z
      /\ \A i \in 1..n : w[i + 3] = v[i]
  BY WritesHeader
<1>2. Agree(s, w) /\ Len(s) \in Nat
  OBVIOUS
<1>3. /\ t \in Seq(Byte) /\ Len(t) = Len(s) - 3
      /\ \A i \in 1..(Len(s) - 3) : t[i] = s[i + 3]
  BY DEF Back
<1> HIDE DEF v, w, t, n
<1>4. s[1] = x /\ s[2] = y /\ s[3] = z
  <2>1. /\ 1 \in 1..Len(s) /\ 2 \in 1..Len(s) /\ 3 \in 1..Len(s)
        /\ 1 <= Len(w) /\ 2 <= Len(w) /\ 3 <= Len(w)
    BY <1>1, <1>2
  <2>2. s[1] = w[1] /\ s[2] = w[2] /\ s[3] = w[3]
    BY ONLY <1>2, <2>1 DEF Agree
  <2> QED BY <1>1, <2>2
<1>5. Agree(t, v)
  <2>1. SUFFICES ASSUME NEW i \in 1..Len(t), i <= Len(v) PROVE t[i] = v[i]
    BY DEF Agree
  <2>2. i + 3 \in 1..Len(s) /\ i + 3 <= Len(w) /\ i \in 1..n /\ i \in 1..(Len(s) - 3)
    BY <1>1, <1>2, <1>3, <2>1
  <2> QED BY ONLY <1>1, <1>2, <1>3, <2>2 DEF Agree
<1>6. Finds(read_address(t), t, a, n)
  BY <1>3, <1>5, FindsAddress DEF v, n
<1>7. Len(t) < n <=> Len(s) < 3 + n
  BY <1>1, <1>2, <1>3
<1>8. read_address(t) = IF Len(s) < 3 + n THEN Short ELSE Value(a, n)
  BY <1>6, <1>7 DEF Finds
<1> QED BY <1>4, <1>8 DEF t, n

LEMMA CommandNumbers ==
    ASSUME NEW c \in Commands
    PROVE  Command_as_u8(c) \in 1..3 /\ Command_from_u8(Command_as_u8(c)) = c
<1>1. \A d \in Commands : Command_as_u8(d) = Command_as_u8(c) => d = c
  BY DEF Command_as_u8, Commands
<1>2. Command_as_u8(c) \in 1..3
  BY DEF Command_as_u8, Commands
<1> QED BY <1>1, <1>2 DEF Command_from_u8

LEMMA NumberedCommands ==
    ASSUME NEW n \in 1..3
    PROVE  Command_from_u8(n) \in Commands /\ Command_as_u8(Command_from_u8(n)) = n
<1>1. \E c \in Commands : Command_as_u8(c) = n
  BY DEF Command_as_u8, Commands
<1> QED BY <1>1 DEF Command_from_u8

\* A reader of a header whose address is not there yet, or is there.
LEMMA FindsTcpRequest ==
    ASSUME NEW m, WireMessage("TcpRequestHeader", m), NEW s \in Seq(Byte),
           Agree(s, write_to_buf(m))
    PROVE  Finds(TcpRequestHeader_read(s), s, m, serialized_len(m))
<1>1. m.type = "TcpRequestHeader"
  BY DEF WireMessage
<1>2. m.command \in Commands /\ WireAddress(m.address)
  BY DEF WireMessage
<1> DEFINE a == m.address
           n == get_addr_len(a)
           r == read_address(Back(s, 3))
<1>3. PICK x, y, z \in Byte :
         write_to_buf(m) = <<x, y, z>> \o write_address(a) /\ x = 5
         /\ y = Command_as_u8(m.command)
  BY <1>1, Headers
<1>4. serialized_len(m) = 3 + n
  BY <1>1, Headers
<1>5. n \in Nat /\ Len(s) \in Nat
  BY <1>2, AddressLength
<1>6. CASE Len(s) < 3
  BY <1>4, <1>5, <1>6 DEF Finds, TcpRequestHeader_read, WithAddress
<1>7. CASE Len(s) >= 3
  <2>1. /\ s[1] = 5 /\ s[2] = Command_as_u8(m.command)
        /\ r = IF Len(s) < 3 + n THEN Short ELSE Value(a, n)
    <3>1. Agree(s, <<x, y, z>> \o write_address(a))
      BY <1>3
    <3>2. /\ s[1] = x /\ s[2] = y /\ s[3] = z
          /\ r = IF Len(s) < 3 + n THEN Short ELSE Value(a, n)
      BY ONLY <1>2, <1>7, <3>1, FindsHeader, x \in Byte, y \in Byte, z \in Byte,
              s \in Seq(Byte)
    <3> QED BY <1>3, <3>2
  <2>2. s[2] \in 1..3 /\ Command_from_u8(s[2]) = m.command
    BY <1>2, <2>1, CommandNumbers
  <2>3. TcpRequestHeader_read(s) =
           IF r.res = "ok"
           THEN Value([type |-> "TcpRequestHeader", command |-> Command_from_u8(s[2]),
                       address |-> r.val], 3 + r.used)
           ELSE r
    BY <1>7, <2>1, <2>2 DEF TcpRequestHeader_read, WithAddress
  <2> HIDE DEF r, a, n
  <2>4. CASE Len(s) < 3 + n
    BY <1>4, <2>1, <2>3, <2>4 DEF Finds, Short
  <2>5. CASE Len(s) >= 3 + n
    <3>1. r.res = "ok" /\ r.val = a /\ r.used = n
      BY <1>5, <2>1, <2>5 DEF Value
    <3>2. m = [type |-> "TcpRequestHeader", command |-> m.command, address |-> m.address]
      BY DEF WireMessage
    <3>3. TcpRequestHeader_read(s) = Value(m, 3 + n)
      BY <2>2, <2>3, <3>1, <3>2 DEF a
    <3> QED BY <1>4, <1>5, <2>5, <3>3 DEF Finds
  <2> QED BY <1>5, <2>4, <2>5
<1> QED BY <1>5, <1>6, <1>7

LEMMA FindsTcpResponse ==
    ASSUME NEW m, WireMessage("TcpResponseHeader", m), NEW s \in Seq(Byte),
           Agree(s, write_to_buf(m))
    PROVE  Finds(TcpResponseHeader_read(s), s, m, serialized_len(m))
<1>1. m.type = "TcpResponseHeader"
  BY DEF WireMessage
<1>2. WireAddress(m.address)
  BY DEF WireMessage
<1> DEFINE a == m.address
           n == get_addr_len(a)
           r == read_address(Back(s, 3))
<1>3. PICK x, y, z \in Byte :
         write_to_buf(m) = <<x, y, z>> \o write_address(a) /\ x = 5 /\ y = m.reply
  BY <1>1, Headers
<1>4. serialized_len(m) = 3 + n
  BY <1>1, Headers
<1>5. n \in Nat /\ Len(s) \in Nat
  BY <1>2, AddressLength
<1>6. CASE Len(s) < 3
  BY <1>4, <1>5, <1>6 DEF Finds, TcpResponseHeader_read, WithAddress
<1>7. CASE Len(s) >= 3
  <2>1. /\ s[1] = 5 /\ s[2] = m.reply
        /\ r = IF Len(s) < 3 + n THEN Short ELSE Value(a, n)
    <3>1. Agree(s, <<x, y, z>> \o write_address(a))
      BY <1>3
    <3>2. /\ s[1] = x /\ s[2] = y /\ s[3] = z
          /\ r = IF Len(s) < 3 + n THEN Short ELSE Value(a, n)
      BY ONLY <1>2, <1>7, <3>1, FindsHeader, x \in Byte, y \in Byte, z \in Byte,
              s \in Seq(Byte)
    <3> QED BY <1>3, <3>2
  <2>3. TcpResponseHeader_read(s) =
           IF r.res = "ok"
           THEN Value([type |-> "TcpResponseHeader", reply |-> s[2], address |-> r.val],
                      3 + r.used)
           ELSE r
    BY <1>7, <2>1 DEF TcpResponseHeader_read, WithAddress
  <2> HIDE DEF r, a, n
  <2>4. CASE Len(s) < 3 + n
    BY <1>4, <2>1, <2>3, <2>4 DEF Finds, Short
  <2>5. CASE Len(s) >= 3 + n
    <3>1. r.res = "ok" /\ r.val = a /\ r.used = n
      BY <1>5, <2>1, <2>5 DEF Value
    <3>2. m = [type |-> "TcpResponseHeader", reply |-> m.reply, address |-> m.address]
      BY DEF WireMessage
    <3>3. TcpResponseHeader_read(s) = Value(m, 3 + n)
      BY <2>1, <2>3, <3>1, <3>2 DEF a
    <3> QED BY <1>4, <1>5, <2>5, <3>3 DEF Finds
  <2> QED BY <1>5, <2>4, <2>5
<1> QED BY <1>5, <1>6, <1>7

LEMMA FindsUdp ==
    ASSUME NEW m, WireMessage("UdpAssociateHeader", m), NEW s \in Seq(Byte),
           Agree(s, write_to_buf(m))
    PROVE  Finds(UdpAssociateHeader_read(s), s, m, serialized_len(m))
<1>1. m.type = "UdpAssociateHeader"
  BY DEF WireMessage
<1>2. WireAddress(m.address)
  BY DEF WireMessage
<1> DEFINE a == m.address
           n == get_addr_len(a)
           r == read_address(Back(s, 3))
<1>3. PICK x, y, z \in Byte :
         write_to_buf(m) = <<x, y, z>> \o write_address(a) /\ z = m.frag
  BY <1>1, Headers
<1>4. serialized_len(m) = 3 + n
  BY <1>1, Headers
<1>5. n \in Nat /\ Len(s) \in Nat
  BY <1>2, AddressLength
<1>6. CASE Len(s) < 3
  BY <1>4, <1>5, <1>6 DEF Finds, UdpAssociateHeader_read, WithAddress
<1>7. CASE Len(s) >= 3
  <2>1. /\ s[3] = m.frag
        /\ r = IF Len(s) < 3 + n THEN Short ELSE Value(a, n)
    <3>1. Agree(s, <<x, y, z>> \o write_address(a))
      BY <1>3
    <3>2. /\ s[1] = x /\ s[2] = y /\ s[3] = z
          /\ r = IF Len(s) < 3 + n THEN Short ELSE Value(a, n)
      BY ONLY <1>2, <1>7, <3>1, FindsHeader, x \in Byte, y \in Byte, z \in Byte,
              s \in Seq(Byte)
    <3> QED BY <1>3, <3>2
  <2>3. UdpAssociateHeader_read(s) =
           IF r.res = "ok"
           THEN Value([type |-> "UdpAssociateHeader", frag |-> s[3], address |-> r.val],
                      3 + r.used)
           ELSE r
    BY <1>7, <2>1 DEF UdpAssociateHeader_read, WithAddress
  <2> HIDE DEF r, a, n
  <2>4. CASE Len(s) < 3 + n
    BY <1>4, <2>1, <2>3, <2>4 DEF Finds, Short
  <2>5. CASE Len(s) >= 3 + n
    <3>1. r.res = "ok" /\ r.val = a /\ r.used = n
      BY <1>5, <2>1, <2>5 DEF Value
    <3>2. m = [type |-> "UdpAssociateHeader", frag |-> m.frag, address |-> m.address]
      BY DEF WireMessage
    <3>3. UdpAssociateHeader_read(s) = Value(m, 3 + n)
      BY <2>1, <2>3, <3>1, <3>2 DEF a
    <3> QED BY <1>4, <1>5, <2>5, <3>3 DEF Finds
  <2> QED BY <1>5, <2>4, <2>5
<1> QED BY <1>5, <1>6, <1>7

\* read_from gives back what write_to wrote: from any bytes that begin with a
\* message it returns that message and takes as many bytes as it has, and of
\* any bytes that are only its beginning it waits for the rest.
THEOREM ReadsWhatWasWritten ==
    ASSUME NEW type, NEW m, WireMessage(type, m), NEW s \in Seq(Byte),
           Agree(s, write_to_buf(m))
    PROVE  read_from(type, s) = IF Len(s) < serialized_len(m) THEN Short
                                ELSE Value(m, serialized_len(m))
<1>1. Finds(read_from(type, s), s, m, serialized_len(m))
  <2>1. CASE type = "HandshakeRequest"
    BY <2>1, FindsRequest DEF read_from
  <2>2. CASE type = "HandshakeResponse"
    BY <2>2, FindsResponse DEF read_from
  <2>3. CASE type = "TcpRequestHeader"
    BY <2>3, FindsTcpRequest DEF read_from
  <2>4. CASE type = "TcpResponseHeader"
    BY <2>4, FindsTcpResponse DEF read_from
  <2>5. CASE type = "UdpAssociateHeader"
    BY <2>5, FindsUdp DEF read_from
  <2> QED BY <2>1, <2>2, <2>3, <2>4, <2>5 DEF WireMessage
<1> QED BY <1>1 DEF Finds

\* The bytes read_from does not look at.
Unread(type) == CASE type = "UdpAssociateHeader" -> {1, 2}
                  [] type \in {"TcpRequestHeader", "TcpResponseHeader"} -> {3}
                  [] type \in {"HandshakeRequest", "HandshakeResponse"} -> {}

\* m, read from the first n bytes of s, is written as these bytes but for those.
Accepted(type, m, n, s) ==
    /\ WireMessage(type, m) /\ n = serialized_len(m) /\ n \in Nat /\ n <= Len(s)
    /\ Len(write_to_buf(m)) = n
    /\ \A i \in 1..n : i \in Unread(type) \/ write_to_buf(m)[i] = s[i]

LEMMA StandsRequest ==
    ASSUME NEW s \in Seq(Byte), HandshakeRequest_read(s).res = "ok"
    PROVE  Accepted("HandshakeRequest", HandshakeRequest_read(s).val,
                    HandshakeRequest_read(s).used, s)
<1> DEFINE n == s[2]
           v == SubSeq(s, 3, 2 + n)
           m == [type |-> "HandshakeRequest", methods |-> v]
           w == write_to_buf(m)
<1>1. /\ ~(Len(s) < 2) /\ s[1] = 5 /\ ~(Len(s) < 2 + n)
      /\ HandshakeRequest_read(s) = Value(m, 2 + n)
  BY DEF HandshakeRequest_read, Short, Error
<1>2. n \in Byte
  BY <1>1
<1>3. n \in Nat /\ n <= 255 /\ Len(s) \in Nat
  BY <1>2, Bytes
<1> HIDE DEF n
<1>4. Len(s) >= n + 2 /\ 2 + n = n + 2
  BY <1>1, <1>3
<1>5. v \in Seq(Byte) /\ Len(v) = n /\ \A i \in 1..n : v[i] = s[i + 2]
  BY <1>3, <1>4
<1>6. HandshakeRequest_read(s).val = m /\ HandshakeRequest_read(s).used = n + 2
  BY <1>1, <1>4 DEF Value
<1> HIDE DEF v
<1>7. m.type = "HandshakeRequest" /\ m.methods = v
  OBVIOUS
<1>8. WireMessage("HandshakeRequest", m)
  BY <1>3, <1>5 DEF WireMessage
<1> HIDE DEF m
<1>9. /\ w \in Seq(Byte) /\ Len(w) = n + 2 /\ serialized_len(m) = n + 2
      /\ w[1] = 5 /\ w[2] = n /\ \A i \in 1..n : w[i + 2] = v[i]
  BY <1>3, <1>5, <1>7, WritesRequest
<1> HIDE DEF w
<1>10. ASSUME NEW i \in 1..(n + 2) PROVE w[i] = s[i]
  <2>1. CASE i \in 3..(n + 2)
    <3>1. i - 2 \in 1..n /\ (i - 2) + 2 = i
      BY <1>3, <2>1
    <3>2. w[i] = v[i - 2] /\ v[i - 2] = s[i]
      BY ONLY <1>5, <1>9, <3>1
    <3> QED BY <3>2
  <2>2. CASE i \in {1, 2}
    BY <1>1, <1>9, <2>2 DEF n
  <2> QED BY <1>3, <2>1, <2>2
<1>11. Accepted("HandshakeRequest", m, n + 2, s)
  BY <1>3, <1>4, <1>8, <1>9, <1>10 DEF Accepted, w
<1> QED BY <1>6, <1>11

LEMMA StandsResponse ==
    ASSUME NEW s \in Seq(Byte), HandshakeResponse_read(s).res = "ok"
    PROVE  Accepted("HandshakeResponse", HandshakeResponse_read(s).val,
                    HandshakeResponse_read(s).used, s)
<1> DEFINE m == [type |-> "HandshakeResponse", method |-> s[2]]
           w == write_to_buf(m)
<1>1. ~(Len(s) < 2) /\ s[1] = 5 /\ HandshakeResponse_read(s) = Value(m, 2)
  BY DEF HandshakeResponse_read, Short, Error
<1>2. s[2] \in Byte /\ Len(s) \in Nat /\ Len(s) >= 2
  BY <1>1
<1>3. HandshakeResponse_read(s).val = m /\ HandshakeResponse_read(s).used = 2
  BY <1>1 DEF Value
<1>4. m.type = "HandshakeResponse" /\ m.method = s[2]
  OBVIOUS
<1>5. WireMessage("HandshakeResponse", m)
  BY <1>2 DEF WireMessage
<1> HIDE DEF m
<1>6. Len(w) = 2 /\ serialized_len(m) = 2 /\ w[1] = 5 /\ w[2] = s[2]
  BY <1>2, <1>4, WritesResponse
<1> HIDE DEF w
<1>7. \A i \in 1..2 : w[i] = s[i]
  BY <1>1, <1>6
<1>8. Accepted("HandshakeResponse", m, 2, s)
  BY <1>2, <1>5, <1>6, <1>7 DEF Accepted, w
<1> QED BY <1>3, <1>8

\* A header is written as the bytes it was read from when its three bytes are.
LEMMA StandsHeader ==
    ASSUME NEW type, NEW m, WireMessage(type, m),
           type \in {"TcpRequestHeader", "TcpResponseHeader", "UdpAssociateHeader"},
           NEW s \in Seq(Byte), Len(s) >= 3, read_address(Back(s, 3)).res = "ok",
           m.address = read_address(Back(s, 3)).val,
           type = "TcpRequestHeader" => s[1] = 5 /\ s[2] = Command_as_u8(m.command),
           type = "TcpResponseHeader" => s[1] = 5 /\ s[2] = m.reply,
           type = "UdpAssociateHeader" => s[3] = m.frag
    PROVE  Accepted(type, m, 3 + read_address(Back(s, 3)).used, s)
<1> DEFINE t == Back(s, 3)
           r == read_address(t)
           a == m.address
           n == r.used
           v == write_address(a)
           w == write_to_buf(m)
<1>1. /\ t \in Seq(Byte) /\ Len(t) = Len(s) - 3
      /\ \A i \in 1..(Len(s) - 3) : t[i] = s[i + 3]
  BY ONLY s \in Seq(Byte), Len(s) >= 3, 3 \in Nat, Behind
<1>2. Rewritten(a, n, t)
  BY <1>1, StandsAddress
<1>3. WireAddress(a) /\ n \in Nat /\ n <= Len(t) /\ n = get_addr_len(a)
  BY <1>2 DEF Rewritten
<1>4. \A i \in 1..n : v[i] = t[i]
  BY <1>2 DEF Rewritten
<1>5. m.type = type
  BY DEF WireMessage
<1>6. PICK x, y, z \in Byte :
         /\ w = <<x, y, z>> \o v
         /\ type = "TcpRequestHeader" => x = 5 /\ y = Command_as_u8(m.command)
         /\ type = "TcpResponseHeader" => x = 5 /\ y = m.reply
         /\ type = "UdpAssociateHeader" => z = m.frag
  BY <1>5, Headers
<1>7. serialized_len(m) = 3 + n
  BY <1>3, <1>5, Headers
<1>8. /\ w \in Seq(Byte) /\ Len(w) = 3 + n
      /\ w[1] = x /\ w[2] = y /\ w[3] = z
      /\ \A i \in 1..n : w[i + 3] = v[i]
  BY <1>3, <1>6, WritesHeader, SMTT(30)
<1>9. /\ 1 \in Unread(type) \/ x = s[1]
      /\ 2 \in Unread(type) \/ y = s[2]
      /\ 3 \in Unread(type) \/ z = s[3]
  <2>1. CASE type = "TcpRequestHeader"
    <3>1. 3 \in Unread(type)
      BY <2>1 DEF Unread
    <3> QED BY <1>6, <2>1, <3>1
  <2>2. CASE type = "TcpResponseHeader"
    <3>1. 3 \in Unread(type)
      BY <2>2 DEF Unread
    <3> QED BY <1>6, <2>2, <3>1
  <2>3. CASE type = "UdpAssociateHeader"
    <3>1. 1 \in Unread(type) /\ 2 \in Unread(type)
      BY <2>3 DEF Unread
    <3> QED BY <1>6, <2>3, <3>1
  <2> QED BY <2>1, <2>2, <2>3
<1> HIDE DEF t, r, a, n, v, w
<1>10. ASSUME NEW i \in 1..(3 + n) PROVE i \in Unread(type) \/ w[i] = s[i]
  <2>1. CASE i \in 4..(3 + n)
    <3>1. i - 3 \in 1..n /\ (i - 3) + 3 = i /\ i - 3 \in 1..(Len(s) - 3)
      BY <1>1, <1>3, <2>1
    <3>2. w[i] = v[i - 3] /\ v[i - 3] = t[i - 3] /\ t[i - 3] = s[i]
      BY ONLY <1>1, <1>4, <1>8, <3>1
    <3> QED BY <3>2
  <2>2. CASE i \in {1, 2, 3}
    BY <1>8, <1>9, <2>2
  <2> QED BY <1>3, <2>1, <2>2
<1>11. 3 + n \in Nat /\ 3 + n <= Len(s)
  BY <1>1, <1>3
<1>12. Accepted(type, m, 3 + n, s)
  BY <1>7, <1>8, <1>10, <1>11 DEF Accepted, w
<1> QED BY <1>12 DEF n, r, t

LEMMA StandsTcpRequest ==
    ASSUME NEW s \in Seq(Byte), TcpRequestHeader_read(s).res = "ok"
    PROVE  Accepted("TcpRequestHeader", TcpRequestHeader_read(s).val,
                    TcpRequestHeader_read(s).used, s)
<1> DEFINE r == read_address(Back(s, 3))
           m == [type |-> "TcpRequestHeader", command |-> Command_from_u8(s[2]),
                 address |-> r.val]
<1>1. ~(Len(s) < 3) /\ s[1] = 5 /\ s[2] \in 1..3 /\ r.res = "ok"
      /\ TcpRequestHeader_read(s) = Value(m, 3 + r.used)
  BY DEF TcpRequestHeader_read, WithAddress, Short, Error
<1>2. Len(s) >= 3 /\ Back(s, 3) \in Seq(Byte)
  BY <1>1 DEF Back
<1>3. WireAddress(r.val)
  BY <1>1, <1>2, StandsAddress DEF Rewritten
<1>4. Command_from_u8(s[2]) \in Commands /\ Command_as_u8(Command_from_u8(s[2])) = s[2]
  BY <1>1, NumberedCommands
<1>5. TcpRequestHeader_read(s).val = m /\ TcpRequestHeader_read(s).used = 3 + r.used
  BY <1>1 DEF Value
<1> HIDE DEF r
<1>6. m.address = r.val /\ m.command = Command_from_u8(s[2])
  OBVIOUS
<1>7. WireMessage("TcpRequestHeader", m)
  BY <1>3, <1>4 DEF WireMessage
<1> HIDE DEF m
<1>8. Accepted("TcpRequestHeader", m, 3 + r.used, s)
  BY <1>1, <1>2, <1>4, <1>6, <1>7, StandsHeader DEF r
<1> QED BY <1>5, <1>8

LEMMA StandsTcpResponse ==
    ASSUME NEW s \in Seq(Byte), TcpResponseHeader_read(s).res = "ok"
    PROVE  Accepted("TcpResponseHeader", TcpResponseHeader_read(s).val,
                    TcpResponseHeader_read(s).used, s)
<1> DEFINE r == read_address(Back(s, 3))
           m == [type |-> "TcpResponseHeader", reply |-> s[2], address |-> r.val]
<1>1. ~(Len(s) < 3) /\ s[1] = 5 /\ r.res = "ok"
      /\ TcpResponseHeader_read(s) = Value(m, 3 + r.used)
  BY DEF TcpResponseHeader_read, WithAddress, Short, Error
<1>2. Len(s) >= 3 /\ Back(s, 3) \in Seq(Byte) /\ s[2] \in Byte
  BY <1>1 DEF Back
<1>3. WireAddress(r.val)
  BY <1>1, <1>2, StandsAddress DEF Rewritten
<1>5. TcpResponseHeader_read(s).val = m /\ TcpResponseHeader_read(s).used = 3 + r.used
  BY <1>1 DEF Value
<1> HIDE DEF r
<1>6. m.address = r.val /\ m.reply = s[2]
  OBVIOUS
<1>7. WireMessage("TcpResponseHeader", m)
  BY <1>2, <1>3 DEF WireMessage
<1> HIDE DEF m
<1>8. Accepted("TcpResponseHeader", m, 3 + r.used, s)
  BY <1>1, <1>2, <1>6, <1>7, StandsHeader DEF r
<1> QED BY <1>5, <1>8

LEMMA StandsUdp ==
    ASSUME NEW s \in Seq(Byte), UdpAssociateHeader_read(s).res = "ok"
    PROVE  Accepted("UdpAssociateHeader", UdpAssociateHeader_read(s).val,
                    UdpAssociateHeader_read(s).used, s)
<1> DEFINE r == read_address(Back(s, 3))
           m == [type |-> "UdpAssociateHeader", frag |-> s[3], address |-> r.val]
<1>1. ~(Len(s) < 3) /\ r.res = "ok"
      /\ UdpAssociateHeader_read(s) = Value(m, 3 + r.used)
  BY DEF UdpAssociateHeader_read, WithAddress, Short, Error
<1>2. Len(s) >= 3 /\ Back(s, 3) \in Seq(Byte) /\ s[3] \in Byte
  BY <1>1 DEF Back
<1>3. WireAddress(r.val)
  BY <1>1, <1>2, StandsAddress DEF Rewritten
<1>5. UdpAssociateHeader_read(s).val = m /\ UdpAssociateHeader_read(s).used = 3 + r.used
  BY <1>1 DEF Value
<1> HIDE DEF r
<1>6. m.address = r.val /\ m.frag = s[3]
  OBVIOUS
<1>7. WireMessage("UdpAssociateHeader", m)
  BY <1>2, <1>3 DEF WireMessage
<1> HIDE DEF m
<1>8. Accepted("UdpAssociateHeader", m, 3 + r.used, s)
  BY <1>1, <1>2, <1>6, <1>7, StandsHeader DEF r
<1> QED BY <1>5, <1>8

Types == {"HandshakeRequest", "HandshakeResponse", "TcpRequestHeader", "TcpResponseHeader",
          "UdpAssociateHeader"}

\* What read_from accepts, from whatever bytes, stands for them: write_to would
\* write as many, and the same but for the ones read_from does not look at.
LEMMA AcceptsWhatIsWritten ==
    ASSUME NEW type \in Types, NEW s \in Seq(Byte), read_from(type, s).res = "ok"
    PROVE  Accepted(type, read_from(type, s).val, read_from(type, s).used, s)
<1>1. CASE type = "HandshakeRequest"
  BY <1>1, StandsRequest DEF read_from
<1>2. CASE type = "HandshakeResponse"
  BY <1>2, StandsResponse DEF read_from
<1>3. CASE type = "TcpRequestHeader"
  BY <1>3, StandsTcpRequest DEF read_from
<1>4. CASE type = "TcpResponseHeader"
  BY <1>4, StandsTcpResponse DEF read_from
<1>5. CASE type = "UdpAssociateHeader"
  BY <1>5, StandsUdp DEF read_from
<1> QED BY <1>1, <1>2, <1>3, <1>4, <1>5 DEF Types
-----------------------------------------------------------------------------
\* The stream.  The messages of a script are of the wire format, unless the
\* assertion on the length of a name refuses them.

LEMMA AddressConstants ==
    /\ \A ip \in Ip4 : ip \in Seq(Byte) /\ Len(ip) = 4
    /\ \A ip \in Ip6 : ip \in Seq(Words) /\ Len(ip) = 8
    /\ \A n \in Names : n \in Seq(Ascii)
    /\ \A p \in Ports : p \in Words
BY AddressAssumption

LEMMA AddressesAreWire ==
    ASSUME NEW a \in Addresses, Asserts(a)
    PROVE  WireAddress(a)
<1>1. CASE a \in [kind : {"V4"}, ip : Ip4, port : Ports]
  <2>1. a = [kind |-> "V4", ip |-> a.ip, port |-> a.port] /\ a.ip \in Ip4 /\ a.port \in Ports
    BY <1>1
  <2>2. a.ip \in Seq(Byte) /\ Len(a.ip) = 4 /\ a.port \in Words
    BY <2>1, AddressConstants
  <2> QED BY <2>1, <2>2 DEF WireAddress, WireV4
<1>2. CASE a \in [kind : {"V6"}, ip : Ip6, port : Ports]
  <2>1. a = [kind |-> "V6", ip |-> a.ip, port |-> a.port] /\ a.ip \in Ip6 /\ a.port \in Ports
    BY <1>2
  <2>2. a.ip \in Seq(Words) /\ Len(a.ip) = 8 /\ a.port \in Words
    BY <2>1, AddressConstants
  <2> QED BY <2>1, <2>2 DEF WireAddress, WireV6
<1>3. CASE a \in [kind : {"Domain"}, name : Names, port : Ports]
  <2>1. a = [kind |-> "Domain", name |-> a.name, port |-> a.port]
        /\ a.name \in Names /\ a.port \in Ports
    BY <1>3
  <2>2. a.name \in Seq(Ascii) /\ a.port \in Words
    BY <2>1, AddressConstants
  <2>3. a.kind = "Domain"
    BY <1>3
  <2>4. Len(a.name) <= 255
    BY <2>3 DEF Asserts
  <2> QED BY <2>1, <2>2, <2>4 DEF WireAddress, WireDomain
<1> QED BY <1>1, <1>2, <1>3 DEF Addresses

LEMMA MessagesAreWire ==
    ASSUME NEW type \in Types, NEW m \in Messages(type),
           "address" \in DOMAIN m => Asserts(m.address)
    PROVE  WireMessage(type, m)
<1>1. CASE type = "HandshakeRequest"
  <2>1. m \in [type : {type}, methods : MethodLists]
    BY <1>1 DEF Messages
  <2>2. m = [type |-> type, methods |-> m.methods] /\ m.methods \in MethodLists
    BY <2>1
  <2>3. m.methods \in Seq(Byte) /\ Len(m.methods) <= 255
    BY <2>2, MessageAssumption
  <2> QED BY <1>1, <2>2, <2>3 DEF WireMessage
<1>2. CASE type = "HandshakeResponse"
  <2>1. m \in [type : {type}, method : Methods]
    BY <1>2 DEF Messages
  <2>2. m = [type |-> type, method |-> m.method] /\ m.method \in Byte
    BY <2>1, MessageAssumption
  <2> QED BY <1>2, <2>2 DEF WireMessage
<1>3. CASE type = "TcpRequestHeader"
  <2>1. m \in [type : {type}, command : Commands, address : Addresses]
    BY <1>3 DEF Messages
  <2>2. /\ m = [type |-> type, command |-> m.command, address |-> m.address]
        /\ m.command \in Commands /\ m.address \in Addresses /\ "address" \in DOMAIN m
    BY <2>1
  <2>3. WireAddress(m.address)
    BY <2>2, AddressesAreWire
  <2> QED BY <1>3, <2>2, <2>3 DEF WireMessage
<1>4. CASE type = "TcpResponseHeader"
  <2>1. m \in [type : {type}, reply : Replies, address : Addresses]
    BY <1>4 DEF Messages
  <2>2. /\ m = [type |-> type, reply |-> m.reply, address |-> m.address]
        /\ m.reply \in Byte /\ m.address \in Addresses /\ "address" \in DOMAIN m
    BY <2>1, MessageAssumption
  <2>3. WireAddress(m.address)
    BY <2>2, AddressesAreWire
  <2> QED BY <1>4, <2>2, <2>3 DEF WireMessage
<1>5. CASE type = "UdpAssociateHeader"
  <2>1. m \in [type : {type}, frag : Frags, address : Addresses]
    BY <1>5 DEF Messages
  <2>2. /\ m = [type |-> type, frag |-> m.frag, address |-> m.address]
        /\ m.frag \in Byte /\ m.address \in Addresses /\ "address" \in DOMAIN m
    BY <2>1, MessageAssumption
  <2>3. WireAddress(m.address)
    BY <2>2, AddressesAreWire
  <2> QED BY <1>5, <2>2, <2>3 DEF WireMessage
<1> QED BY <1>1, <1>2, <1>3, <1>4, <1>5 DEF Types

\* write_to panics on a name that is too long, and never because its buffer is
\* too short.
LEMMA WriteOutcome ==
    ASSUME NEW type \in Types, NEW m \in Messages(type)
    PROVE  /\ Outcome(m) \in {"up", "panicked"}
           /\ Outcome(m) = "up" => WireMessage(type, m) /\ Serialized(m)
<1>1. CASE "address" \in DOMAIN m /\ ~Asserts(m.address)
  BY <1>1 DEF Outcome
<1>2. CASE ~("address" \in DOMAIN m /\ ~Asserts(m.address))
  <2>1. WireMessage(type, m)
    BY <1>2, MessagesAreWire
  <2>2. m.type = type
    BY <2>1 DEF WireMessage
  <2>3. Serialized(m)
    BY <2>1, <2>2, WritesMessage
  <2>4. ~(Len(write_to_buf(m)) > serialized_len(m))
    BY <2>3 DEF Serialized
  <2> QED BY <1>2, <2>1, <2>3, <2>4 DEF Outcome
<1> QED BY <1>1, <1>2

Directions == {"request", "response", "datagram"}

LEMMA Scripts ==
    ASSUME NEW d \in Directions
    PROVE  /\ Len(Script(d)) \in {1, 2} /\ Len(Script(d)) \in Nat
           /\ \A i \in 1..Len(Script(d)) : Script(d)[i] \in Types
BY DEF Directions, Script, Types

IsSeq(s) == \E S : s \in Seq(S)

LEMMA Appended ==
    ASSUME NEW s, IsSeq(s), NEW e
    PROVE  /\ IsSeq(Append(s, e)) /\ Len(s) \in Nat /\ Len(Append(s, e)) = Len(s) + 1
           /\ \A i \in 1..Len(s) : Append(s, e)[i] = s[i]
           /\ Append(s, e)[Len(s) + 1] = e /\ Append(s, e) # <<>>
<1>1. PICK S : s \in Seq(S)
  BY DEF IsSeq
<1> DEFINE T == S \cup {e}
<1>2. s \in Seq(T) /\ e \in T
  BY <1>1
<1> HIDE DEF T
<1>3. Append(s, e) \in Seq(T)
  BY <1>2
<1> QED BY <1>2, <1>3 DEF IsSeq

\* The inductive form of the type invariant: what was written is of the wire
\* format, and the last message read stands for the bytes it was read from.
Shape ==
    /\ TypeOK /\ BuffersSuffice /\ dir \in Directions
    /\ wire \in Seq(Byte) /\ IsSeq(written) /\ IsSeq(read)
    /\ Len(written) <= Len(Script(dir))
    /\ \A i \in 1..Len(written) : WireMessage(Script(dir)[i], written[i])

Stands ==
    read # <<>> =>
       /\ Len(read) \in 1..Len(Script(dir))
       /\ Accepted(Script(dir)[Len(read)], read[Len(read)], Len(raw), raw)

LEMMA ShapeInit == Init => Shape /\ Stands
<1> SUFFICES ASSUME Init PROVE Shape /\ Stands
  OBVIOUS
<1>1. dir \in Directions
  BY DEF Init, Directions
<1>2. /\ written = <<>> /\ wire = <<>> /\ read = <<>> /\ raw = <<>> /\ writer = "up"
      /\ payload = FALSE /\ ended = FALSE /\ damaged = "no"
  BY DEF Init
<1>3. <<>> \in Seq(Byte) /\ Len(<<>>) = 0 /\ 1..0 = {}
  OBVIOUS
<1>4. IsSeq(<<>>)
  BY <1>3 DEF IsSeq
<1>5. Len(Script(dir)) \in Nat
  BY <1>1, Scripts
<1>6. TypeOK
  <2>1. /\ \A i \in 1..Len(wire) : wire[i] \in Byte
        /\ \A i \in 1..Len(written) : written[i] \in Messages(Script(dir)[i])
    BY <1>2, <1>3
  <2>2. Len(read) <= Len(Script(dir)) /\ \A i \in 1..Len(read) : HasText(read[i])
    BY <1>2, <1>3, <1>5
  <2>3. payload \in BOOLEAN /\ ended \in BOOLEAN
    BY <1>2
  <2> QED BY <1>1, <1>2, <2>1, <2>2, <2>3 DEF TypeOK, Directions
<1> QED BY <1>1, <1>2, <1>3, <1>4, <1>5, <1>6 DEF Shape, Stands, BuffersSuffice

\* The name in a message of the wire format is text.
LEMMA NamesAreText ==
    ASSUME NEW type, NEW m, WireMessage(type, m)
    PROVE  HasText(m)
<1> SUFFICES ASSUME "address" \in DOMAIN m, m.address.kind = "Domain",
                    NEW i \in 1..Len(m.address.name)
             PROVE  m.address.name[i] \in Ascii
  BY DEF HasText
<1>1. WireAddress(m.address)
  BY DEF WireMessage
<1>2. WireDomain(m.address)
  BY <1>1 DEF WireAddress, WireV4, WireV6
<1>3. m.address.name \in Seq(Ascii)
  BY <1>2 DEF WireDomain
<1> QED BY <1>3

LEMMA ShapeFacts ==
    ASSUME Shape
    PROVE  /\ Len(written) \in Nat /\ Len(read) \in Nat /\ Len(wire) \in Nat
           /\ Len(Script(dir)) \in {1, 2} /\ Len(Script(dir)) \in Nat
           /\ \A i \in 1..Len(Script(dir)) : Script(dir)[i] \in Types
           /\ Len(read) <= Len(Script(dir))
<1>1. IsSeq(written) /\ IsSeq(read) /\ wire \in Seq(Byte) /\ dir \in Directions
  BY DEF Shape
<1>2. Len(read) <= Len(Script(dir))
  BY DEF Shape, TypeOK
<1>3. Len(written) \in Nat /\ Len(read) \in Nat
  BY <1>1 DEF IsSeq
<1> QED BY <1>1, <1>2, <1>3, Scripts

\* write_to writes a message of the script, or panics and writes nothing.
LEMMA WriteStep ==
    ASSUME Shape, Write
    PROVE  /\ dir' = dir /\ read' = read /\ raw' = raw /\ err' = err
           /\ payload' = payload /\ damaged' = damaged
           /\ ~ended /\ Len(written) < Len(Script(dir))
           /\ \/ /\ \E m \in Messages(Script(dir)[Len(written) + 1]) :
                       /\ WireMessage(Script(dir)[Len(written) + 1], m) /\ Serialized(m)
                       /\ written' = Append(written, m) /\ wire' = wire \o write_to_buf(m)
                 /\ writer' = "up" /\ ended' = FALSE
              \/ /\ writer' = "panicked" /\ ended' = TRUE
                 /\ written' = written /\ wire' = wire
<1>1. PICK m \in Messages(Script(dir)[Len(written) + 1]) :
         /\ writer' = Outcome(m) /\ ended' = (Outcome(m) # "up")
         /\ written' = IF Outcome(m) = "up" THEN Append(written, m) ELSE written
         /\ wire' = IF Outcome(m) = "up" THEN wire \o write_to_buf(m) ELSE wire
  BY DEF Write
<1>2. Len(written) < Len(Script(dir)) /\ ~ended
  BY DEF Write
<1>3. Len(written) + 1 \in 1..Len(Script(dir))
  BY <1>2, ShapeFacts
<1>4. Script(dir)[Len(written) + 1] \in Types
  BY <1>3, ShapeFacts
<1>5. /\ Outcome(m) \in {"up", "panicked"}
      /\ Outcome(m) = "up" => WireMessage(Script(dir)[Len(written) + 1], m) /\ Serialized(m)
  BY <1>4, WriteOutcome
<1>6. /\ dir' = dir /\ read' = read /\ raw' = raw /\ err' = err
      /\ payload' = payload /\ damaged' = damaged
  BY DEF Write
<1>7. CASE Outcome(m) = "up"
  BY <1>1, <1>2, <1>5, <1>6, <1>7
<1>8. CASE Outcome(m) = "panicked"
  BY <1>1, <1>2, <1>5, <1>6, <1>8
<1> QED BY <1>5, <1>7, <1>8

\* read_from returns a message of the script and takes its bytes, or an error.
LEMMA ReadStep ==
    ASSUME Shape, Read
    PROVE  LET r == read_from(Script(dir)[Len(read) + 1], wire) IN
           /\ dir' = dir /\ written' = written /\ writer' = writer
           /\ payload' = payload /\ damaged' = damaged /\ ended' = ended
           /\ err = "none" /\ Len(read) < Len(Script(dir))
           /\ Script(dir)[Len(read) + 1] \in Types
           /\ \/ /\ r.res = "ok"
                 /\ Accepted(Script(dir)[Len(read) + 1], r.val, r.used, wire)
                 /\ read' = Append(read, r.val) /\ raw' = Front(wire, r.used)
                 /\ wire' = Back(wire, r.used) /\ err' = err
              \/ /\ r.res # "ok" /\ (r.res = "short" => ended /\ err' = "eof")
                 /\ read' = read /\ raw' = raw /\ wire' = wire
<1> DEFINE type == Script(dir)[Len(read) + 1]
           r == read_from(type, wire)
<1>1. err = "none" /\ Len(read) < Len(Script(dir))
  BY DEF Read
<1>2. Len(read) + 1 \in 1..Len(Script(dir))
  BY <1>1, ShapeFacts
<1>3. type \in Types /\ wire \in Seq(Byte)
  BY <1>2, ShapeFacts DEF Shape
<1> HIDE DEF type
<1>4. r.res = "ok" => Accepted(type, r.val, r.used, wire)
  BY <1>3, AcceptsWhatIsWritten
<1>5. /\ dir' = dir /\ written' = written /\ writer' = writer
      /\ payload' = payload /\ damaged' = damaged /\ ended' = ended
  BY DEF Read
<1>6. \/ /\ r.res = "ok"
         /\ read' = Append(read, r.val) /\ raw' = Front(wire, r.used)
         /\ wire' = Back(wire, r.used) /\ err' = err
      \/ /\ r.res = "short" /\ ended
         /\ err' = "eof" /\ UNCHANGED <<read, raw, wire>>
      \/ /\ r.res \notin {"ok", "short"}
         /\ err' = r.res /\ UNCHANGED <<read, raw, wire>>
  BY DEF Read, type
<1> HIDE DEF r
<1>7. \/ /\ r.res = "ok" /\ Accepted(type, r.val, r.used, wire)
         /\ read' = Append(read, r.val) /\ raw' = Front(wire, r.used)
         /\ wire' = Back(wire, r.used) /\ err' = err
      \/ /\ r.res # "ok" /\ (r.res = "short" => ended /\ err' = "eof")
         /\ read' = read /\ raw' = raw /\ wire' = wire
  BY <1>4, <1>6
<1> QED BY <1>1, <1>3, <1>5, <1>7 DEF r, type

LEMMA ShapeWrite == Shape /\ Stands /\ Write => Shape' /\ Stands'
<1> SUFFICES ASSUME Shape, Stands, Write PROVE Shape' /\ Stands'
  OBVIOUS
<1>1. /\ dir' = dir /\ read' = read /\ raw' = raw /\ payload' = payload /\ damaged' = damaged
      /\ Len(written) < Len(Script(dir))
  BY WriteStep
<1>2. /\ Len(written) \in Nat /\ Len(Script(dir)) \in Nat /\ IsSeq(written) /\ wire \in Seq(Byte)
      /\ IsSeq(read) /\ dir \in Directions
  BY ShapeFacts DEF Shape
<1>3. /\ \A i \in 1..Len(written) : written[i] \in Messages(Script(dir)[i])
      /\ \A i \in 1..Len(written) : WireMessage(Script(dir)[i], written[i])
      /\ Len(read) <= Len(Script(dir)) /\ writer \in {"up", "panicked", "overfull"}
      /\ damaged \in {"no", "cut", "noise"} /\ \A i \in 1..Len(read) : HasText(read[i])
  BY DEF Shape, TypeOK
<1>4. payload \in BOOLEAN
  BY DEF Shape, TypeOK
<1>5. Stands'
  BY <1>1 DEF Stands
<1>6. /\ IsSeq(written') /\ wire' \in Seq(Byte) /\ Len(written') <= Len(Script(dir))
      /\ \A i \in 1..Len(written') :
            /\ written'[i] \in Messages(Script(dir)[i])
            /\ WireMessage(Script(dir)[i], written'[i])
  <2>1. CASE written' = written /\ wire' = wire
    BY <1>1, <1>2, <1>3, <2>1
  <2>2. ASSUME NEW m \in Messages(Script(dir)[Len(written) + 1]),
               WireMessage(Script(dir)[Len(written) + 1], m), Serialized(m),
               written' = Append(written, m), wire' = wire \o write_to_buf(m)
        PROVE  /\ IsSeq(written') /\ wire' \in Seq(Byte) /\ Len(written') <= Len(Script(dir))
               /\ \A i \in 1..Len(written') :
                     /\ written'[i] \in Messages(Script(dir)[i])
                     /\ WireMessage(Script(dir)[i], written'[i])
    <3>1. /\ IsSeq(written') /\ Len(written') = Len(written) + 1
          /\ \A i \in 1..Len(written) : written'[i] = written[i]
          /\ written'[Len(written) + 1] = m
      BY <1>2, <2>2, Appended
    <3>2. wire' \in Seq(Byte)
      BY <1>2, <2>2 DEF Serialized
    <3>3. Len(written') <= Len(Script(dir))
      BY <1>1, <1>2, <3>1
    <3>4. ASSUME NEW i \in 1..Len(written')
          PROVE  /\ written'[i] \in Messages(Script(dir)[i])
                 /\ WireMessage(Script(dir)[i], written'[i])
      <4>1. CASE i \in 1..Len(written)
        BY <1>3, <3>1, <4>1
      <4>2. CASE i = Len(written) + 1
        BY <2>2, <3>1, <4>2
      <4> QED BY <1>2, <3>1, <4>1, <4>2
    <3> QED BY <3>1, <3>2, <3>3, <3>4
  <2> QED BY <2>1, <2>2, WriteStep
<1>7. writer' \in {"up", "panicked"}
  BY WriteStep
<1>8. ended' \in BOOLEAN
  BY WriteStep
<1>9. \A i \in 1..Len(wire') : wire'[i] \in Byte
  BY <1>6
<1>10. TypeOK'
  BY <1>1, <1>2, <1>3, <1>4, <1>6, <1>7, <1>8, <1>9 DEF TypeOK, Directions
<1> QED BY <1>1, <1>2, <1>5, <1>6, <1>7, <1>10 DEF Shape, BuffersSuffice

LEMMA ShapeRead == Shape /\ Stands /\ Read => Shape' /\ Stands'
<1> SUFFICES ASSUME Shape, Stands, Read PROVE Shape' /\ Stands'
  OBVIOUS
<1> DEFINE type == Script(dir)[Len(read) + 1]
           r == read_from(type, wire)
<1>1. /\ dir' = dir /\ written' = written /\ writer' = writer
      /\ payload' = payload /\ damaged' = damaged /\ ended' = ended
      /\ Len(read) < Len(Script(dir))
  BY ReadStep
<1>2. /\ Len(read) \in Nat /\ Len(Script(dir)) \in Nat /\ wire \in Seq(Byte)
      /\ IsSeq(read) /\ dir \in Directions
  BY ShapeFacts DEF Shape
<1>3. /\ \A i \in 1..Len(written) : written[i] \in Messages(Script(dir)[i])
      /\ writer \in {"up", "panicked", "overfull"} /\ damaged \in {"no", "cut", "noise"}
      /\ Len(read) <= Len(Script(dir)) /\ \A i \in 1..Len(read) : HasText(read[i])
  BY DEF Shape, TypeOK
<1>4. payload \in BOOLEAN /\ ended \in BOOLEAN
  BY DEF Shape, TypeOK
<1> HIDE DEF type, r
<1>5. CASE /\ r.res = "ok" /\ Accepted(type, r.val, r.used, wire)
           /\ read' = Append(read, r.val) /\ raw' = Front(wire, r.used)
           /\ wire' = Back(wire, r.used)
  <2> DEFINE n == r.used
  <2>1. n \in Nat /\ n <= Len(wire) /\ WireMessage(type, r.val) /\ n = serialized_len(r.val)
        /\ Len(write_to_buf(r.val)) = n
        /\ \A i \in 1..n : i \in Unread(type) \/ write_to_buf(r.val)[i] = wire[i]
    BY <1>5 DEF Accepted
  <2> HIDE DEF n
  <2>2. raw' \in Seq(Byte) /\ Len(raw') = n /\ \A i \in 1..n : raw'[i] = wire[i]
    <3>1. raw' = Front(wire, n)
      BY <1>5 DEF n
    <3> QED BY ONLY <1>2, <2>1, <3>1 DEF Front
  <2>3. wire' \in Seq(Byte)
    <3>1. wire' = Back(wire, n)
      BY <1>5 DEF n
    <3> QED BY <1>2, <2>1, <3>1, Behind
  <2>4. /\ IsSeq(read') /\ Len(read') = Len(read) + 1 /\ read'[Len(read) + 1] = r.val
        /\ read' # <<>> /\ \A i \in 1..Len(read) : read'[i] = read[i]
    BY <1>2, <1>5, Appended
  <2>5. Accepted(type, r.val, Len(raw'), raw')
    BY <2>1, <2>2 DEF Accepted
  <2>6. Script(dir)[Len(read')] = type
    BY <2>4 DEF type
  <2>7. Len(read') \in 1..Len(Script(dir))
    BY <1>1, <1>2, <2>4
  <2>8. Stands'
    BY <1>1, <2>4, <2>5, <2>6, <2>7 DEF Stands
  <2>9. \A i \in 1..Len(wire') : wire'[i] \in Byte
    BY <2>3
  <2>10. ASSUME NEW i \in 1..Len(read') PROVE HasText(read'[i])
    <3>1. CASE i \in 1..Len(read)
      BY <1>3, <2>4, <3>1
    <3>2. CASE i = Len(read) + 1
      BY <2>1, <2>4, <3>2, NamesAreText
    <3> QED BY <1>2, <2>4, <3>1, <3>2
  <2>11. TypeOK'
    BY <1>1, <1>2, <1>3, <1>4, <2>7, <2>9, <2>10 DEF TypeOK, Directions
  <2> QED BY <1>1, <2>3, <2>4, <2>8, <2>11 DEF Shape, BuffersSuffice
<1>6. CASE read' = read /\ raw' = raw /\ wire' = wire
  <2>1. Stands'
    BY <1>1, <1>6 DEF Stands
  <2>2. TypeOK'
    BY <1>1, <1>6 DEF Shape, TypeOK
  <2> QED BY <1>1, <1>6, <2>1, <2>2 DEF Shape, BuffersSuffice
<1> QED BY <1>5, <1>6, ReadStep DEF r, type

\* The other steps change at most the bytes of the stream, and its end.
LEMMA ShapeOther ==
    ASSUME Shape, Stands, wire' \in Seq(Byte), dir' = dir, written' = written, read' = read,
           raw' = raw, writer' = writer, payload' \in BOOLEAN, ended' \in BOOLEAN,
           damaged' \in {"no", "cut", "noise"}
    PROVE  Shape' /\ Stands'
<1>1. Stands'
  BY DEF Stands
<1>2. \A i \in 1..Len(wire') : wire'[i] \in Byte
  OBVIOUS
<1>3. /\ dir \in Directions /\ \A i \in 1..Len(written) : written[i] \in Messages(Script(dir)[i])
      /\ Len(read) <= Len(Script(dir)) /\ writer \in {"up", "panicked", "overfull"}
      /\ \A i \in 1..Len(read) : HasText(read[i])
  BY DEF Shape, TypeOK
<1>4. TypeOK'
  BY <1>2, <1>3 DEF TypeOK, Directions
<1> QED BY <1>1, <1>4 DEF Shape, BuffersSuffice

LEMMA ShapeNext == Shape /\ Stands /\ [Next]_vars => Shape' /\ Stands'
<1> SUFFICES ASSUME Shape, Stands, [Next]_vars PROVE Shape' /\ Stands'
  OBVIOUS
<1>1. wire \in Seq(Byte) /\ damaged \in {"no", "cut", "noise"}
  BY DEF Shape, TypeOK
<1>2. payload \in BOOLEAN /\ ended \in BOOLEAN
  BY DEF Shape, TypeOK
<1>3. CASE Write
  BY <1>3, ShapeWrite
<1>4. CASE Read
  BY <1>4, ShapeRead
<1>5. CASE WritePayload
  <2>1. /\ dir' = dir /\ written' = written /\ read' = read /\ raw' = raw
        /\ writer' = writer /\ ended' = ended /\ damaged' = damaged
        /\ wire' = wire \o Payload
    BY <1>5 DEF WritePayload
  <2>2. payload' \in BOOLEAN
    BY <1>5 DEF WritePayload
  <2>3. wire' \in Seq(Byte)
    BY <1>1, <2>1, StreamAssumption
  <2> QED BY <1>1, <1>2, <2>1, <2>2, <2>3, ShapeOther
<1>6. CASE End
  <2>1. /\ dir' = dir /\ written' = written /\ read' = read /\ raw' = raw
        /\ writer' = writer /\ payload' = payload
    BY <1>6 DEF End
  <2>2. ended' \in BOOLEAN
    BY <1>6 DEF End
  <2>3. damaged' \in {"no", "cut", "noise"}
    BY <1>1, <1>6 DEF End
  <2>4. wire' \in Seq(Byte)
    <3>1. wire' = wire \/ \E n \in Cuts \cup {Len(wire) - 1} :
             0 <= n /\ n < Len(wire) /\ wire' = Front(wire, n)
      BY <1>6 DEF End
    <3>2. ASSUME NEW n \in Cuts \cup {Len(wire) - 1}, 0 <= n, n < Len(wire)
          PROVE  Front(wire, n) \in Seq(Byte)
      <4>1. n \in Nat
        BY <1>1, <3>2, StreamAssumption
      <4> QED BY <1>1, <3>2, <4>1 DEF Front
    <3> QED BY <1>1, <3>1, <3>2
  <2> QED BY <1>2, <2>1, <2>2, <2>3, <2>4, ShapeOther
<1>7. CASE Garble
  <2>1. /\ dir' = dir /\ written' = written /\ read' = read /\ raw' = raw
        /\ writer' = writer /\ payload' = payload /\ ended' = ended /\ damaged' = "noise"
    BY <1>7 DEF Garble
  <2>2. PICK p \in Places, b \in Noise : p <= Len(wire) /\ wire' = [wire EXCEPT ![p] = b]
    BY <1>7 DEF Garble
  <2>3. b \in Byte /\ p \in 1..Len(wire)
    BY <1>1, <2>2, StreamAssumption
  <2>4. wire' \in Seq(Byte)
    BY ONLY <1>1, <2>2, <2>3
  <2> QED BY <1>2, <2>1, <2>4, ShapeOther
<1>8. CASE UNCHANGED vars
  <2>1. /\ dir' = dir /\ written' = written /\ read' = read /\ raw' = raw /\ wire' = wire
        /\ writer' = writer /\ payload' = payload /\ ended' = ended /\ damaged' = damaged
    BY <1>8 DEF vars
  <2> QED BY <1>1, <1>2, <2>1, ShapeOther
<1> QED BY <1>3, <1>4, <1>5, <1>6, <1>7, <1>8 DEF Next

\* Every variable has its type, and the stream carries bytes: no conversion of
\* write_to produces anything else, whatever it is given; and no name read_from
\* returns is anything but text, whatever bytes it reads.
THEOREM TypeCorrect == Spec => []TypeOK
<1>1. Init => Shape /\ Stands
  BY ShapeInit
<1>2. Shape /\ Stands /\ [Next]_vars => (Shape /\ Stands)'
  BY ShapeNext
<1>3. Shape => TypeOK
  BY DEF Shape
<1> QED BY <1>1, <1>2, <1>3, PTL DEF Spec

\* The buffer write_to allocates is never too small for what write_to_buf puts
\* into it, for any address and any message.
THEOREM BuffersAreLargeEnough == Spec => []BuffersSuffice
<1>1. Init => Shape /\ Stands
  BY ShapeInit
<1>2. Shape /\ Stands /\ [Next]_vars => (Shape /\ Stands)'
  BY ShapeNext
<1>3. Shape => BuffersSuffice
  BY DEF Shape
<1> QED BY <1>1, <1>2, <1>3, PTL DEF Spec

LEMMA StandsForBytes == Shape /\ Stands => ReadStandsForBytes
<1> SUFFICES ASSUME Shape, Stands, read # <<>>
             PROVE  LET m == read[Len(read)]
                        again == write_to_buf(m)
                        reserved == CASE m.type = "UdpAssociateHeader" -> {1, 2}
                                      [] m.type \in {"TcpRequestHeader", "TcpResponseHeader"} -> {3}
                                      [] m.type \in {"HandshakeRequest", "HandshakeResponse"} -> {}
                    IN  /\ Len(raw) = serialized_len(m) /\ Len(again) = Len(raw)
                        /\ \A i \in 1..Len(raw) : i \in reserved \/ again[i] = raw[i]
  BY DEF ReadStandsForBytes
<1> DEFINE m == read[Len(read)]
           type == Script(dir)[Len(read)]
<1>1. Accepted(type, m, Len(raw), raw)
  BY DEF Stands
<1> HIDE DEF m, type
<1>2. /\ WireMessage(type, m) /\ Len(raw) = serialized_len(m)
      /\ Len(write_to_buf(m)) = Len(raw)
      /\ \A i \in 1..Len(raw) : i \in Unread(type) \/ write_to_buf(m)[i] = raw[i]
  BY <1>1 DEF Accepted
<1>3. m.type = type
  BY <1>2 DEF WireMessage
<1>4. /\ Len(raw) = serialized_len(m) /\ Len(write_to_buf(m)) = Len(raw)
      /\ \A i \in 1..Len(raw) : i \in Unread(m.type) \/ write_to_buf(m)[i] = raw[i]
  BY <1>2, <1>3
<1> QED BY <1>4 DEF Unread, m

\* Whatever the stream carries, damaged or not, a message read_from accepts
\* stands for the bytes it was read from.
THEOREM MessagesStandForBytes == Spec => []ReadStandsForBytes
<1>1. Init => Shape /\ Stands
  BY ShapeInit
<1>2. Shape /\ Stands /\ [Next]_vars => (Shape /\ Stands)'
  BY ShapeNext
<1>3. Shape /\ Stands => ReadStandsForBytes
  BY StandsForBytes
<1> QED BY <1>1, <1>2, <1>3, PTL DEF Spec
-----------------------------------------------------------------------------
\* Reader and writer in step.  What is due is what was written and not read,
\* and then the payload; the stream carries all of it, or when it was cut a
\* beginning of it.

Left(n) == IF n = Len(written) THEN <<>>
           ELSE IF n + 1 = Len(written) THEN write_to_buf(written[Len(written)])
           ELSE write_to_buf(written[1]) \o write_to_buf(written[2])
Extra == IF payload THEN Payload ELSE <<>>
Due(n) == Left(n) \o Extra

Follows ==
    damaged # "noise" =>
       /\ Len(read) <= Len(written) /\ \A i \in 1..Len(read) : read[i] = written[i]
       /\ payload => Len(written) = Len(Script(dir))
       /\ Len(wire) <= Len(Due(Len(read)))
       /\ \A i \in 1..Len(wire) : wire[i] = Due(Len(read))[i]
       /\ damaged = "no" => Len(wire) = Len(Due(Len(read)))
       /\ damaged = "cut" => ended
       /\ damaged = "no" /\ err # "none" =>
             err = "eof" /\ ended /\ Len(read) = Len(written) /\ wire = <<>>

LEMMA Regroup ==
    ASSUME NEW S, NEW a \in Seq(S), NEW b \in Seq(S), NEW c \in Seq(S)
    PROVE  /\ (a \o b) \o c = a \o (b \o c)
           /\ <<>> \o a = a /\ a \o <<>> = a
OBVIOUS

LEMMA AtMostTwo ==
    ASSUME Shape
    PROVE  Len(written) \in {0, 1, 2}
<1>1. Len(written) \in Nat /\ Len(Script(dir)) \in {1, 2}
  BY ShapeFacts
<1>2. Len(written) <= Len(Script(dir))
  BY DEF Shape
<1>3. \A x \in Nat : \A y \in {1, 2} : x <= y => x \in {0, 1, 2}
  OBVIOUS
<1> QED BY ONLY <1>1, <1>2, <1>3, Zenon

LEMMA WrittenBytes ==
    ASSUME Shape, NEW i \in 1..Len(written)
    PROVE  /\ WireMessage(Script(dir)[i], written[i])
           /\ write_to_buf(written[i]) \in Seq(Byte)
           /\ Len(write_to_buf(written[i])) = serialized_len(written[i])
           /\ serialized_len(written[i]) \in Nat
<1>1. WireMessage(Script(dir)[i], written[i])
  BY DEF Shape
<1>2. written[i].type = Script(dir)[i]
  BY <1>1 DEF WireMessage
<1> QED BY <1>1, <1>2, WritesMessage DEF Serialized

LEMMA DueType ==
    ASSUME Shape, NEW n \in Nat, n <= Len(written)
    PROVE  /\ Left(n) \in Seq(Byte) /\ Extra \in Seq(Byte) /\ Due(n) \in Seq(Byte)
           /\ Len(Due(n)) \in Nat
<1>1. Len(written) \in {0, 1, 2}
  BY AtMostTwo
<1>2. <<>> \in Seq(Byte)
  OBVIOUS
<1>3. Left(n) \in Seq(Byte)
  <2>1. CASE n = Len(written)
    BY <1>2, <2>1 DEF Left
  <2>2. CASE n + 1 = Len(written)
    <3>1. Len(written) \in 1..Len(written) /\ n # Len(written)
      BY <1>1, <2>2
    <3> QED BY <2>2, <3>1, WrittenBytes DEF Left
  <2>3. CASE n # Len(written) /\ n + 1 # Len(written)
    <3>1. 1 \in 1..Len(written) /\ 2 \in 1..Len(written)
      BY <1>1, <2>3
    <3>2. Left(n) = write_to_buf(written[1]) \o write_to_buf(written[2])
      BY <2>3 DEF Left
    <3>3. write_to_buf(written[1]) \in Seq(Byte) /\ write_to_buf(written[2]) \in Seq(Byte)
      BY <3>1, WrittenBytes
    <3> QED BY ONLY <3>2, <3>3
  <2> QED BY <2>1, <2>2, <2>3
<1>4. Extra \in Seq(Byte)
  BY <1>2, StreamAssumption DEF Extra
<1>5. Due(n) \in Seq(Byte)
  BY <1>3, <1>4 DEF Due
<1> QED BY <1>3, <1>4, <1>5

\* What is due begins with the next message.
LEMMA DueNext ==
    ASSUME Shape, NEW n \in Nat, n < Len(written)
    PROVE  Due(n) = write_to_buf(written[n + 1]) \o Due(n + 1)
<1>1. Len(written) \in {0, 1, 2}
  BY AtMostTwo
<1> DEFINE w == write_to_buf(written[n + 1])
<1>2. n + 1 \in 1..Len(written)
  BY <1>1
<1>3. w \in Seq(Byte)
  BY <1>2, WrittenBytes
<1>4. Extra \in Seq(Byte) /\ Left(n + 1) \in Seq(Byte)
  BY <1>1, DueType
<1>5. Left(n) = w \o Left(n + 1)
  <2>1. CASE n + 1 = Len(written)
    <3>1. n # Len(written)
      BY <1>1, <2>1
    <3>2. Left(n) = w /\ Left(n + 1) = <<>>
      BY <2>1, <3>1 DEF Left
    <3> QED BY <1>3, <3>2, Regroup
  <2>2. CASE n + 1 # Len(written)
    <3>1. n = 0 /\ Len(written) = 2 /\ n # Len(written)
      <4>1. n < Len(written) /\ n \in Nat
        OBVIOUS
      <4>2. \A x \in {0, 1, 2} : n < x /\ n + 1 # x => n = 0 /\ x = 2 /\ n # x
        OBVIOUS
      <4> QED BY ONLY <1>1, <2>2, <4>1, <4>2, Zenon
    <3>2. Left(n) = write_to_buf(written[1]) \o write_to_buf(written[2])
      BY <2>2, <3>1 DEF Left
    <3>3. Left(n + 1) = write_to_buf(written[2])
      BY <3>1 DEF Left
    <3>4. w = write_to_buf(written[1])
      BY <3>1
    <3> QED BY <3>2, <3>3, <3>4
  <2> QED BY <2>1, <2>2
<1> HIDE DEF w
<1>6. (w \o Left(n + 1)) \o Extra = w \o (Left(n + 1) \o Extra)
  BY <1>3, <1>4, Regroup, SMTT(30)
<1> QED BY <1>5, <1>6 DEF Due, w

LEMMA ReadsNothing ==
    ASSUME NEW type \in Types
    PROVE  read_from(type, <<>>) = Short
<1>1. Len(<<>>) = 0
  OBVIOUS
<1>2. /\ HandshakeRequest_read(<<>>) = Short /\ HandshakeResponse_read(<<>>) = Short
  BY <1>1 DEF HandshakeRequest_read, HandshakeResponse_read
<1>3. TcpRequestHeader_read(<<>>) = Short
  BY <1>1 DEF TcpRequestHeader_read, WithAddress
<1>4. TcpResponseHeader_read(<<>>) = Short
  BY <1>1 DEF TcpResponseHeader_read, WithAddress
<1>5. UdpAssociateHeader_read(<<>>) = Short
  BY <1>1 DEF UdpAssociateHeader_read, WithAddress
<1> QED BY <1>2, <1>3, <1>4, <1>5 DEF read_from, Types

LEMMA FollowsInit == Init => Follows
<1> SUFFICES ASSUME Init PROVE Follows
  OBVIOUS
<1>1. /\ written = <<>> /\ wire = <<>> /\ read = <<>> /\ err = "none"
      /\ payload = FALSE /\ damaged = "no"
  BY DEF Init
<1>2. Len(<<>>) = 0 /\ 1..0 = {} /\ <<>> \o <<>> = <<>>
  OBVIOUS
<1>3. Due(Len(read)) = <<>>
  BY <1>1, <1>2 DEF Due, Left, Extra
<1> QED BY <1>1, <1>2, <1>3 DEF Follows

\* The messages read are not touched by what is written later.
LEMMA FollowsWrite == Shape /\ Follows /\ Write => Follows'
<1> SUFFICES ASSUME Shape, Follows, Write, (damaged # "noise")' PROVE Follows'
  BY DEF Follows
<1> DEFINE k == Len(read)
<1>1. /\ dir' = dir /\ read' = read /\ err' = err
      /\ payload' = payload /\ damaged' = damaged /\ ~ended /\ Len(written) < Len(Script(dir))
  BY WriteStep
<1>2. /\ k <= Len(written) /\ \A i \in 1..k : read[i] = written[i]
      /\ payload => Len(written) = Len(Script(dir))
      /\ Len(wire) <= Len(Due(k)) /\ \A i \in 1..Len(wire) : wire[i] = Due(k)[i]
      /\ damaged = "no" => Len(wire) = Len(Due(k))
      /\ damaged = "cut" => ended
      /\ damaged = "no" /\ err # "none" => ended
  BY <1>1 DEF Follows
<1>3. /\ Len(written) \in Nat /\ k \in Nat /\ Len(Script(dir)) \in Nat /\ wire \in Seq(Byte)
      /\ IsSeq(written) /\ damaged \in {"no", "cut", "noise"} /\ Len(wire) \in Nat
  BY ShapeFacts DEF Shape, TypeOK
<1>4. damaged = "no" /\ err = "none" /\ payload # TRUE
  <2>1. damaged = "no"
    BY <1>1, <1>2, <1>3
  <2>2. Len(written) # Len(Script(dir))
    BY <1>1, <1>3
  <2> QED BY <1>1, <1>2, <2>1, <2>2
<1>5. Due(k) \in Seq(Byte) /\ Left(k) \in Seq(Byte)
  BY <1>2, <1>3, DueType
<1>6. wire = Due(k)
  BY <1>2, <1>3, <1>4, <1>5, SameSeq
<1>7. Extra = <<>> /\ Extra' = <<>>
  BY <1>1, <1>4 DEF Extra
<1>8. wire = Left(k)
  BY <1>5, <1>6, <1>7, Regroup DEF Due
<1>9. CASE written' = written /\ wire' = wire /\ ended' = TRUE
  <2>1. Due(k)' = Due(k)
    BY <1>1, <1>9 DEF Due, Left, Extra
  <2> QED BY <1>1, <1>2, <1>4, <1>9, <2>1 DEF Follows
<1>10. ASSUME NEW m, Serialized(m), written' = Append(written, m),
              wire' = wire \o write_to_buf(m), ended' = FALSE
       PROVE  Follows'
  <2> DEFINE w == write_to_buf(m)
  <2>1. /\ Len(written') = Len(written) + 1
        /\ \A i \in 1..Len(written) : written'[i] = written[i]
        /\ written'[Len(written) + 1] = m
    BY <1>3, <1>10, Appended
  <2>2. w \in Seq(Byte)
    BY <1>10 DEF Serialized
  <2>3. Len(written) \in {0, 1}
    <3>1. \A x \in Nat : \A y \in {1, 2} : x < y => x \in {0, 1}
      OBVIOUS
    <3>2. Len(Script(dir)) \in {1, 2}
      BY ShapeFacts
    <3> QED BY ONLY <1>1, <1>3, <3>1, <3>2, Zenon
  <2> HIDE DEF w
  <2>4. Left(k)' = Left(k) \o w
    <3>1. CASE k = Len(written)
      <4>1. Left(k) = <<>>
        BY <3>1 DEF Left
      <4>2. k' = k /\ k # Len(written') /\ k + 1 = Len(written')
        BY <1>1, <1>3, <2>1, <3>1
      <4>3. Left(k)' = w
        BY <2>1, <3>1, <4>2 DEF Left, w
      <4> QED BY <2>2, <4>1, <4>3, Regroup
    <3>2. CASE k # Len(written)
      <4>1. k = 0 /\ Len(written) = 1
        <5>1. \A x \in {0, 1} : k <= x /\ k # x => k = 0 /\ x = 1
          BY <1>3
        <5> QED BY ONLY <1>2, <2>3, <3>2, <5>1, Zenon
      <4>2. 1 \in 1..Len(written) /\ k # Len(written) /\ k + 1 = Len(written)
        BY <4>1
      <4>3. Left(k) = write_to_buf(written[1])
        BY <4>1, <4>2 DEF Left
      <4>4. k' = k /\ Len(written') = 2 /\ written'[1] = written[1] /\ written'[2] = m
        BY <1>1, <2>1, <4>1, <4>2
      <4>5. Left(k)' = write_to_buf(written[1]) \o w
        BY <4>1, <4>4 DEF Left, w
      <4> QED BY <4>3, <4>5
    <3> QED BY <3>1, <3>2
  <2>5. Due(k)' = wire'
    <3>1. wire' \in Seq(Byte) /\ wire' = Left(k) \o w
      BY <1>3, <1>8, <1>10, <2>2 DEF w
    <3>2. Due(k)' = wire' \o <<>>
      BY <1>7, <2>4, <3>1 DEF Due
    <3> QED BY <3>1, <3>2, Regroup
  <2>6. Len(read') <= Len(written') /\ \A i \in 1..Len(read') : read'[i] = written'[i]
    <3>1. \A i \in 1..k : i \in 1..Len(written)
      BY <1>2, <1>3
    <3>2. k <= Len(written) + 1
      BY <1>2, <1>3
    <3> QED BY <1>1, <1>2, <2>1, <3>1, <3>2
  <2>7. wire' \in Seq(Byte) /\ Len(wire') \in Nat
    BY <1>3, <1>10, <2>2 DEF w
  <2>8. Len(wire') <= Len(Due(k)')
    BY <2>5, <2>7
  <2>9. payload' # TRUE /\ damaged' = "no" /\ err' = "none"
    BY <1>1, <1>4
  <2> QED BY <2>5, <2>6, <2>8, <2>9 DEF Follows
<1> QED BY <1>9, <1>10, WriteStep

LEMMA FollowsRead == Shape /\ Follows /\ Read => Follows'
<1> SUFFICES ASSUME Shape, Follows, Read, (damaged # "noise")' PROVE Follows'
  BY DEF Follows
<1> DEFINE k == Len(read)
           type == Script(dir)[k + 1]
           r == read_from(type, wire)
<1>1. /\ dir' = dir /\ written' = written /\ payload' = payload /\ damaged' = damaged
      /\ ended' = ended /\ err = "none" /\ k < Len(Script(dir)) /\ type \in Types
  BY ReadStep
<1>2. /\ k <= Len(written) /\ \A i \in 1..k : read[i] = written[i]
      /\ payload => Len(written) = Len(Script(dir))
      /\ Len(wire) <= Len(Due(k)) /\ \A i \in 1..Len(wire) : wire[i] = Due(k)[i]
      /\ damaged = "no" => Len(wire) = Len(Due(k))
      /\ damaged = "cut" => ended
  BY <1>1 DEF Follows
<1>3. /\ Len(written) \in Nat /\ k \in Nat /\ Len(Script(dir)) \in Nat /\ wire \in Seq(Byte)
      /\ IsSeq(read) /\ damaged \in {"no", "cut", "noise"} /\ Len(wire) \in Nat
  BY ShapeFacts DEF Shape, TypeOK
<1>4. Due(k) \in Seq(Byte)
  BY <1>2, <1>3, DueType
<1>5. \/ /\ r.res = "ok"
         /\ read' = Append(read, r.val) /\ wire' = Back(wire, r.used) /\ err' = err
      \/ /\ r.res # "ok" /\ (r.res = "short" => ended /\ err' = "eof")
         /\ read' = read /\ wire' = wire
  BY ReadStep
<1> HIDE DEF type, r
<1>6. CASE k = Len(written)
  <2>1. payload # TRUE
    <3>1. Len(written) # Len(Script(dir))
      BY <1>1, <1>3, <1>6
    <3> QED BY <1>2, <3>1
  <2>2. Due(k) = <<>>
    <3>1. <<>> \o <<>> = <<>>
      OBVIOUS
    <3>2. Left(k) = <<>> /\ Extra = <<>>
      BY <1>6, <2>1 DEF Left, Extra
    <3> QED BY <3>1, <3>2 DEF Due
  <2>3. wire = <<>>
    BY <1>2, <1>3, <2>2
  <2>4. r = Short
    BY <1>1, <2>3, ReadsNothing DEF r
  <2>5. ended /\ err' = "eof" /\ read' = read /\ wire' = wire
    BY <1>5, <2>4 DEF Short
  <2>6. Due(k)' = Due(k)
    BY <1>1, <2>5 DEF Due, Left, Extra
  <2> QED BY <1>1, <1>2, <1>6, <2>3, <2>5, <2>6 DEF Follows
<1>7. CASE k < Len(written)
  <2> DEFINE m == written[k + 1]
             w == write_to_buf(m)
             n == serialized_len(m)
             D == Due(k + 1)
  <2>1. k + 1 \in 1..Len(written) /\ k + 1 <= Len(written)
    BY <1>3, <1>7
  <2>2. WireMessage(type, m) /\ w \in Seq(Byte) /\ Len(w) = n /\ n \in Nat
    BY <2>1, WrittenBytes DEF type
  <2>3. Due(k) = w \o D
    BY <1>3, <1>7, DueNext
  <2>4. D \in Seq(Byte)
    BY <1>3, <2>1, DueType
  <2> HIDE DEF w, D, n, m
  <2>5. /\ Len(Due(k)) = n + Len(D) /\ Len(D) \in Nat
        /\ \A i \in 1..n : Due(k)[i] = w[i]
        /\ \A i \in 1..Len(D) : Due(k)[i + n] = D[i]
    <3>1. /\ Len(w \o D) = Len(w) + Len(D) /\ Len(D) \in Nat
          /\ \A i \in 1..Len(w) : (w \o D)[i] = w[i]
          /\ \A i \in 1..Len(D) : (w \o D)[i + Len(w)] = D[i]
      <4>1. w \in Seq(Byte)
        BY <2>2
      <4> QED BY ONLY <2>4, <4>1
    <3> QED BY ONLY <2>2, <2>3, <3>1
  <2>6. Agree(wire, w)
    <3>1. SUFFICES ASSUME NEW i \in 1..Len(wire), i <= Len(w) PROVE wire[i] = w[i]
      BY DEF Agree
    <3>2. i \in 1..n
      BY <2>2, <3>1
    <3> QED BY <1>2, <2>5, <3>2
  <2>7. r = IF Len(wire) < n THEN Short ELSE Value(m, n)
    BY <1>3, <2>2, <2>6, ReadsWhatWasWritten DEF r, w, n
  <2>8. CASE Len(wire) < n
    <3>1. r = Short
      BY <2>7, <2>8
    <3>2. ended /\ err' = "eof" /\ read' = read /\ wire' = wire
      BY <1>5, <3>1 DEF Short
    <3>3. damaged # "no"
      BY <1>2, <1>3, <2>2, <2>5, <2>8
    <3>4. Due(k)' = Due(k)
      BY <1>1, <3>2 DEF Due, Left, Extra
    <3> QED BY <1>1, <1>2, <3>2, <3>3, <3>4 DEF Follows
  <2>9. CASE Len(wire) >= n
    <3>1. r = Value(m, n)
      BY <1>3, <2>2, <2>7, <2>9
    <3>2. read' = Append(read, m) /\ wire' = Back(wire, n) /\ err' = err
      BY <1>5, <3>1 DEF Value
    <3>3. /\ wire' \in Seq(Byte) /\ Len(wire') = Len(wire) - n
          /\ \A i \in 1..(Len(wire) - n) : wire'[i] = wire[i + n]
      BY <1>3, <2>2, <2>9, <3>2, Behind
    <3>4. /\ Len(read') = k + 1 /\ \A i \in 1..k : read'[i] = read[i]
          /\ read'[k + 1] = m
      BY <1>3, <3>2, Appended
    <3>5. Due(Len(read))' = D
      BY <1>1, <3>4 DEF Due, Left, Extra, D
    <3>6. \A i \in 1..Len(read') : read'[i] = written'[i]
      <4>1. SUFFICES ASSUME NEW i \in 1..(k + 1) PROVE read'[i] = written[i]
        BY <1>1, <3>4
      <4>2. CASE i \in 1..k
        BY <1>2, <3>4, <4>2
      <4>3. CASE i = k + 1
        BY <3>4, <4>3 DEF m
      <4> QED BY <1>3, <4>2, <4>3
    <3>7. Len(wire') <= Len(D) /\ (damaged = "no" => Len(wire') = Len(D))
      BY <1>2, <1>3, <2>2, <2>5, <2>9, <3>3
    <3>8. ASSUME NEW i \in 1..Len(wire') PROVE wire'[i] = D[i]
      <4>1. i + n \in 1..Len(wire) /\ i \in 1..Len(D) /\ i \in 1..(Len(wire) - n)
        BY <1>3, <2>2, <2>5, <2>9, <3>3, <3>7
      <4> QED BY <1>2, <2>5, <3>3, <4>1
    <3>9. Len(read') <= Len(written')
      BY <1>1, <2>1, <3>4
    <3> QED BY <1>1, <1>2, <3>2, <3>5, <3>6, <3>7, <3>8, <3>9 DEF Follows
  <2> QED BY <1>3, <2>2, <2>8, <2>9
<1> QED BY <1>2, <1>3, <1>6, <1>7

LEMMA FollowsNext == Shape /\ Follows /\ [Next]_vars => Follows'
<1> SUFFICES ASSUME Shape, Follows, [Next]_vars, (damaged # "noise")' PROVE Follows'
  BY DEF Follows
<1> DEFINE k == Len(read)
<1>1. /\ Len(written) \in Nat /\ k \in Nat /\ wire \in Seq(Byte) /\ Len(wire) \in Nat
      /\ damaged \in {"no", "cut", "noise"}
  BY ShapeFacts DEF Shape, TypeOK
<1>2. CASE Write
  BY <1>2, FollowsWrite
<1>3. CASE Read
  BY <1>3, FollowsRead
<1>4. CASE WritePayload
  <2>1. /\ dir' = dir /\ written' = written /\ read' = read /\ err' = err /\ ~ended
        /\ ended' = ended /\ damaged' = damaged /\ payload' = TRUE /\ wire' = wire \o Payload
        /\ ~payload /\ Len(written) = Len(Script(dir))
    BY <1>4 DEF WritePayload
  <2>2. /\ k <= Len(written) /\ \A i \in 1..k : read[i] = written[i]
        /\ \A i \in 1..Len(wire) : wire[i] = Due(k)[i]
        /\ damaged = "no" => Len(wire) = Len(Due(k))
        /\ damaged = "cut" => ended
        /\ damaged = "no" /\ err # "none" => ended
    BY <2>1 DEF Follows
  <2>3. damaged = "no" /\ err = "none"
    BY <1>1, <2>1, <2>2
  <2>4. Due(k) \in Seq(Byte) /\ Left(k) \in Seq(Byte)
    BY <1>1, <2>2, DueType
  <2>5. wire = Due(k)
    BY <1>1, <2>2, <2>3, <2>4, SameSeq
  <2>6. Due(k) = Left(k)
    BY <2>1, <2>4, Regroup DEF Due, Extra
  <2>7. Due(k)' = wire'
    <3>1. Left(k)' = Left(k) /\ Extra' = Payload
      BY <2>1 DEF Left, Extra
    <3> QED BY <2>1, <2>5, <2>6, <3>1 DEF Due
  <2>8. wire' \in Seq(Byte) /\ Len(wire') \in Nat
    BY <1>1, <2>1, StreamAssumption
  <2>9. Len(wire') <= Len(Due(k)')
    BY <2>7, <2>8
  <2> QED BY <2>1, <2>2, <2>3, <2>7, <2>9 DEF Follows
<1>5. CASE End
  <2>1. /\ dir' = dir /\ written' = written /\ read' = read /\ err' = err /\ ~ended
        /\ ended' = TRUE /\ payload' = payload
    BY <1>5 DEF End
  <2>2. damaged # "noise"
    BY <1>5 DEF End
  <2>3. /\ k <= Len(written) /\ \A i \in 1..k : read[i] = written[i]
        /\ payload => Len(written) = Len(Script(dir))
        /\ Len(wire) <= Len(Due(k)) /\ \A i \in 1..Len(wire) : wire[i] = Due(k)[i]
        /\ damaged = "no" => Len(wire) = Len(Due(k))
        /\ damaged = "no" => err = "none"
    BY <2>1, <2>2 DEF Follows
  <2>4. Due(k)' = Due(k)
    BY <2>1 DEF Due, Left, Extra
  <2>5. CASE wire' = wire /\ damaged' = damaged
    BY <2>1, <2>3, <2>4, <2>5 DEF Follows
  <2>6. CASE /\ damaged' = "cut"
             /\ \E n \in Cuts \cup {Len(wire) - 1} :
                   0 <= n /\ n < Len(wire) /\ wire' = Front(wire, n)
    <3>1. PICK n \in Cuts \cup {Len(wire) - 1} :
             0 <= n /\ n < Len(wire) /\ wire' = Front(wire, n)
      BY <2>6
    <3>2. n \in Nat
      BY <1>1, <3>1, StreamAssumption
    <3>3. Len(wire') = n /\ \A i \in 1..n : wire'[i] = wire[i] /\ i \in 1..Len(wire)
      <4>1. n < Len(wire) /\ wire' = Front(wire, n)
        BY <3>1
      <4> QED BY ONLY <1>1, <3>2, <4>1 DEF Front
    <3>4. n <= Len(Due(k))
      <4>1. Len(Due(k)) \in Nat
        BY <1>1, <2>3, DueType
      <4> QED BY <1>1, <2>3, <3>1, <3>2, <4>1
    <3> QED BY <2>1, <2>3, <2>4, <2>6, <3>3, <3>4 DEF Follows
  <2> QED BY <1>5, <2>5, <2>6 DEF End
<1>6. CASE Garble
  BY <1>6 DEF Garble
<1>7. CASE UNCHANGED vars
  <2>1. /\ dir' = dir /\ written' = written /\ read' = read /\ err' = err /\ wire' = wire
        /\ ended' = ended /\ payload' = payload /\ damaged' = damaged
    BY <1>7 DEF vars
  <2>2. Due(k)' = Due(k)
    BY <2>1 DEF Due, Left, Extra
  <2> QED BY <2>1, <2>2 DEF Follows
<1> QED BY <1>2, <1>3, <1>4, <1>5, <1>6, <1>7 DEF Next

\* The reader gets the messages that were written, in order, each as it was:
\* over an undamaged stream all of them, over one that was cut at any place a
\* prefix of them, whatever addresses, names and method lists there are.
THEOREM ReaderInStep == Spec => []InSync
<1>1. Init => Shape /\ Stands /\ Follows
  BY ShapeInit, FollowsInit
<1>2. Shape /\ Stands /\ Follows /\ [Next]_vars => (Shape /\ Stands /\ Follows)'
  BY ShapeNext, FollowsNext
<1>3. Follows => InSync
  BY DEF Follows, InSync
<1> QED BY <1>1, <1>2, <1>3, PTL DEF Spec

LEMMA NothingTaken == Shape /\ Follows => PayloadUntouched
<1> SUFFICES ASSUME Shape, Follows, damaged = "no", Len(read) = Len(Script(dir))
             PROVE  wire = Extra
  BY DEF PayloadUntouched, Extra
<1> DEFINE k == Len(read)
<1>1. /\ k <= Len(written) /\ \A i \in 1..Len(wire) : wire[i] = Due(k)[i]
      /\ Len(wire) = Len(Due(k))
  BY DEF Follows
<1>2. Len(written) \in Nat /\ k \in Nat /\ wire \in Seq(Byte) /\ Len(written) <= Len(Script(dir))
  BY ShapeFacts DEF Shape
<1>3. k = Len(written)
  BY <1>1, <1>2
<1>4. Due(k) \in Seq(Byte) /\ Extra \in Seq(Byte)
  BY <1>1, <1>2, DueType
<1>5. wire = Due(k)
  BY <1>1, <1>2, <1>4, SameSeq
<1>6. Left(k) = <<>>
  BY <1>3 DEF Left
<1> QED BY <1>4, <1>5, <1>6, Regroup DEF Due

\* A reader that has its messages has taken no byte of the payload behind them,
\* even of one that begins like a message.
THEOREM PayloadStaysOnTheStream == Spec => []PayloadUntouched
<1>1. Init => Shape /\ Stands /\ Follows
  BY ShapeInit, FollowsInit
<1>2. Shape /\ Stands /\ Follows /\ [Next]_vars => (Shape /\ Stands /\ Follows)'
  BY ShapeNext, FollowsNext
<1>3. Shape /\ Follows => PayloadUntouched
  BY NothingTaken
<1> QED BY <1>1, <1>2, <1>3, PTL DEF Spec
=============================================================================
