---------------------------- MODULE ConfigProofs ----------------------------
(***************************************************************************)
(* Theorems about Config, for every set of files the program may be        *)
(* started with: nothing is assumed of what stands in them.                *)
(***************************************************************************)
EXTENDS Config, TLAPS

-----------------------------------------------------------------------------
(***************************************************************************)
(* Addresses.                                                              *)
(***************************************************************************)

\* What an Address holds once it was read.
Good(a) == a.port \in Ports /\ (a.host = Ip6 \/ \E h : a.host = <<h>>)

LEMMA AddressIsGood ==
    ASSUME NEW parts, Address(parts) # BadAddress
    PROVE  Good(Address(parts)) /\ Address(parts).kind # "error"
<1>1. CASE IsSocketAddr(parts)
  BY <1>1 DEF Address, IsSocketAddr, Good
<1>2. CASE ~IsSocketAddr(parts)
  BY <1>2 DEF Address, DomainName, Good
<1> QED BY <1>1, <1>2

LEMMA FrontAndLast ==
    ASSUME NEW S, NEW s \in Seq(S), NEW e \in S
    PROVE  /\ Append(s, e) # <<>> /\ Len(Append(s, e)) = Len(s) + 1
           /\ Last(Append(s, e)) = e /\ Front(Append(s, e)) = s
BY DEF Front, Last

\* An address that is written and read again keeps its host and its port.
LEMMA AddressRoundTrip ==
    ASSUME NEW a, Good(a)
    PROVE  /\ Address(AddressText(a)) # BadAddress
           /\ Address(AddressText(a)).kind # "error"
           /\ Address(AddressText(a)).host = a.host
           /\ Address(AddressText(a)).port = a.port
<1> DEFINE t == AddressText(a)
           p == a.port
<1>0. BadAddress.kind = "error"
  BY DEF BadAddress
<1>a. ASSUME NEW S, a.host \in Seq(S), p \in S
      PROVE  t # <<>> /\ Last(t) = p /\ Front(t) = a.host /\ Len(t) = Len(a.host) + 1
  BY <1>a, FrontAndLast DEF AddressText
<1>1. CASE a.host = Ip6
  <2>1. Ip6 \in Seq({"[", "", "1]", p})
    BY DEF Ip6
  <2>2. t # <<>> /\ Last(t) = p /\ Front(t) = Ip6
    BY <1>1, <2>1, <1>a
  <2> HIDE DEF t
  <2>3. Address(t) = [kind |-> "SocketAddr", host |-> a.host, port |-> p]
    BY <1>1, <2>2 DEF Address, IsSocketAddr, Good
  <2>4. Address(t).kind = "SocketAddr" /\ Address(t).host = a.host /\ Address(t).port = p
    BY <2>3
  <2> QED BY <1>0, <2>4 DEF t
<1>2. ASSUME NEW h, a.host = <<h>>
      PROVE  /\ Address(t).kind # "error" /\ Address(t) # BadAddress
             /\ Address(t).host = a.host /\ Address(t).port = p
  <2>1. a.host \in Seq({h, p}) /\ p \in {h, p} /\ Len(a.host) = 1
    BY <1>2
  <2>2. t # <<>> /\ Last(t) = p /\ Front(t) = a.host /\ Len(t) = 2
    BY <2>1, <1>a
  <2>3. t[1] = h /\ t[2] = p
    BY <1>2, <2>1 DEF AddressText
  <2> HIDE DEF t
  <2>4. CASE IsSocketAddr(t)
    <3>1. Address(t) = [kind |-> "SocketAddr", host |-> a.host, port |-> p]
      BY <2>2, <2>4 DEF Address
    <3>2. Address(t).kind = "SocketAddr" /\ Address(t).host = a.host /\ Address(t).port = p
      BY <3>1
    <3> QED BY <1>0, <3>2
  <2>5. CASE ~IsSocketAddr(t)
    <3>1. Address(t) = [kind |-> "DomainName", host |-> a.host, port |-> p]
      BY <1>2, <2>2, <2>3, <2>5 DEF Address, DomainName, Good
    <3>2. Address(t).kind = "DomainName" /\ Address(t).host = a.host /\ Address(t).port = p
      BY <3>1
    <3> QED BY <1>0, <3>2
  <2> QED BY <2>4, <2>5
<1> QED BY <1>1, <1>2 DEF Good
-----------------------------------------------------------------------------
(***************************************************************************)
(* Fields and keys.                                                        *)
(***************************************************************************)
AllFields == UNION {{s} \X FieldsOf(s) : s \in Structs}
HasSection(c, s) == s = "Config" \/ \E f \in c.fields : f[1] = s

\* Every structure has a field that must be there.
LEMMA SomeRequired ==
    /\ {"Config", "ApiConfig", "DNSConfig"} \subseteq Structs
    /\ \A s \in Structs : Derived[s].required # {} /\ Derived[s].required \subseteq FieldsOf(s)
<1>1. Structs = {"Config", "ApiConfig", "DNSConfig", "Inbound", "VMESS", "Socks5",
                 "ProxyGroup", "Rule"}
  BY DEF Structs, Derived
<1>2. /\ <<"mode">> \in Derived["Config"].required
      /\ <<"listen">> \in Derived["ApiConfig"].required
      /\ <<"mode">> \in Derived["DNSConfig"].required
      /\ <<"name">> \in Derived["Inbound"].required
      /\ <<"name">> \in Derived["VMESS"].required
      /\ <<"name">> \in Derived["Socks5"].required
      /\ <<"name">> \in Derived["ProxyGroup"].required
      /\ <<"kind">> \in Derived["Rule"].required
  BY DEF Derived, ConfigFields, ApiFields, DNSFields, InboundFields, VMESSFields,
         Socks5Fields, GroupFields, RuleFields, Fields
<1>3. \A s \in Structs : Derived[s].required # {}
  BY <1>1, <1>2
<1> QED BY <1>1, <1>3 DEF FieldsOf

LEMMA FieldPairs ==
    /\ \A f \in AllFields : f = <<f[1], f[2]>> /\ f[1] \in Structs /\ f[2] \in FieldsOf(f[1])
    /\ \A s \in Structs : \A w \in FieldsOf(s) : <<s, w>> \in AllFields
BY DEF AllFields

\* What a loaded Config is.
WellFormed(c) ==
    /\ c = [fields |-> c.fields, mode |-> c.mode, level |-> c.level, listen |-> c.listen,
            dnsMode |-> c.dnsMode, servers |-> c.servers]
    /\ c.fields \subseteq AllFields
    /\ \A s \in Structs : HasSection(c, s)
                            => \A w \in Derived[s].required : <<s, w>> \in c.fields
    /\ c.mode \in Mode /\ c.level \in LogLevel
    /\ IF HasSection(c, "ApiConfig") THEN Good(c.listen) /\ c.listen.kind # "error"
                                     ELSE c.listen = BadAddress
    /\ HasSection(c, "DNSConfig") => c.dnsMode \in DNSMode
    /\ ~HasSection(c, "DNSConfig") => c.dnsMode = <<>> /\ c.servers = <<>>

\* A file that loads gives a Config with the sections the file has.
LEMMA ParsedSections ==
    ASSUME NEW doc, Complete(doc), NEW s \in Structs
    PROVE  HasSection(Parsed(doc), s) <=> Has(doc, s)
<1>1. Parsed(doc).fields = {f \in AllFields : Sets(doc, f[1], f[2])}
  BY DEF Parsed, AllFields
<1>2. ASSUME NEW f \in Parsed(doc).fields PROVE Has(doc, f[1])
  BY <1>1, <1>2 DEF Sets, Has, Key
<1>3. ASSUME Has(doc, s) PROVE \E f \in Parsed(doc).fields : f[1] = s
  <2>1. PICK w \in Derived[s].required : Sets(doc, s, w)
    BY <1>3, SomeRequired DEF Complete
  <2>2. <<s, w>> \in AllFields
    BY <2>1, SomeRequired, FieldPairs
  <2> QED BY <1>1, <2>1, <2>2
<1> QED BY <1>2, <1>3 DEF HasSection, Has

LEMMA ParsedIsWellFormed ==
    ASSUME NEW doc, Valid(doc)
    PROVE  WellFormed(Parsed(doc))
<1> DEFINE c == Parsed(doc)
<1>1. c.fields = {f \in AllFields : Sets(doc, f[1], f[2])}
  BY DEF Parsed, AllFields
<1>2. /\ c.mode = doc.mode /\ c.level = doc.level
      /\ c.listen = IF Has(doc, "ApiConfig") THEN Address(doc.listen) ELSE BadAddress
      /\ c.dnsMode = IF Has(doc, "DNSConfig") THEN doc.dnsMode ELSE <<>>
      /\ c.servers = IF Has(doc, "DNSConfig") THEN doc.servers ELSE <<>>
      /\ c = [fields |-> c.fields, mode |-> c.mode, level |-> c.level, listen |-> c.listen,
            dnsMode |-> c.dnsMode, servers |-> c.servers]
  BY DEF Parsed
<1> HIDE DEF c
<1>3. Complete(doc) /\ \A s \in Structs : HasSection(c, s) <=> Has(doc, s)
  BY ParsedSections DEF Valid, c
<1>4. ASSUME NEW s \in Structs, HasSection(c, s), NEW w \in Derived[s].required
      PROVE  <<s, w>> \in c.fields
  BY <1>1, <1>3, <1>4, SomeRequired, FieldPairs DEF Complete
<1>5. IF HasSection(c, "ApiConfig") THEN Good(c.listen) /\ c.listen.kind # "error"
                                    ELSE c.listen = BadAddress
  BY <1>2, <1>3, SomeRequired, AddressIsGood DEF Valid
<1> QED BY <1>1, <1>2, <1>3, <1>4, <1>5, SomeRequired DEF WellFormed, Valid, c
-----------------------------------------------------------------------------
(***************************************************************************)
(* Saving and loading again.                                               *)
(***************************************************************************)

\* The same settings; an address may come back as the other variant.
Same(c, d) ==
    /\ c.fields = d.fields /\ c.mode = d.mode /\ c.level = d.level
    /\ c.dnsMode = d.dnsMode /\ c.servers = d.servers
    /\ c.listen.host = d.listen.host /\ c.listen.port = d.listen.port

\* A key of the file belongs to one field.
LEMMA KeysDiffer ==
    ASSUME NEW s, NEW w, NEW r, NEW v, Key(s, w) = Key(r, v)
    PROVE  s = r /\ w = v
<1>1. Key(s, w).in = s /\ Key(s, w).words = w /\ Key(r, v).in = r /\ Key(r, v).words = v
  BY DEF Key
<1> QED BY <1>1

LEMMA SerializedEntries ==
    ASSUME NEW c, WellFormed(c)
    PROVE  /\ \A s \in Structs : \A w : Sets(Serialized(c), s, w) <=> <<s, w>> \in c.fields
           /\ \A s \in Structs : Has(Serialized(c), s) <=> HasSection(c, s)
<1> DEFINE E == Serialized(c).entries
           Entry(s, w, x) == [key |-> Key(s, w), val |-> x]
           Missing(s) == {v \in Derived[s].nullable : <<s, v>> \notin c.fields}
<1>0. \A f \in c.fields : f = <<f[1], f[2]>> /\ f[1] \in Structs
  BY FieldPairs DEF WellFormed
<1>1. \A e : e \in E <=> \/ \E f \in c.fields : e = Entry(f[1], f[2], "set")
                         \/ \E f \in c.fields :
                              \E w \in Missing(f[1]) : e = Entry(f[1], w, "null")
  <2> DEFINE Nulls(s) == {Entry(s, w, "null") : w \in Missing(s)}
  <2>1. E = {Entry(f[1], f[2], "set") : f \in c.fields}
            \cup UNION {Nulls(s) : s \in {f[1] : f \in c.fields}}
    BY DEF Serialized
  <2>2. \A s, e : e \in Nulls(s) <=> \E w \in Missing(s) : e = Entry(s, w, "null")
    OBVIOUS
  <2> HIDE DEF E, Entry, Nulls, Missing
  <2>3. \A e : e \in UNION {Nulls(s) : s \in {f[1] : f \in c.fields}}
                  <=> \E f \in c.fields : e \in Nulls(f[1])
    OBVIOUS
  <2>4. \A e : e \in E <=> \/ \E f \in c.fields : e = Entry(f[1], f[2], "set")
                           \/ \E f \in c.fields : e \in Nulls(f[1])
    BY <2>1, <2>3
  <2>5. \A e : \A f \in c.fields :
          e \in Nulls(f[1]) <=> \E w \in Missing(f[1]) : e = Entry(f[1], w, "null")
    BY <2>2
  <2> QED BY <2>4, <2>5
<1>2. \A s, w, x : Entry(s, w, x).key = Key(s, w) /\ Entry(s, w, x).val = x
                   /\ Entry(s, w, x).key.in = s
  BY DEF Key
<1> HIDE DEF E, Entry, Missing
<1>3. ASSUME NEW s \in Structs, NEW w
      PROVE  Entry(s, w, "set") \in E <=> <<s, w>> \in c.fields
  <2>1. ASSUME NEW f \in c.fields, Entry(s, w, "set") = Entry(f[1], f[2], "set")
        PROVE  <<s, w>> \in c.fields
    <3>1. s = f[1] /\ w = f[2]
      BY <1>2, <2>1, KeysDiffer
    <3> QED BY <1>0, <3>1
  <2>2. \A f, v : Entry(s, w, "set") # Entry(f, v, "null")
    BY <1>2
  <2>3. ASSUME <<s, w>> \in c.fields PROVE Entry(s, w, "set") \in E
    BY <1>1, <2>3
  <2> QED BY <1>1, <2>1, <2>2, <2>3
<1>4. ASSUME NEW s \in Structs
      PROVE  (\E e \in E : e.key.in = s) <=> \E f \in c.fields : f[1] = s
  <2>1. ASSUME NEW e \in E PROVE \E f \in c.fields : e.key.in = f[1]
    <3>1. PICK f \in c.fields : \E w, x : e = Entry(f[1], w, x)
      BY <1>1
    <3> QED BY <1>2, <3>1
  <2>2. ASSUME NEW f \in c.fields PROVE \E e \in E : e.key.in = f[1]
    <3>1. Entry(f[1], f[2], "set") \in E
      BY <1>1
    <3> QED BY <1>2, <3>1
  <2> QED BY <2>1, <2>2
<1> QED BY <1>3, <1>4 DEF Sets, Has, HasSection, E, Entry

\* The file that is written can be read, and gives the Config it was written from.
LEMMA SaveThenLoad ==
    ASSUME NEW c, WellFormed(c)
    PROVE  Valid(Serialized(c)) /\ Same(Parsed(Serialized(c)), c)
<1> DEFINE doc == Serialized(c)
<1>0. /\ doc.mode = c.mode /\ doc.level = c.level /\ doc.listen = AddressText(c.listen)
      /\ doc.dnsMode = c.dnsMode /\ doc.servers = c.servers
  BY DEF Serialized
<1> HIDE DEF doc
<1>1. /\ \A s \in Structs : \A w : Sets(doc, s, w) <=> <<s, w>> \in c.fields
      /\ \A s \in Structs : Has(doc, s) <=> HasSection(c, s)
  BY SerializedEntries DEF doc
<1>2. Complete(doc)
  BY <1>1 DEF Complete, WellFormed
<1>3. HasSection(c, "ApiConfig") =>
        /\ Address(doc.listen) # BadAddress
        /\ Address(doc.listen).host = c.listen.host /\ Address(doc.listen).port = c.listen.port
  BY <1>0, AddressRoundTrip DEF WellFormed
<1>4. Valid(doc)
  BY <1>0, <1>1, <1>2, <1>3, SomeRequired DEF Valid, WellFormed
<1>5. Parsed(doc).fields = c.fields
  <2>1. Parsed(doc).fields = {f \in AllFields : Sets(doc, f[1], f[2])}
    BY DEF Parsed, AllFields
  <2>2. \A f \in AllFields : Sets(doc, f[1], f[2]) <=> f \in c.fields
    BY <1>1, FieldPairs
  <2>3. c.fields \subseteq AllFields
    BY DEF WellFormed
  <2> QED BY <2>1, <2>2, <2>3
<1>6. /\ Parsed(doc).mode = doc.mode /\ Parsed(doc).level = doc.level
      /\ Parsed(doc).listen = IF Has(doc, "ApiConfig") THEN Address(doc.listen) ELSE BadAddress
      /\ Parsed(doc).dnsMode = IF Has(doc, "DNSConfig") THEN doc.dnsMode ELSE <<>>
      /\ Parsed(doc).servers = IF Has(doc, "DNSConfig") THEN doc.servers ELSE <<>>
  BY DEF Parsed
<1>7. Same(Parsed(doc), c)
  BY <1>0, <1>1, <1>3, <1>5, <1>6, SomeRequired DEF Same, WellFormed
<1> QED BY <1>4, <1>7 DEF doc
-----------------------------------------------------------------------------
(***************************************************************************)
(* The program.                                                            *)
(***************************************************************************)
Asked == {"context", "resolved"}   \* a Resolver has been made

\* The Config is none or well formed, and has the settings that were loaded
\* first, but for what config_mut changes; the file that was saved is its own.
ConfInv ==
    /\ pc \in {"start", "ioerror", "panicked", "loaded", "saved", "nocontext"} \cup Asked
    /\ conf = NoConf \/ WellFormed(conf)
    /\ first = NoConf \/ WellFormed(first)
    /\ pc \in {"start", "panicked"} => first = NoConf
    /\ pc = "start" => conf = NoConf
    /\ pc \in {"loaded", "saved"} =>
          WellFormed(conf) /\ WellFormed(first) /\ Same(conf, first)
    /\ pc = "saved" => file = Serialized(conf)

LEMMA NoConfIsNone == ~WellFormed(NoConf)
<1>1. NoConf.mode = <<>>
  BY DEF NoConf
<1>2. <<>> \notin Mode
  BY DEF Mode
<1> QED BY <1>1, <1>2 DEF WellFormed

LEMMA DefaultIsWellFormed == WellFormed(DefaultConfig)
<1> DEFINE c == DefaultConfig
<1>1. /\ c.fields = {"Config"} \X ConfigFields.required /\ c.mode = <<"direct">>
      /\ c.level = <<"info">> /\ c.listen = BadAddress /\ c.dnsMode = <<>> /\ c.servers = <<>>
      /\ c = [fields |-> c.fields, mode |-> c.mode, level |-> c.level, listen |-> c.listen,
              dnsMode |-> c.dnsMode, servers |-> c.servers]
  <2> DEFINE F == {"Config"} \X ConfigFields.required
  <2>1. c = [fields |-> F, mode |-> <<"direct">>, level |-> <<"info">>, listen |-> BadAddress,
             dnsMode |-> <<>>, servers |-> <<>>]
    BY DEF DefaultConfig
  <2> HIDE DEF c, F
  <2>2. c.fields = F /\ c.mode = <<"direct">> /\ c.level = <<"info">> /\ c.listen = BadAddress
        /\ c.dnsMode = <<>> /\ c.servers = <<>>
    BY <2>1
  <2> QED BY <2>1, <2>2 DEF F
<1>2. ConfigFields.required = Derived["Config"].required
  BY DEF Derived
<1> HIDE DEF c
<1>3. c.fields \subseteq AllFields
  BY <1>1, <1>2, SomeRequired, FieldPairs
<1>4. \A s \in Structs : HasSection(c, s) <=> s = "Config"
  BY <1>1 DEF HasSection
<1>5. ~HasSection(c, "ApiConfig") /\ ~HasSection(c, "DNSConfig")
  BY <1>4, SomeRequired
<1> QED BY <1>1, <1>2, <1>3, <1>4, <1>5 DEF WellFormed, Mode, LogLevel, c

\* Clearing the servers, as the holder of a mutable reference may.
LEMMA ClearedIsWellFormed ==
    ASSUME NEW c, WellFormed(c)
    PROVE  /\ WellFormed([c EXCEPT !.servers = <<>>])
           /\ [c EXCEPT !.servers = <<>>].fields = c.fields
<1> DEFINE d == [c EXCEPT !.servers = <<>>]
<1>1. /\ d.fields = c.fields /\ d.mode = c.mode /\ d.level = c.level /\ d.listen = c.listen
      /\ d.dnsMode = c.dnsMode /\ d.servers = <<>>
      /\ d = [fields |-> d.fields, mode |-> d.mode, level |-> d.level, listen |-> d.listen,
              dnsMode |-> d.dnsMode, servers |-> d.servers]
  BY DEF WellFormed
<1> HIDE DEF d
<1>2. \A s \in Structs : HasSection(d, s) <=> HasSection(c, s)
  BY <1>1 DEF HasSection
<1>3. WellFormed(d)
  BY <1>1, <1>2, SomeRequired DEF WellFormed
<1> QED BY <1>1, <1>3 DEF d

LEMMA ConfStep == ConfInv /\ [Next]_vars => ConfInv'
<1> SUFFICES ASSUME ConfInv, [Next]_vars PROVE ConfInv'
  OBVIOUS
<1> USE DEF ConfInv, Asked
<1>1. CASE Load
  <2>1. CASE pc' \in {"ioerror", "panicked"}
    <3>1. pc' = "panicked" => pc = "start"
      <4>1. pc = "saved" => Valid(file)
        BY SaveThenLoad
      <4> QED BY <1>1, <4>1 DEF Load
    <3>2. UNCHANGED <<conf, first>>
      BY <1>1, <2>1 DEF Load
    <3> QED BY <2>1, <3>1, <3>2
  <2>2. CASE pc' = "loaded"
    <3>1. Valid(file) /\ conf' = Parsed(file) /\ first' = IF first = NoConf THEN Parsed(file) ELSE first
      BY <1>1, <2>2 DEF Load
    <3>2. WellFormed(conf')
      BY <3>1, ParsedIsWellFormed
    <3>3. CASE pc = "start"
      BY <2>2, <3>1, <3>2, <3>3 DEF Same
    <3>4. CASE pc = "saved"
      <4>1. Same(conf', conf) /\ Same(conf, first) /\ first # NoConf
        BY <3>1, <3>4, SaveThenLoad, NoConfIsNone
      <4>2. first' = first /\ Same(conf', first)
        BY <3>1, <4>1 DEF Same
      <4>3. WellFormed(first') /\ Same(conf', first')
        BY <3>4, <4>2
      <4> QED BY <2>2, <3>2, <4>3
    <3> QED BY <1>1, <3>3, <3>4 DEF Load
  <2> QED BY <1>1, <2>1, <2>2 DEF Load
<1>2. CASE NoFile
  BY <1>2, DefaultIsWellFormed DEF NoFile, Same
<1>3. CASE Save
  BY <1>3 DEF Save
<1>4. CASE NewContext
  BY <1>4 DEF NewContext
<1>5. CASE config_mut
  <2>1. conf # NoConf
    BY <1>5 DEF config_mut, NoConf
  <2>2. WellFormed(conf')
    BY <1>5, <2>1, ClearedIsWellFormed DEF config_mut
  <2> QED BY <1>5, <2>2 DEF config_mut
<1>6. CASE resolve
  BY <1>6 DEF resolve
<1>7. CASE UNCHANGED vars
  BY <1>7 DEF vars
<1> QED BY <1>1, <1>2, <1>3, <1>4, <1>5, <1>6, <1>7 DEF Next

LEMMA ConfInit == Init => ConfInv
BY DEF Init, ConfInv

\* A configuration that was saved loads again, and is the one that was saved,
\* however often: for every file the program can be started with (SavedIsLoaded
\* of Config).
THEOREM SavedConfigIsLoaded == Spec => []SavedIsLoaded
<1>1. ConfInv => SavedIsLoaded
  <2> SUFFICES ASSUME ConfInv, first # NoConf
               PROVE  /\ pc # "panicked"
                      /\ pc = "loaded" => /\ [conf EXCEPT !.listen = first.listen] = first
                                          /\ conf.listen.host = first.listen.host
                                          /\ conf.listen.port = first.listen.port
    BY DEF SavedIsLoaded
  <2>1. ASSUME pc = "loaded" PROVE [conf EXCEPT !.listen = first.listen] = first
    <3>1. WellFormed(conf) /\ WellFormed(first) /\ Same(conf, first)
      BY <2>1 DEF ConfInv
    <3> QED BY <3>1 DEF WellFormed, Same
  <2> QED BY <2>1 DEF ConfInv, Same
<1> QED BY <1>1, ConfInit, ConfStep, PTL DEF Spec

\* Nothing is asked before there is a Resolver.
AnswerInv ==
    /\ ConfInv
    /\ pc \notin Asked => resolver = {}
    /\ answer \in {"none", "error"} \cup resolver

LEMMA AnswerStep == AnswerInv /\ [Next]_vars => AnswerInv'
<1> SUFFICES ASSUME AnswerInv, [Next]_vars PROVE AnswerInv'
  OBVIOUS
<1> USE DEF AnswerInv, Asked
<1>0. ConfInv'
  BY ConfStep
<1>1. CASE Load
  <2>1. pc' \notin Asked /\ pc \notin Asked
    BY <1>1 DEF Load
  <2> QED BY <1>0, <1>1, <2>1 DEF Load
<1>2. CASE NoFile \/ Save
  BY <1>0, <1>2 DEF NoFile, Save
<1>3. CASE NewContext
  BY <1>0, <1>3 DEF NewContext
<1>4. CASE config_mut
  BY <1>0, <1>4 DEF config_mut
<1>5. CASE resolve
  BY <1>0, <1>5 DEF resolve
<1>6. CASE UNCHANGED vars
  BY <1>0, <1>6 DEF vars
<1> QED BY <1>1, <1>2, <1>3, <1>4, <1>5, <1>6 DEF Next

LEMMA AnswerInit == Init => AnswerInv
BY ConfInit DEF Init, AnswerInv, Asked

\* Every variable keeps its type, and a loaded api section has an address
\* (TypeOK of Config).
THEOREM TypeCorrect == Spec => []TypeOK
<1>1. AnswerInv => TypeOK
  <2> SUFFICES ASSUME AnswerInv PROVE TypeOK
    OBVIOUS
  <2>1. CASE conf = NoConf
    BY <2>1 DEF AnswerInv, ConfInv, Asked, TypeOK, NoConf
  <2>2. CASE WellFormed(conf)
    <3>1. \A f \in conf.fields : f[1] \in Structs /\ f[2] \in FieldsOf(f[1])
      BY <2>2, FieldPairs DEF WellFormed
    <3>2. <<"ApiConfig", <<"listen">>>> \in conf.fields => conf.listen.kind # "error"
      <4>1. <<"ApiConfig", <<"listen">>>>[1] = "ApiConfig"
        OBVIOUS
      <4> QED BY <2>2, <4>1 DEF WellFormed, HasSection
    <3> QED BY <3>1, <3>2 DEF AnswerInv, ConfInv, Asked, TypeOK
  <2> QED BY <2>1, <2>2 DEF AnswerInv, ConfInv
<1> QED BY <1>1, AnswerInit, AnswerStep, PTL DEF Spec
=============================================================================
