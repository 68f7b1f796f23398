------------------------------- MODULE Config -------------------------------
(***************************************************************************)
(* The configuration of tache (config.rs, utils.rs) and the resolver that  *)
(* is made of it (context.rs, dns_resolver.rs): a file is loaded, saved    *)
(* and loaded again, and names are looked up with the servers it gives.    *)
(*                                                                         *)
(* A key of the file is its words and what stands between them, so that    *)
(* the renaming of serde's derive can be told apart: no-delay, no_delay.   *)
(* The text of an address is the sequence of its parts between the colons. *)
(***************************************************************************)
EXTENDS Naturals, Sequences, FiniteSets, SequencesExt

CONSTANT Docs   \* the files the program may be started with

VARIABLES
    file,      \* the file
    pc,        \* what has become of it
    conf,      \* the Config in memory
    first,     \* the Config the first load gave
    resolver,  \* the name servers of the Resolver
    answer     \* where the last answer came from

vars == <<file, pc, conf, first, resolver, answer>>
-----------------------------------------------------------------------------
(***************************************************************************)
(* The structures serde derives the file's form from.                      *)
(***************************************************************************)
\* The fields of a structure: those that must be there, options that are left
\* out when they are None, and options that are written as null then.
Fields(required, skipped, nullable) ==
    [required |-> required, skipped |-> skipped, nullable |-> nullable]

ConfigFields ==
    Fields({<<"mode">>, <<"log", "level">>, <<"inbounds">>, <<"proxies">>,
            <<"proxy", "groups">>, <<"rules">>}, {<<"no", "delay">>}, {})
ApiFields == Fields({<<"listen">>}, {<<"secret">>, <<"external", "ui">>}, {})
DNSFields ==
    Fields({<<"listen">>, <<"mode">>, <<"servers">>, <<"fallback">>}, {<<"ipv6">>}, {})
InboundFields == Fields({<<"name">>, <<"listen">>}, {<<"authentication">>}, {})
VMESSFields ==
    Fields({<<"name">>, <<"address">>, <<"uuid">>, <<"alterId">>, <<"cipher">>}, {}, {<<"tls">>})
Socks5Fields ==
    Fields({<<"name">>, <<"address">>}, {},
           {<<"username">>, <<"password">>, <<"tls">>, <<"skip", "cert", "verify">>})
GroupFields == Fields({<<"name">>, <<"kind">>, <<"proxies">>}, {}, {})
RuleFields == Fields({<<"kind">>, <<"source">>, <<"target">>}, {<<"params">>}, {<<"timeout">>})

Derived == [Config |-> ConfigFields, ApiConfig |-> ApiFields, DNSConfig |-> DNSFields,
            Inbound |-> InboundFields, VMESS |-> VMESSFields, Socks5 |-> Socks5Fields,
            ProxyGroup |-> GroupFields, Rule |-> RuleFields]
Structs == DOMAIN Derived
FieldsOf(s) == Derived[s].required \cup Derived[s].skipped \cup Derived[s].nullable

\* rename_all = "kebab-case" stands at Config alone; fields keep their names.
Separator(s) == IF s = "Config" THEN "-" ELSE "_"
Key(s, words) == [in |-> s, words |-> words,
                  sep |-> IF Len(words) = 1 THEN "" ELSE Separator(s)]

\* kebab-case of a variant starts a word at every capital letter of its name.
Mode == {<<"rule">>, <<"global">>, <<"direct">>}
LogLevel == {<<"info">>, <<"warning">>, <<"error">>, <<"debug">>, <<"silent">>}
DNSMode == {<<"redir", "host">>, <<"fake", "i", "p">>}
-----------------------------------------------------------------------------
(***************************************************************************)
(* Addresses.                                                              *)
(***************************************************************************)
Ports == {"80", "53"}
Ip4 == "1.2.3.4"
Ip6 == <<"[", "", "1]">>
BadAddress == [kind |-> "error", host |-> <<>>, port |-> ""]

\* SocketAddr::from_str of the standard library (external).
IsSocketAddr(parts) ==
    /\ parts # <<>> /\ Last(parts) \in Ports
    /\ Front(parts) \in {<<Ip4>>, Ip6}

\* DomainName::from_str: what stands before the first colon, and the port
\* behind it.  Parts after that are not looked at.
DomainName(parts) ==
    IF Len(parts) >= 2 /\ parts[2] \in Ports
    THEN [kind |-> "DomainName", host |-> <<parts[1]>>, port |-> parts[2]]
    ELSE BadAddress

\* Address, untagged: the first of its variants that takes the text.
Address(parts) ==
    IF IsSocketAddr(parts)
    THEN [kind |-> "SocketAddr", host |-> Front(parts), port |-> Last(parts)]
    ELSE DomainName(parts)

AddressText(a) == Append(a.host, a.port)
-----------------------------------------------------------------------------
(***************************************************************************)
(* Loading and saving.  A file is a set of entries, a key and "set" or     *)
(* "null" each, and the values that can be wrong or that matter: mode,     *)
(* log-level, api.listen, dns.mode and dns.servers.                        *)
(***************************************************************************)
Has(doc, s) == s = "Config" \/ \E e \in doc.entries : e.key.in = s
Sets(doc, s, words) == [key |-> Key(s, words), val |-> "set"] \in doc.entries

NoConf == [fields |-> {}, mode |-> <<>>, level |-> <<>>, listen |-> BadAddress,
           dnsMode |-> <<>>, servers |-> <<>>]

\* Config::new: the defaults, and empty lists.
DefaultConfig ==
    [fields |-> {"Config"} \X ConfigFields.required, mode |-> <<"direct">>,
     level |-> <<"info">>, listen |-> BadAddress, dnsMode |-> <<>>, servers |-> <<>>]

\* What from_str makes of the file: keys that are no field's are passed over.
Parsed(doc) ==
    [fields  |-> {f \in UNION {{s} \X FieldsOf(s) : s \in Structs} : Sets(doc, f[1], f[2])},
     mode    |-> doc.mode,
     level   |-> doc.level,
     listen  |-> IF Has(doc, "ApiConfig") THEN Address(doc.listen) ELSE BadAddress,
     dnsMode |-> IF Has(doc, "DNSConfig") THEN doc.dnsMode ELSE <<>>,
     servers |-> IF Has(doc, "DNSConfig") THEN doc.servers ELSE <<>>]

Complete(doc) ==
    \A s \in Structs : Has(doc, s) => \A w \in Derived[s].required : Sets(doc, s, w)

\* Mutant: an address that cannot be read is let through.
ValidLoose(doc) ==
    /\ Complete(doc) /\ doc.mode \in Mode /\ doc.level \in LogLevel
    /\ Has(doc, "DNSConfig") => doc.dnsMode \in DNSMode

Valid(doc) ==
    /\ Complete(doc) /\ doc.mode \in Mode /\ doc.level \in LogLevel
    /\ Has(doc, "ApiConfig") => Address(doc.listen) # BadAddress
    /\ Has(doc, "DNSConfig") => doc.dnsMode \in DNSMode

\* Mutant: every key is written in kebab case.
SerializedKebab(c) ==
    [entries |-> {[key |-> [Key(f[1], f[2]) EXCEPT !.sep = IF @ = "" THEN "" ELSE "-"],
                   val |-> "set"] : f \in c.fields},
     mode |-> c.mode, level |-> c.level, listen |-> AddressText(c.listen),
     dnsMode |-> c.dnsMode, servers |-> c.servers]

\* What Serialize writes: the fields that are set, and null for an option that
\* has no skip_serializing_if.
Serialized(c) ==
    LET written == {f[1] : f \in c.fields} IN
    [entries |-> {[key |-> Key(f[1], f[2]), val |-> "set"] : f \in c.fields}
                 \cup UNION {{[key |-> Key(s, w), val |-> "null"] :
                                w \in {v \in Derived[s].nullable : <<s, v>> \notin c.fields}} :
                             s \in written},
     mode |-> c.mode, level |-> c.level, listen |-> AddressText(c.listen),
     dnsMode |-> c.dnsMode, servers |-> c.servers]

\* load_from_file: a file that cannot be read is an error, one that cannot be
\* parsed a panic (load_from_str unwraps); check_valid checks nothing.
Load ==
    /\ pc \in {"start", "saved"}
    /\ \/ pc' = "ioerror" /\ UNCHANGED <<conf, first>>
       \/ ~Valid(file) /\ pc' = "panicked" /\ UNCHANGED <<conf, first>>
       \/ /\ Valid(file) /\ pc' = "loaded"
          /\ conf' = Parsed(file)
          /\ first' = IF first = NoConf THEN Parsed(file) ELSE first
    /\ UNCHANGED <<file, resolver, answer>>

\* The program is started without a file.
NoFile ==
    /\ pc = "start" /\ pc' = "loaded"
    /\ conf' = DefaultConfig /\ first' = DefaultConfig
    /\ UNCHANGED <<file, resolver, answer>>

Save ==
    /\ pc = "loaded"
    /\ file' = Serialized(conf) /\ pc' = "saved"
    /\ UNCHANGED <<conf, first, resolver, answer>>
-----------------------------------------------------------------------------
(***************************************************************************)
(* Name resolution.                                                        *)
(***************************************************************************)
Groups == {"google", "cloudflare", "cloudflare_tls", "cloudflare_https", "quad9", "quad9_tls"}
Ips == {"114.114.114.114", "1.1.1.1"}
System == {"system"}

\* get_dns_config: the groups and addresses it knows; the rest is logged and
\* left out.  Any of them may answer, so that their order does not matter.
get_dns_config(c) == ToSet(c.servers) \cap (Groups \cup Ips)

\* create_resolver: the servers of the dns section, and the system's without one.
create_resolver(c) ==
    IF \E f \in c.fields : f[1] = "DNSConfig" THEN get_dns_config(c) ELSE System

\* Context::new, new_dns: they give up when the system's configuration cannot be
\* read, or the Resolver cannot be made.
NewContext ==
    /\ pc = "loaded"
    /\ \/ pc' = "context" /\ resolver' = create_resolver(conf)
       \/ pc' = "nocontext" /\ UNCHANGED resolver
    /\ UNCHANGED <<file, conf, first, answer>>

\* config_mut hands the Config out to be changed; the resolver stays.
config_mut ==
    /\ pc = "context" /\ conf.servers # <<>>
    /\ conf' = [conf EXCEPT !.servers = <<>>]
    /\ UNCHANGED <<file, pc, first, resolver, answer>>

\* resolve: some server answers with an address or more, or the lookup fails or
\* finds none, which is an error too.
resolve ==
    /\ pc = "context" /\ pc' = "resolved"
    /\ answer' \in resolver \cup {"error"}
    /\ UNCHANGED <<file, conf, first, resolver>>

Init ==
    /\ file \in Docs /\ pc = "start"
    /\ conf = NoConf /\ first = NoConf
    /\ resolver = {} /\ answer = "none"

Next == Load \/ NoFile \/ Save \/ NewContext \/ config_mut \/ resolve

Spec == Init /\ [][Next]_vars
-----------------------------------------------------------------------------
(***************************************************************************)
(* Properties.                                                             *)
(***************************************************************************)

\* Every variable has its type; the address of a loaded api section is one.
TypeOK ==
    /\ pc \in {"start", "ioerror", "panicked", "loaded", "saved", "context", "nocontext",
              "resolved"}
    /\ \A f \in conf.fields : f[1] \in Structs /\ f[2] \in FieldsOf(f[1])
    /\ <<"ApiConfig", <<"listen">>>> \in conf.fields => conf.listen.kind # "error"
    /\ answer \in {"none", "error"} \cup resolver

\* A configuration that was saved can be loaded, and is the one that was saved:
\* every option with its value, and addresses with their host and port (a host
\* that is an IP address may come back as the other variant of Address).
SavedIsLoaded ==
    first # NoConf =>
       /\ pc # "panicked"
       /\ pc = "loaded" => /\ [conf EXCEPT !.listen = first.listen] = first
                           /\ conf.listen.host = first.listen.host
                           /\ conf.listen.port = first.listen.port

\* What the example configuration shows takes effect: the file loads, and every
\* key in it is a setting of the Config.
DocumentedTakesEffect ==
    /\ pc # "panicked"
    /\ pc = "loaded" => \A e \in file.entries :
                          \E f \in conf.fields : e.key = Key(f[1], f[2])
=============================================================================
