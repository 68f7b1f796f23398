------------------------------ MODULE MCConfig ------------------------------
(* Config for TLC: files that differ from a small complete one in their      *)
(* keys, an address, the name servers or other values, and the example file. *)
EXTENDS Config

Entry(s, words, sep, val) ==
    [key |-> [in |-> s, words |-> words, sep |-> sep], val |-> val]
Whole(s) == {[key |-> Key(s, w), val |-> "set"] : w \in Derived[s].required}

Sections == {"Config", "ApiConfig", "DNSConfig", "Socks5", "Rule"}
Small == [entries |-> UNION {Whole(s) : s \in Sections},
          mode |-> <<"rule">>, level |-> <<"info">>, listen |-> <<Ip4, "80">>,
          dnsMode |-> <<"redir", "host">>, servers |-> <<"1.1.1.1">>]

\* One required key may be missing, and options be there, be null or be spelled
\* with either separator.
Options == {Entry("Config", <<"no", "delay">>, s, "set") : s \in {"-", "_"}}
           \cup {Entry("ApiConfig", <<"external", "ui">>, s, "set") : s \in {"-", "_"}}
           \cup {Entry("Socks5", <<"skip", "cert", "verify">>, "_", v) : v \in {"set", "null"}}
           \cup {Entry("Socks5", <<"tls">>, "", "null"), Entry("Rule", <<"timeout">>, "", "set")}
OneOfEach(S) == \A x, y \in S : x.key = y.key => x = y
KeyDocs == {[Small EXCEPT !.entries = (@ \ M) \cup S] :
              S \in {T \in SUBSET Options : OneOfEach(T)},
              M \in {{}} \cup {{e} : e \in Small.entries}
                    \cup {Whole("DNSConfig"), Whole("ApiConfig")}}

Parts == {"", "host", Ip4, "80", "99999", "[", "1]"}
AddressDocs == {[Small EXCEPT !.listen = t] : t \in UNION {[1..n -> Parts] : n \in 1..4}}

Servers == {"google", "cloudflare_tls", "1.1.1.1", "tls://dns.rubyfish.cn:853"}
ServerDocs == {[Small EXCEPT !.servers = t, !.dnsMode = m] :
                 t \in UNION {[1..n -> Servers] : n \in 0..3},
                 m \in DNSMode \cup {<<"fake", "ip">>}}

ValueDocs == {[Small EXCEPT !.mode = m, !.level = l] :
                m \in Mode \cup {<<"Rule">>}, l \in LogLevel \cup {<<"warn">>}}

VariedDocs == KeyDocs \cup AddressDocs \cup ServerDocs \cup ValueDocs

\* examples/config.yaml, with both modes its line 20 names.
Example == [
    entries |-> UNION {Whole(s) : s \in Structs} \cup {
        Entry("Config", <<"no", "delay">>, "_", "set"),
        Entry("ApiConfig", <<"secret">>, "", "set"),
        Entry("ApiConfig", <<"external", "ui">>, "-", "set"),
        Entry("DNSConfig", <<"ipv6">>, "", "set"),
        Entry("VMESS", <<"tls">>, "", "set"),
        Entry("VMESS", <<"skip", "cert", "verify">>, "-", "set"),
        Entry("VMESS", <<"network">>, "", "set"),
        Entry("VMESS", <<"ws", "path">>, "-", "set"),
        Entry("Socks5", <<"username">>, "", "set"),
        Entry("Socks5", <<"password">>, "", "set"),
        Entry("Socks5", <<"tls">>, "", "set"),
        Entry("Socks5", <<"skip", "cert", "verify">>, "-", "set"),
        Entry("ProxyGroup", <<"url">>, "", "set"),
        Entry("ProxyGroup", <<"interval">>, "", "set"),
        Entry("Rule", <<"params">>, "", "set")},
    mode |-> <<"rule">>, level |-> <<"info">>, listen |-> <<Ip4, "80">>,
    dnsMode |-> <<"redir", "host">>,
    servers |-> <<"114.114.114.114", "tls://dns.rubyfish.cn:853">>]
ExampleDocs == {[Example EXCEPT !.dnsMode = m] : m \in {<<"redir", "host">>, <<"fake", "ip">>}}
=============================================================================
