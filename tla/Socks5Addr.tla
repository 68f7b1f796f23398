----------------------------- MODULE Socks5Addr -----------------------------
(***************************************************************************)
(* Addresses as tache/src/protocol/socks/v5.rs puts them on the wire: what *)
(* write_addr produces and the fixed arrays it writes to.  An address is   *)
(* its kind and, for a domain name, its length; its content is opaque.     *)
(***************************************************************************)
EXTENDS Naturals

CONSTANT DomainLens   \* lengths of domain names

ASSUME DomainLensAssumption == DomainLens \subseteq Nat

MAX_ADDR_LEN == 260
Byte == 0..255

Targets == [kind : {"V4", "V6"}, len : {0}] \cup [kind : {"Domain"}, len : DomainLens]
Unspecified == [kind |-> "V4", len |-> 0]      \* 0.0.0.0:0

\* Mutant: a name of 256 bytes is let through.
WritableOffByOne(t) == t.len <= 256

\* write_addr refuses a domain name whose length is no u8 ("InvalidInput").
Writable(t) == t.len <= 255

\* The bytes write_addr produces.
AddrLen(t) == CASE t.kind = "V4" -> 1 + 4 + 2
                [] t.kind = "V6" -> 1 + 16 + 2
                [] t.kind = "Domain" -> 1 + 1 + t.len + 2

\* With the three bytes before the address, in a request and in a datagram.
HeaderLen(t) == 3 + AddrLen(t)
HEADER == MAX_ADDR_LEN + 3
=============================================================================
