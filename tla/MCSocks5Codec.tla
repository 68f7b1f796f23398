---------------------------- MODULE MCSocks5Codec ----------------------------
(* Socks5Codec for TLC: names and method lists at the limits of their length *)
(* bytes, and a payload that begins like a message.                          *)
EXTENDS Socks5Codec

OneIp4 == {<<10, 0, 0, 1>>}
OneIp6 == {<<8193, 3512, 0, 0, 0, 0, 258, 1>>}
NamesAtLimits == {[i \in 1..n |-> 97] : n \in {0, 1, 255, 256}}
ListsAtLimits == {[i \in 1..n |-> (i - 1) % 3] : n \in {0, 1, 255}}
LikeAMessage == <<5, 1, 0>>
=============================================================================
