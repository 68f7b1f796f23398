------------------------------ MODULE MCHttp ------------------------------
(* Http for TLC: requests with no header, with as many as decode has room    *)
(* for, and with one more.                                                   *)
EXTENDS Http

Blocks == {<<>>, <<16>>, <<16, 1>>}
=============================================================================
