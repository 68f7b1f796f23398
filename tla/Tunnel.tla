------------------------------- MODULE Tunnel -------------------------------
(***************************************************************************)
(* What a Socks5Stream promises its user, without the protocol: one        *)
(* direction of a tunnel.  The far end sends the bytes 1, 2, 3...  The     *)
(* tunnel is opened once; opening may lose a bounded prefix of what was    *)
(* sent before, and from then on the user gets every byte, in order and    *)
(* once.  A far end that does not speak first loses nothing.               *)
(***************************************************************************)
EXTENDS Naturals, Sequences

CONSTANT MaxLost  \* how much opening may lose, a natural number

VARIABLES
    phase,    \* "idle", "open" or "closed"
    eager,    \* may the far end speak before the tunnel is open?
    sentN,    \* how much the far end has sent
    lost,     \* the length of the prefix that opening lost
    out       \* what the user was given

Init ==
    /\ phase = "idle" /\ eager \in BOOLEAN
    /\ sentN = 0 /\ lost = 0 /\ out = <<>>

FarSends ==
    /\ eager \/ phase # "idle"
    /\ sentN' = sentN + 1
    /\ UNCHANGED <<phase, eager, lost, out>>

Open ==
    /\ phase = "idle" /\ phase' = "open"
    /\ lost' \in 0..MaxLost /\ lost' <= sentN
    /\ UNCHANGED <<eager, sentN, out>>

Deliver ==
    /\ phase = "open" /\ lost + Len(out) < sentN
    /\ out' = Append(out, lost + Len(out) + 1)
    /\ UNCHANGED <<phase, eager, sentN, lost>>

\* The call fails, or its user drops what it returned.
Close ==
    /\ phase # "closed" /\ phase' = "closed"
    /\ lost' = 0
    /\ UNCHANGED <<eager, sentN, out>>

Next == FarSends \/ Open \/ Deliver \/ Close

Spec == Init /\ [][Next]_<<phase, eager, sentN, lost, out>>
=============================================================================
