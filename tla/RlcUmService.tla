---------------------------- MODULE RlcUmService ----------------------------
(***************************************************************************)
(* What RLC UM promises the layer above: SDUs arrive in the order in which  *)
(* they were sent and at most once; some may not arrive.  SDUs are numbered *)
(* in the order of sending.                                                 *)
(***************************************************************************)
EXTENDS Integers, Sequences

VARIABLES
    sent,      \* SDUs handed over for transmission
    last,      \* the last SDU that was delivered
    up         \* SDUs delivered in the last step

vars == <<sent, last, up>>

Init == sent = 0 /\ last = 0 /\ up = << >>

Send == sent' = sent + 1 /\ up' = << >> /\ UNCHANGED last

Ascending(s) == \A i \in 1 .. Len(s) - 1 : s[i] < s[i + 1]

Deliver ==
    /\ Ascending(<<last>> \o up')
    /\ \A i \in DOMAIN up' : up'[i] \in 1 .. sent
    /\ last' = (<<last>> \o up')[Len(up') + 1]
    /\ UNCHANGED sent

Next == Send \/ Deliver

Spec == Init /\ [][Next]_vars
=============================================================================
