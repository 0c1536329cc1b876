---------------------------- MODULE MCNrSlSensing ----------------------------
(***************************************************************************)
(* Small instances of NrSlSensing.                                          *)
(***************************************************************************)
EXTENDS NrSlSensing

Tx(gap, start) == [gap |-> gap, start |-> start]
Report(rsvp, len, rsrp, tx) == [rsvp |-> rsvp, len |-> len, rsrp |-> rsrp, tx |-> tx]

\* RSRP thresholds in dBm.
LowThres == -128
MidThres == -8
TopThres == -2

EverySlot == <<TRUE>>
TwoOfThree == <<TRUE, TRUE, FALSE>>

\* Two senders nothing is known of but that they are heard.
Plain == [u \in Senders |-> Report(6, 1, -100, <<Tx(0, 0)>>)]

\* A strong sender on both sub-channels, a weak one on one with a retransmission.
StrongAndWeak ==
    ("strong" :> Report(6, 2, 3, <<Tx(0, 0)>>)) @@
    ("weak"   :> Report(6, 1, -5, <<Tx(0, 1), Tx(1, 0)>>))

\* One sender whose period is the length of the selection window.
Periodic == [u \in Senders |-> Report(3, 1, -5, <<Tx(0, 0)>>)]
=============================================================================
