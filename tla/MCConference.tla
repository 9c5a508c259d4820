---------------------------- MODULE MCConference ----------------------------
(* Instances of Conference for TLC. *)
EXTENDS Conference

CONSTANTS l1, l2, pinned, q1, q2

TwoLegs  == {l1, l2}
PinRoom  == {pinned}
TwoPorts == {q1, q2}
=============================================================================
