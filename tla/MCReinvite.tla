----------------------------- MODULE MCReinvite -----------------------------
(* Instances of Reinvite for TLC. *)
EXTENDS Reinvite

CONSTANTS r1, r2

TwoReqs == {r1, r2}
SomeOffers == {"sendrecv", "sendonly", "none", "bad"}

(* One phone can hold and resume, the other do one of both. *)
TwoAndOne == [s \in Sides |-> IF s = "caller" THEN 3 ELSE 2]
=============================================================================
