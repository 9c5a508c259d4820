------------------------------ MODULE MCBanList -----------------------------
(* Instances of BanList for TLC. *)
EXTENDS BanList, TLC

CONSTANTS stranger, office, home, r1, r2, k1

AllIPs    == {stranger, office, home}
OfficeIP  == {office}
HomeIP    == {home}
TwoReqs   == {r1, r2}
OneConn   == {k1}
ReqSymmetry == Permutations(Reqs)
=============================================================================
