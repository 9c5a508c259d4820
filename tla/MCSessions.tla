----------------------------- MODULE MCSessions -----------------------------
(* Instances of Sessions, with the requests of Directory, for TLC. *)
EXTENDS Sessions, TLC

CONSTANTS o1, o2, o3, s1, s2

ThreeOps == {o1, o2, o3}
TwoSecrets == {s1, s2}
OpSymmetry == Permutations(Ops) \cup Permutations(Secrets)
=============================================================================
