----------------------------- MODULE MCPortPool -----------------------------
(* Instances of PortPool for TLC. *)
EXTENDS PortPool, TLC

CONSTANTS o1, o2, o3

ThreeOwners == {o1, o2, o3}
=============================================================================
