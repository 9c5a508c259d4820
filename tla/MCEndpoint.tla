----------------------------- MODULE MCEndpoint -----------------------------
(* A phone behind NAT: private SDP address, another port outside. *)
EXTENDS Endpoint

CONSTANTS s1, s2

TwoSetters == {s1, s2}
MCIps == {"nat", "lan", "far"}
MCPrivate == {"lan"}
MCPorts == {5, 6, 7}
TwoHomes == {[ip |-> "nat", port |-> 6], [ip |-> "nat", port |-> 7]}
OneHome == {[ip |-> "nat", port |-> 7]}
Neighbours == {[ip |-> "nat", port |-> 5], [ip |-> "far", port |-> 5]}
SdpAndHold == {[ip |-> "lan", port |-> 5, hold |-> FALSE],
               [ip |-> "lan", port |-> 6, hold |-> FALSE],
               [ip |-> "lan", port |-> 5, hold |-> TRUE]}
=============================================================================
