---------------------------- MODULE MCCallEngine ----------------------------
(* Instances of CallEngine for TLC. *)
EXTENDS CallEngine, TLC

CONSTANTS c1, c2, p1, p2, q1, q2, q3

OneCall   == {c1}
TwoCalls  == {c1, c2}
OnePhone  == {p1}
TwoPhones == {p1, p2}
FirstTLS  == {p1}
NoPhone   == {}
TwoPairs  == {q1, q2}
ThreePairs == {q1, q2, q3}

(* A call that nothing refuses: what is left open is who is registered. *)
GoodInvites ==
    {[auth |-> TRUE, callerTLS |-> FALSE, overTLS |-> TRUE,
      target |-> "extension", enabled |-> TRUE, self |-> FALSE,
      sdp |-> "plain", dbok |-> TRUE, calleeTLS |-> FALSE, regs |-> r] :
          r \in SUBSET Phones}

CallSymmetry == Permutations(Pairs) \cup Permutations(Calls)
=============================================================================
