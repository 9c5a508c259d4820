---------------------------- MODULE MCRegistrar ----------------------------
(* Instances of Registrar for TLC. *)
EXTENDS Registrar, TLC

CONSTANTS u1, u2, h1, h2, i1

TwoContacts == {u1, u2}
TwoHandlers == {h1, h2}
OneInvite == {i1}

Request(tls, own, header, wildcard, contacts) ==
    [tls |-> tls, own |-> own, header |-> header, wildcard |-> wildcard,
     contacts |-> contacts]
Contact(uri, expires) == [uri |-> uri, expires |-> expires]

SomeRequests ==
    { Request(TRUE, TRUE, Absent, FALSE, << Contact(u1, Absent) >>),
      Request(FALSE, TRUE, 9, FALSE, << Contact(u1, Absent), Contact(u2, 0) >>),
      Request(TRUE, TRUE, 2, FALSE, << Contact(u2, 2), Contact(u1, 1) >>),
      Request(TRUE, TRUE, Absent, FALSE, << Contact(u1, 2), Contact(u2, Bad) >>),
      Request(TRUE, FALSE, 0, FALSE, << Contact(u1, Absent) >>),
      Request(TRUE, TRUE, Absent, FALSE, << >>),
      Request(TRUE, TRUE, 0, TRUE, << >>),
      Request(TRUE, TRUE, 2, TRUE, << >>) }

HandlerSymmetry == Permutations(Handlers)
=============================================================================
