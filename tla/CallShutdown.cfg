\* Two calls that compete for three port pairs, and a shutdown.
CONSTANTS
    c1 = c1  c2 = c2  p1 = p1  p2 = p2  q1 = q1  q2 = q2  q3 = q3
    None = None
    Calls <- TwoCalls
    Phones <- OnePhone
    TLSPhones <- FirstTLS
    Announcing <- NoPhone
    Pairs <- ThreePairs
    Invites <- GoodInvites
SYMMETRY CallSymmetry
SPECIFICATION Spec
INVARIANTS PortsConserved FindableUntilRecorded SnapshotRecorded
