\* One call, two phones: every order of answers, 183s, CANCEL, timeouts, BYEs.
CONSTANTS
    c1 = c1  c2 = c2  p1 = p1  p2 = p2  q1 = q1  q2 = q2  q3 = q3
    None = None
    Calls <- OneCall
    Phones <- TwoPhones
    TLSPhones <- FirstTLS
    Announcing <- TwoPhones
    Pairs <- TwoPairs
    Invites <- InviteFacts

SPECIFICATION FairSpec
INVARIANTS ExactlyOneRecord RecordTruthful NoOrphanPhone
PROPERTIES CallsSettle ShutdownFinishes
