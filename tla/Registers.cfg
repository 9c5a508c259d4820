\* Two REGISTERs, an INVITE, the purge and the administrator, interleaved.
CONSTANTS
    u1 = u1  u2 = u2  h1 = h1  h2 = h2  i1 = i1
    Contacts <- TwoContacts
    Handlers <- TwoHandlers
    Invites <- OneInvite
    Requests <- SomeRequests
    MinExpires = 2  MaxExpires = 3  DefaultExpires = 4
    MaxTime = 3
SYMMETRY HandlerSymmetry
SPECIFICATION Spec
INVARIANTS NoOrphanBinding OkMeansDone TlsOnlyRung
