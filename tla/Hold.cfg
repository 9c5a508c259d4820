\* Two requests at a time, hold and resume from both sides, and a hangup.
CONSTANTS
    r1 = r1  r2 = r2
    Reqs <- TwoReqs
    MaxVer <- TwoAndOne
    Offers <- SomeOffers
    Music = TRUE

SPECIFICATION ReinviteFairSpec
INVARIANTS HoldAgrees PlayersKnown
PROPERTIES RequestsAnswered
