\* The whole life of the program, with two renewals of its certificate, one
\* signal and two transports that end, with an error or without.
SPECIFICATION ServerSpec
CONSTANTS
    Renewals = 2
    Partial = Partial
    None = None
    Envs <- MCEnvs
    MaxSignals = 1
    MaxEnds = 2
INVARIANT FailureReported
PROPERTIES ServerStops RenewalServed
