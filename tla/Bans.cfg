\* Three failures within two time units ban for two; three kinds of sources.
CONSTANTS
    stranger = stranger  office = office  home = home  r1 = r1  r2 = r2  k1 = k1
    None = None
    IPs <- AllIPs
    TrustedIPs <- OfficeIP
    HonestIPs <- HomeIP
    Threshold = 3  Window = 2  Duration = 2  MaxClock = 5
    Reqs <- TwoReqs
    Conns <- OneConn
SYMMETRY ReqSymmetry
SPECIFICATION BanSpec
INVARIANTS CountExact HonestNeverBanned
PROPERTY BanKept
