\* A phone that moves, two SetRemotes, packets of others, and Close.
CONSTANTS
    s1 = s1  s2 = s2  Nobody = Nobody
    Ips <- MCIps  PrivateIps <- MCPrivate  Ports <- MCPorts
    SignalIP = "nat"
    Homes <- TwoHomes
    Strange <- Neighbours
    Setters <- TwoSetters
    Offers <- SdpAndHold
    Secured = TRUE
SPECIFICATION FairSpec
INVARIANTS StrangersIgnored NoPacketAfterRelease
PROPERTY FollowsPhone
