\* Two pairs (4-5 and 6-7) of a range with odd bounds, three owners.
SPECIFICATION PoolSpec
CONSTANTS
    PortMin = 3
    PortMax = 8
    Owners <- ThreeOwners
    o1 = o1  o2 = o2  o3 = o3
    None = None
INVARIANT PoolTypeOK
PROPERTIES RefusedAfterAll ImplementsPortSet
