\* Two legs, a room with a PIN: joins, leaves, kicks and a shutdown overlap.
CONSTANTS
    l1 = l1  l2 = l2  pinned = pinned
    q1 = q1  q2 = q2
    None = None
    Legs <- TwoLegs
    Numbers <- PinRoom
    PinNumbers <- PinRoom
    Ports <- TwoPorts

SPECIFICATION FairSpec
INVARIANTS RoomsOpenWhileUsed LegPortsConserved SnapshotLegsRecorded
PROPERTIES WrongPinEnds EndsFinish
