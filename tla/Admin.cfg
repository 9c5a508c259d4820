\* Three overlapping requests: changes of one number, by page or by command,
\* logins, and changes of the administrator.
SPECIFICATION AdminSpec
CONSTANTS
    o1 = o1  o2 = o2  o3 = o3  s1 = s1  s2 = s2
    Numbers = {"800", "8a"}
    ValidNumbers = {"800"}
    Pins = {"", "12a"}
    ValidPins = {""}
    Secrets <- TwoSecrets
    Settings = {"on"}
    Fresh = "on"
    Ops <- ThreeOps
    NoRow = NoRow  Keep = Keep
    Passwords = {"old", "new", "short"}
    ValidPasswords = {"old", "new"}
    AdminRow = AdminRow
    First = First
    LockAt = 2
SYMMETRY OpSymmetry
INVARIANTS SignedOutUnlessOverlap
PROPERTIES SharedOnlyByOverlap LostOnlyByOverlap PasswordAsTold
CHECK_DEADLOCK FALSE
