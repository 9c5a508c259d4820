SPECIFICATION Spec
CONSTANTS
    Bad = Bad
    Zero = Zero
    None = None
    Pbx = Pbx
    PhoneAddr = PhoneAddr
    VersionModulus = 2
    Offers <- MCOffers
    AnswerKinds = {"plain", "match", "other", "broken"}
    MaxOffers = 2
INVARIANTS
    KeysAgree
    SentNamesRelay
CHECK_DEADLOCK FALSE
