SPECIFICATION KeysSpec
CONSTANTS
    t1 = t1
    t2 = t2
    t3 = t3
    Texts = {t1, t2, t3}
    Damaged = Damaged
    Passwords = {a, b}
    None = None
    NoText = NoText
    Calls = {h1, key}
    KeyCall = key
    MaxFailures = 2
    Lockout = 2
    IdleTimeout = 3
    MaxClock = 7
    MaxGuesses = 4
SYMMETRY MCSymmetry
INVARIANTS
    ConsoleTypeOK
    ThrottleHolds
    SaveHasItsCaller
PROPERTIES
    OnlyPasswordUnlocks
    OldKeyGivenUpForNewOnly
    StoredAsReported
    KeyChangedByAdministrator
