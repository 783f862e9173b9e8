SPECIFICATION Spec
CONSTANTS
    soon = soon
    late = late
    other = other
    Licenses = {soon, late, other}
    Terms <- MCTerms
    NoLicense = NoLicense
    Broken = Broken
    Skew = 0
    Tolerance = 0
    RenewWindow = 2
    MaxClock = 2
INVARIANTS
    RecheckTimerRuns
