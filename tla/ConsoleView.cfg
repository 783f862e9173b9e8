SPECIFICATION FairSpec
CONSTANTS
    p1 = p1
    p2 = p2
    d1 = d1
    d2 = d2
    c1 = c1
    c2 = c2
    k1 = k1
    Projects = {p1, p2}
    Devices = {d1, d2}
    Certs = {c1, c2}
    Keys = {k1}
    CertScope <- MCScope
    CertMax <- MCMax
    CertIssued <- MCIssued
    CertExpires <- MCExpires
    CertKey <- MCKey
    Skew = 0
    MaxAhead = 2
    MaxTime = 0
    NoCert = NoCert
    NoKey = NoKey
    Slots = {1, 2}
    Inputs <- MCInputs
    Malformed = Malformed
    Wildcards = {c1}
    None = None
    Before <- MCBefore
    FailAt = {3}
    ListLimit = 1
    MaxHub = 1
    MaxLicenses = 2
    MaxClicks = 3
INVARIANTS
    OwnChangesShown
    StatusSettles
    ButtonsFollowHandlers
PROPERTIES
    NoticeIsTrue
    HandlersEnd
CHECK_DEADLOCK FALSE
