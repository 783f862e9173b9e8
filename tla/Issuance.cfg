SPECIFICATION FairSpec
CONSTANTS
    p1 = p1
    p2 = p2
    c1 = c1
    c2 = c2
    k1 = k1
    k2 = k2
    Projects = {p1}
    Devices = {d1, d2}
    Certs = {c1}
    Keys = {k1}
    CertScope <- OneScope
    CertMax <- OneMax
    CertIssued <- OneIssued
    CertExpires <- OneExpires
    CertKey <- OneKey
    Skew = 0
    MaxAhead = 2
    MaxTime = 0
    DefaultValidity = 1
    MaxLicenses = 3
    NoCert = NoCert
    NoKey = NoKey
INVARIANTS
    TypeOK
    WrittenHasFile
    OneCurrent
    SupersededByGranted
    AuditTellsGranted
PROPERTIES
    ImplementsAtomicIssue
    IssueEnds
    BootTerminates
