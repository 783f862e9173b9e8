SPECIFICATION Spec
CONSTANTS
    p1 = p1
    p2 = p2
    c1 = c1
    c2 = c2
    k1 = k1
    k2 = k2
    Projects = {p1, p2}
    Devices = {d1, d2}
    Certs = {c1, c2}
    Keys = {k1, k2}
    CertScope <- TwoScope
    CertMax <- TwoMax
    CertIssued <- TwoIssued
    CertExpires <- TwoExpires
    CertKey <- TwoKey
    Skew = 2
    MaxAhead = 3
    MaxTime = 2
    DefaultValidity = 2
    MaxLicenses = 1
    NoCert = NoCert
    NoKey = NoKey
SYMMETRY DeviceSymmetry
INVARIANTS
    GrantedIsAccepted
    BoundOnce
PROPERTIES
    ImplementsAtomicIssue
    QuotaExceededOnlyByImport
