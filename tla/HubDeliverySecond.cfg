SPECIFICATION MCSpec
CONSTANTS
    p1 = p1
    p2 = p2
    d1 = d1
    c1 = c1
    k1 = k1
    Projects = {p1, p2}
    Devices = {d1}
    Certs = {c1}
    Keys = {k1}
    CertScope <- MCScope
    CertMax <- MCMax
    CertIssued <- MCIssued
    CertExpires <- MCExpires
    CertKey <- MCKey
    Skew = 1
    MaxAhead = 3
    MaxTime = 2
    DefaultValidity = 2
    MaxLicenses = 3
    SchemaSupported = FALSE
    NoCert = NoCert
    NoKey = NoKey
PROPERTIES
    NoSecondIssue
