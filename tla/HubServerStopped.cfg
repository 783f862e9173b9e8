SPECIFICATION Spec
CONSTANTS
    l1 = l1
    l2 = l2
    l3 = l3
    s1 = s1
    s2 = s2
    s3 = s3
    Listeners = {l1, l2, l3}
    Sockets = {s1, s2, s3}
    Devices = {d1}
    MaxConnections = 2
    None = None
INVARIANTS
    StoppedLeavesNoHandle
