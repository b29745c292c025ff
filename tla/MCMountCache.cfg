\* Two threads read through a cache of three blocks and two files.
SPECIFICATION Spec
CONSTANTS
    t1 = t1
    t2 = t2
    a = a
    b = b
    c = c
    bad = bad
    huge = huge
    Thread = {t1, t2}
    Member = {a, b, c, bad, huge}
    Size <- Sizes
    Fault <- Faults
    Path <- Paths
    Node <- Nodes
    Folder = Folder
    Missing = Missing
    CacheBytes = 3
    CacheEntries = 2
    MaxRead = 2
    Nobody = Nobody
SYMMETRY Symmetric
INVARIANTS
    DiskBounded
    OnlyVerified
    ReadsWholeFile
PROPERTY
    CallsEnd
