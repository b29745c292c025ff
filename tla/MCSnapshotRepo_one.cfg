\* Two processes on one repository; one object may be damaged at a time.
SPECIFICATION Spec
CONSTANTS
    Client = {c1, c2}
    Repo = {r1}
    Chunk = {x, y, z}
    x = x
    y = y
    z = z
    Snap = {1, 2}
    Refs <- OverlappingRefs
    Free = Free
    Stale = Stale
    Nil = Nil
    MaxDamage = 1
SYMMETRY Clients
INVARIANTS
    SnapshotsComplete
    KeptSnapshotsSurvive
PROPERTIES
    StableWhileRead
    ConversionPreserves
    PruneLeavesNoOrphans
    ImplementsHistory
CHECK_DEADLOCK TRUE
