\* Two repositories that can repair each other; every operation ends and no
\* lock stays for ever.
SPECIFICATION FairSpec
CONSTANTS
    Client = {c1, c2}
    Repo = {r1, r2}
    Chunk = {x}
    x = x
    y = y
    z = z
    Snap = {1}
    Refs <- SmallRefs
    Free = Free
    Stale = Stale
    Nil = Nil
    MaxDamage = 0
INVARIANTS
    LocksExclude
PROPERTIES
    OperationsEnd
    LocksAreReleased
CHECK_DEADLOCK TRUE
