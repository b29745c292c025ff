\* Two processes repair two damaged replicas from each other.
SPECIFICATION ReplicasSpec
CONSTANTS
    Client = {c1, c2}
    Repo = {r1, r2}
    Chunk = {x, y}
    x = x
    y = y
    z = z
    Snap = {1, 2}
    Refs <- GrowingRefs
    Free = Free
    Stale = Stale
    Nil = Nil
    MaxDamage = 1
SYMMETRY ClientsAndRepos
INVARIANTS
    DamageDoesNotSpread
PROPERTIES
    ReplicaStable
CHECK_DEADLOCK TRUE
