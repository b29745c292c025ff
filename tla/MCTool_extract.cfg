\* Extractions into directories that are there already.
SPECIFICATION ExtractSpec
CONSTANTS
    c1 = c1
    c2 = c2
    c3 = c3
    d1 = d1
    d2 = d2
    s1 = s1
    s2 = s2
    Root = Root
    Nil = Nil
    Chunk = {c1, c2, c3}
    Snap = {s1, s2}
    Dir = {d1, d2}
    Refs <- RefsOf
    DirOf <- DirsOf
    MaxFailures = 3
    SourceNames = {"a", "b"}
    SortedBefore <- Alphabetical
    Chunks = 2
    MaxChanges = 3
    BLOCK = 2
    SMALL = 1
    FILL = 1
    BLOCKS = 4
    MaxLen = 4
    MaxSteps = 3
    Archive <- ArchiveCells
    Proofs <- OfferedProofs
    WellFormed <- RightProofs
    MAX_PROOF = 10
    MAX_FIELD = 4
    MAX_DIGEST = 2
    MAX_DEPTH = 4
    WIDTH = 15
CHECK_DEADLOCK FALSE
INVARIANT
    ExtractedInPlace
