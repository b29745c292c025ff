\* Three requests, two entries; a timer that fires and fetches that end.
SPECIFICATION FairSpec
CONSTANTS
    sample = sample
    other = other
    broken = broken
    e1 = e1
    e2 = e2
    None = None
    Archive = {sample, other, broken}
    Sample = sample
    Unreadable = {broken}
    Entry = {e1, e2}
    Sound <- SoundEntries
    MaxJobs = 3
INVARIANTS
    ChecksAreTrue
    SavesAreVerified
    BusyWhileWorking
PROPERTIES
    BusyEnds
CHECK_DEADLOCK FALSE
