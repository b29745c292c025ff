\* The frequency tables of blocks of at most 27,000 symbols.
SPECIFICATION TableSpec
CONSTANTS
    m1 = m1
    m2 = m2
    m3 = m3
    Super = Super
    Absent = Absent
    None = None
    Entry = Entry
    Master = {m1, m2, m3}
    Length <- LengthOf
    SuperLength = 2
    Context = 1
    Directory = 1
    Record = 1
    Work = 2
    MemoryLimit = 13
    Inputs <- MatcherInputs
    BUF_SIZE = 16
    READ_SIZE = 4
    FARTHEST = 9
    NEAR = 4
    PLAIN = 3
    MAX_LEN = 6
    IBUF_SIZE = 12
    FLUSH = 5
    HashAt <- ThreeHash
    Members <- WindowMembers
    WINDOW = 16
    MARGIN = 9
CHECK_DEADLOCK FALSE
INVARIANT
    ScaledToSum
