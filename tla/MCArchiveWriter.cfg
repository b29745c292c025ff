CONSTANTS
    a = a
    b = b
    c = c
    zero = zero
    w1 = w1
    w2 = w2
    Unknown = Unknown
    NoFile = NoFile
    Writer = {w1, w2}
    Content <- MCContent
    Digest <- MCDigest
    Hash <- MCHash
    Name = {"x", "y"}
    Path <- MCPath
    MaxAdds <- MCMaxAdds
    Zero = zero
    Super = Super
    MasterMax = 1
    ChunkedMin = 1
    GroupSize = 2
    MaxDepth = 2
    MaxEntries = 4
    Old <- MCOld
    Declared = {Unknown, 1}
    MaxInput = 5
SPECIFICATION Spec
INVARIANTS
    RoundTrip
    ViewsAgree
PROPERTIES
    ImplementsStore
