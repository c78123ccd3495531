SPECIFICATION Spec
CONSTANTS
    Process = {p1, p2}
    Record = {a, b}
    MaxBatch = 2
    MaxEntries = 4
    Hash <- HashSet
    GenesisHash <- Genesis
    ComputeEntryHash <- PairHash
INVARIANTS
    TypeOK
    ChainVerifies
    LinksResolve
PROPERTIES
    BreakIsStable
