SPECIFICATION Spec
CONSTANTS
    Process = {p1}
    Record = {a, b}
    MaxBatch = 1
    MaxEntries = 3
    Hash <- HashSet
    GenesisHash <- Genesis
    ComputeEntryHash <- PairHash
INVARIANTS
    OnlyOverlapForks
