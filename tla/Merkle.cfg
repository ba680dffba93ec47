\* Batches of up to five RUIDs over three values, duplicates included.
CONSTANTS
    NoBatch = NoBatch
    ZeroHash = ZeroHash
    RUIDValues <- MC_RUIDValues
    MaxLeaves = 5

SPECIFICATION Spec

\* A batch stops growing at MaxLeaves RUIDs.
CHECK_DEADLOCK FALSE

INVARIANT RootMatchesReference
INVARIANT ProofSound
