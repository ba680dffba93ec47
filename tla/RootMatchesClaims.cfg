\* A claim in the batch range: the root must be the Merkle root of the claims.
CONSTANTS
    NoBatch = NoBatch
    ZeroHash = ZeroHash
    NoSnapshot = NoSnapshot
    Registry = Registry
    OtherContract = OtherContract
    BadRoot = BadRoot
    BadDigest = BadDigest
    FakeBtc = FakeBtc
    Producers = {p1, p2, f1}
    Clients = {p1}
    Faulty = {f1}
    RUIDs = {1}
    OTSEnabled = TRUE
    CacheSize = 2
    PersistInterval = 4
    MaxBlock = 4
    MaxDay = 1
    ForgedLogs <- MC_ForgedLogs

SPECIFICATION Spec

\* The chain stops growing at MaxBlock; every state there is final.
CHECK_DEADLOCK FALSE

INVARIANT RootMatchesClaims
