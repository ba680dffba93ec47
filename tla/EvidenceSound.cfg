\* A faulty producer against the recorded OTS evidence.
CONSTANTS
    NoBatch = NoBatch
    ZeroHash = ZeroHash
    NoSnapshot = NoSnapshot
    Registry = Registry
    OtherContract = OtherContract
    BadRoot = BadRoot
    BadDigest = BadDigest
    FakeBtc = FakeBtc
    Producers = {p1, p2, f1}
    Clients = {p1}
    Faulty = {f1}
    RUIDs = {}
    OTSEnabled = TRUE
    CacheSize = 2
    PersistInterval = 4
    MaxBlock = 5
    MaxDay = 1
    ForgedLogs <- MC_ForgedLogs

SPECIFICATION Spec

\* The chain stops growing at MaxBlock; every state there is final.
CHECK_DEADLOCK FALSE

INVARIANT EvidenceSound
