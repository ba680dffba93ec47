\* spec.md 7: after a restart the node must still process every block of the chain.
CONSTANTS
    NoBatch = NoBatch
    ZeroHash = ZeroHash
    NoSnapshot = NoSnapshot
    Registry = Registry
    OtherContract = OtherContract
    BadRoot = BadRoot
    BadDigest = BadDigest
    FakeBtc = FakeBtc
    Producers = {p1}
    Clients = {p1}
    Faulty = {}
    RUIDs = {}
    OTSEnabled = TRUE
    CacheSize = 8
    PersistInterval = 2
    MaxBlock = 5
    MaxDay = 2
    MaxCrashes = 1
    MaxRebuilds = 1
    ForgedLogs = {}

SPECIFICATION NodeFairSpec

\* The chain stops growing at MaxBlock; the node may be stuck after a restart.
CHECK_DEADLOCK FALSE

PROPERTY NodeCatchesUp
