\* One batch from Triggered to anchored through calldata, two producers
\* of which one has an OTS client, a calendar, Bitcoin and reverts.
CONSTANTS
    NoBatch = NoBatch
    ZeroHash = ZeroHash
    Registry = Registry
    SubmittedSel = SubmittedSel
    ConfirmedSel = ConfirmedSel
    AnchorSel = AnchorSel
    UintBits = 3
    HashBytes = 2
    TxIds <- MC_TxIds
    Producers = {p1, p2}
    Clients = {p1}

SPECIFICATION FairFlowSpec

\* The flow ends once the batch is anchored.
CHECK_DEADLOCK FALSE

INVARIANT HonestTxValid

PROPERTY BatchAnchored
