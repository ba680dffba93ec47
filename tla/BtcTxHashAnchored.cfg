\* The anchor tx against the Bitcoin txid the calendar reported.
CONSTANTS
    NoBatch = NoBatch
    ZeroHash = ZeroHash
    Registry = Registry
    SubmittedSel = SubmittedSel
    ConfirmedSel = ConfirmedSel
    AnchorSel = AnchorSel
    UintBits = 3
    HashBytes = 2
    TxIds <- MC_TxIds
    Producers = {p1, p2}
    Clients = {p1}

SPECIFICATION FlowSpec

\* The flow ends once the batch is anchored.
CHECK_DEADLOCK FALSE

INVARIANT BtcTxHashAnchored
