\* spec.md 4.3: Validator.ValidateSystemTx accepts every well-formed OTS
\* system tx an honest producer builds (expected to be violated).
CONSTANTS
    NoBatch = NoBatch
    ZeroHash = ZeroHash
    Registry = Registry
    SubmittedSel = SubmittedSel
    ConfirmedSel = ConfirmedSel
    AnchorSel = AnchorSel
    UintBits = 3
    HashBytes = 2
    TxIds <- MC_TxIds
    Producers = {p1, p2}
    Clients = {p1}

SPECIFICATION FlowSpec

\* The flow ends once the batch is anchored.
CHECK_DEADLOCK FALSE

INVARIANT HonestTxSystemValid

