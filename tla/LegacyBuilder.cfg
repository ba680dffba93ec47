\* The legacy anchor path: BuildSystemTx, ValidateCandidate, and the
\* bundled Validator, over every candidate at 3-bit uint64.
CONSTANTS
    UintBits = 3
    HashBytes = 2
    SubmittedSel = SubmittedSel
    ConfirmedSel = ConfirmedSel
    AnchorSel = AnchorSel
    Roots = {r1, r2}
    TxIdStrings <- MC_TxIdStrings
    Registry = Registry
    NoRoot = NoRoot
    NoTx = NoTx
    NoDecoded = NoDecoded

SPECIFICATION Spec

INVARIANT AnchorMatchesCandidate
