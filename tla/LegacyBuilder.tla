---------------------------- MODULE LegacyBuilder ----------------------------
(***************************************************************************)
(* The anchor-only system-transaction path of builder.go: a candidate     *)
(* batch is checked against a recomputed Merkle root (ValidateCandidate), *)
(* turned into an anchor tx (BuildSystemTx with encodeCalldata), and the  *)
(* tx is accepted and decoded by the bundled Validator (ValidateSystemTx, *)
(* DecodeCalldata).  The data is SysTxCodec's: uint64 at UintBits bits,   *)
(* bytes32 of HashBytes bytes, strings as ASCII codes.                    *)
(***************************************************************************)
EXTENDS SysTxCodec

CONSTANTS
    Roots,        \* Merkle roots a candidate may carry or a recount give
    TxIdStrings,  \* BTCTxID strings
    Registry,     \* the CopyrightRegistry contract address
    NoRoot, NoTx, NoDecoded

\* An otstypes.CandidateBatch.  A nil candidate and a nil BatchMeta fail
\* the same check, so both are the candidate without meta.
NilCandidate == [meta |-> FALSE, start |-> 0, end |-> 0, root |-> NoRoot,
                 txid |-> <<>>, ts |-> 0, validated |-> FALSE]

Candidates ==
    {NilCandidate} \cup
    [meta: {TRUE}, start: 0..UintMax - 1, end: 0..UintMax - 1, root: Roots,
     txid: TxIdStrings, ts: 0..UintMax - 1, validated: {FALSE}]

VARIABLES
    cand,      \* the candidate batch the producer holds
    computed,  \* the root the latest ValidateCandidate compared with
    tx,        \* the built transaction, or NoTx
    decoded,   \* what the validator decoded from it, or NoDecoded
    err        \* the error the latest call returned

vars == <<cand, computed, tx, decoded, err>>

-----------------------------------------------------------------------------

\* Variant of EncodeCalldata writing the integers as BuildOTSConfirmedTx
\* does, through int64 and BigToHash.
EncodeCalldataInt64(c) ==
    <<AnchorSel, BigToHashInt64(c.start), BigToHashInt64(c.end), c.root,
      BtcTxIDToBytes32(c.txid), BigToHashInt64(c.ts)>>

\* encodeCalldata: selector, then every uint64 through SetUint64 (its exact
\* value, right-aligned), the root as is, btcTxIDToBytes32 of the txid.
EncodeCalldata(c) ==
    <<AnchorSel, c.start, c.end, c.root, BtcTxIDToBytes32(c.txid), c.ts>>

\* Validator.ValidateSystemTx: gas price 0, the registry as recipient, and
\* the calldata check.
ValidateSystemTx(t) ==
    /\ t.gasPrice = 0
    /\ t.to = Registry
    /\ ValidateSystemTxData(t.data)

-----------------------------------------------------------------------------

\* The event collector hands the producer a new candidate batch.
NewCandidate ==
    /\ \E c \in Candidates : cand' = c
    /\ computed' = NoRoot /\ tx' = NoTx /\ decoded' = NoDecoded /\ err' = "none"

\* ValidateCandidate(candidate, computedRoot): nil candidate, then the root
\* comparison; only a match sets Validated, and a mismatch leaves it.
ValidateCandidate(r) ==
    /\ computed' = r
    /\ \/ /\ ~cand.meta
          /\ err' = "ErrInvalidCandidate" /\ UNCHANGED cand
       \/ /\ cand.meta /\ cand.root # r
          /\ err' = "ErrRootMismatch" /\ UNCHANGED cand
       \/ /\ cand.meta /\ cand.root = r
          /\ cand' = [cand EXCEPT !.validated = TRUE] /\ err' = "none"
    /\ UNCHANGED <<tx, decoded>>

\* BuildSystemTx(candidate, coinbase, nonce, gasLimit): nil candidate, else
\* a zero-price tx to the registry carrying encodeCalldata.
BuildSystemTx ==
    /\ tx = NoTx
    /\ \/ /\ ~cand.meta
          /\ err' = "ErrInvalidCandidate" /\ UNCHANGED tx
       \/ /\ cand.meta
          /\ tx' = [gasPrice |-> 0, to |-> Registry, data |-> EncodeCalldata(cand)]
          /\ err' = "none"
    /\ UNCHANGED <<cand, computed, decoded>>

\* A validator receives the tx: ValidateSystemTx, then DecodeCalldata.
ReceiveTx ==
    /\ tx # NoTx /\ decoded = NoDecoded
    /\ IF ValidateSystemTx(tx) /\ AnchorFits(tx.data)
       THEN decoded' = DecodeAnchor(tx.data) /\ err' = "none"
       ELSE err' = "ErrInvalidCalldata" /\ UNCHANGED decoded
    /\ UNCHANGED <<cand, computed, tx>>

Init ==
    /\ cand = NilCandidate
    /\ computed = NoRoot /\ tx = NoTx /\ decoded = NoDecoded /\ err = "none"

Next ==
    \/ NewCandidate
    \/ \E r \in Roots : ValidateCandidate(r)
    \/ BuildSystemTx
    \/ ReceiveTx

Spec == Init /\ [][Next]_vars

-----------------------------------------------------------------------------

\* The anchor a validator accepts from BuildSystemTx decodes to the
\* candidate it was built from: range, root, timestamp, and the txid as
\* btcTxIDToBytes32 reads it, for every uint64 value (encodeCalldata's
\* SetUint64 against DecodeCalldata's SetBytes(...).Uint64()).
AnchorMatchesCandidate ==
    decoded # NoDecoded =>
        decoded = [start |-> cand.start, end |-> cand.end, root |-> cand.root,
                   btcTxHash |-> BtcTxIDToBytes32(cand.txid), ts |-> cand.ts]

=============================================================================
