------------------------------ MODULE OTSState ------------------------------
(***************************************************************************)
(* The OTS consensus state of src/consensus/state.go: the BatchStatus enum *)
(* and its transition relation, OTSState, BatchState and the four state    *)
(* operations.  Every operation is a pure operator from a state to the     *)
(* next one; an operation whose precondition fails returns its argument    *)
(* unchanged, because every caller in the transition engine logs the error *)
(* and keeps the state it had.                                             *)
(*                                                                         *)
(* Data abstraction: hashes, digests and Bitcoin attestations are values   *)
(* compared only for equality; the addresses and block numbers recorded   *)
(* for RPC (TriggerNode, SubmittedAt/By, ConfirmedAt/By, AnchoredAt/By)    *)
(* are left out because no decision of the code reads them.               *)
(***************************************************************************)
EXTENDS Naturals

CONSTANTS
    NoBatch,    \* CurrentBatch == nil
    ZeroHash    \* common.Hash{} and the zero [32]byte

\* BatchStatus values, state.go:32-43.
BatchStatusNone      == 0
BatchStatusTriggered == 1
BatchStatusSubmitted == 2
BatchStatusConfirmed == 3
BatchStatusAnchored  == 4
BatchStatus == BatchStatusNone .. BatchStatusAnchored

\* The transition relation of BatchStatus.CanTransitionTo.
CanTransitionTo(s, target) ==
    \/ s = BatchStatusNone      /\ target = BatchStatusTriggered
    \/ s = BatchStatusTriggered /\ target = BatchStatusSubmitted
    \/ s = BatchStatusSubmitted /\ target = BatchStatusConfirmed
    \/ s = BatchStatusConfirmed /\ target \in {BatchStatusAnchored, BatchStatusNone}
    \/ s = BatchStatusAnchored  /\ target = BatchStatusNone

\* NewOTSState(enabled).
NewOTSState(enabled) ==
    [enabled |-> enabled, lastAnchoredBlock |-> 0, currentBatch |-> NoBatch]

HasActiveBatch(s) ==
    s.currentBatch # NoBatch /\ s.currentBatch.status # BatchStatusNone

CanTrigger(s) == s.enabled /\ ~HasActiveBatch(s)

\* OTSState.Trigger: a fresh BatchState; the submission and confirmation
\* fields keep their Go zero values.
Trigger(s, startBlock, endBlock, triggerBlock, rootHash) ==
    IF ~CanTrigger(s) THEN s
    ELSE [s EXCEPT !.currentBatch =
            [startBlock   |-> startBlock,
             endBlock     |-> endBlock,
             rootHash     |-> rootHash,
             status       |-> BatchStatusTriggered,
             triggerBlock |-> triggerBlock,
             otsDigest    |-> ZeroHash,
             btc          |-> ZeroHash]]

\* The guard every Mark* operation applies before it writes: the batch is
\* present, has the expected status, and CanTransitionTo allows the move.
InStatus(s, from, to) ==
    /\ s.currentBatch # NoBatch
    /\ s.currentBatch.status = from
    /\ CanTransitionTo(from, to)

\* OTSState.MarkSubmitted: records the calendar digest.
MarkSubmitted(s, digest) ==
    IF ~InStatus(s, BatchStatusTriggered, BatchStatusSubmitted) THEN s
    ELSE [s EXCEPT !.currentBatch.otsDigest = digest,
                   !.currentBatch.status    = BatchStatusSubmitted]

\* OTSState.MarkConfirmed: records the Bitcoin attestation (BTCBlockHeight,
\* BTCTxID and BTCTimestamp together).
MarkConfirmed(s, btc) ==
    IF ~InStatus(s, BatchStatusSubmitted, BatchStatusConfirmed) THEN s
    ELSE [s EXCEPT !.currentBatch.btc    = btc,
                   !.currentBatch.status = BatchStatusConfirmed]

\* OTSState.MarkAnchored: advances LastAnchoredBlock to the batch's end and
\* clears the batch in the same call, so Anchored is never observable.
MarkAnchored(s) ==
    IF ~InStatus(s, BatchStatusConfirmed, BatchStatusAnchored) THEN s
    ELSE [s EXCEPT !.lastAnchoredBlock = s.currentBatch.endBlock,
                   !.currentBatch      = NoBatch]

=============================================================================
