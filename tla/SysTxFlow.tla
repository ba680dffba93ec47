------------------------------ MODULE SysTxFlow ------------------------------
(***************************************************************************)
(* One batch carried from Triggered to anchored through the system-tx     *)
(* codec.  Producers build each system tx from the head state             *)
(* (tryBuildOTSSubmittedTx, tryBuildOTSConfirmedTx, buildAnchorTx); the  *)
(* block that includes it must pass ValidateOTSSystemTx on the calldata;  *)
(* the registry contract turns the call into its event; the engine's      *)
(* applyTransitions reads the event.  Unlike OTSChain, transactions are   *)
(* calldata here, so every encoding and decoding on the way is modelled.  *)
(* The Bitcoin confirmation the calendar reports is fixed in Init: the    *)
(* question is whether what reaches the chain is what Bitcoin holds.      *)
(***************************************************************************)
EXTENDS TransitionEngine, SysTxCodec

CONSTANTS
    TxIds,       \* Bitcoin txids, as the bytes their hex display spells
    Producers,   \* validators sealing blocks in turn
    Clients      \* the producers configured with an OTS client

ASSUME Clients \subseteq Producers

VARIABLES
    btc,       \* the calendar's confirmation: [height, txid (hex string), ts]
    st,        \* the head OTSState
    pending,   \* calldata of the system tx the next block carries, or <<>>
    anchored,  \* calldata of the anchor tx once included, or <<>>
    calendar,  \* digests the OTS calendar has been given by Stamp
    bitcoin    \* digests whose calendar attestation is in a Bitcoin block

flowVars == <<btc, st, pending, anchored, calendar, bitcoin>>

\* Results CheckConfirmation may report: any uint64 height and timestamp,
\* and the hex display of a Bitcoin txid.
Confirmations ==
    [height : 0..UintMax - 1, txid : {Bytes2Hex(t) : t \in TxIds}, ts : 0..UintMax - 1]

Sha256(root) == <<"sha256", root>>

\* The head and parent headers of the flow: one UTC date, so no trigger.
FlowHeader == [number |-> 1, hash |-> 1, day |-> 0]

-----------------------------------------------------------------------------
(* The consensus manager's validators on calldata (state.go:615-681).     *)

ValidateSubmittedData(data, s) ==
    /\ InBatchStatus(s, BatchStatusTriggered)
    /\ SubmittedFits(data)
    /\ DecodeOTSSubmitted(data).root = s.currentBatch.rootHash

ValidateConfirmedData(data, s) ==
    /\ InBatchStatus(s, BatchStatusSubmitted)
    /\ ConfirmedFits(data)
    /\ DecodeOTSConfirmed(data).root = s.currentBatch.rootHash

ValidateAnchorData(data, s) ==
    LET d == DecodeAnchor(data) IN
    /\ InBatchStatus(s, BatchStatusConfirmed)
    /\ AnchorFits(data)
    /\ d.root = s.currentBatch.rootHash
    /\ d.start = s.currentBatch.startBlock /\ d.end = s.currentBatch.endBlock

\* ValidateOTSSystemTx: dispatch on the selector; other txs pass.
ValidateData(data, s) ==
    CASE HasSelector(data, SubmittedSel) -> ValidateSubmittedData(data, s)
      [] HasSelector(data, ConfirmedSel) -> ValidateConfirmedData(data, s)
      [] HasSelector(data, AnchorSel)    -> ValidateAnchorData(data, s)
      [] OTHER                           -> TRUE

-----------------------------------------------------------------------------
(* Events.                                                                *)

\* parseOTSConfirmedLog on the event data [btcBlockHeight, btcTxID,
\* btcTimestamp]: the integers through BytesToHash(..).Big().Uint64(), the
\* txid through Bytes2Hex.
ParseOTSConfirmedLog(words) ==
    [height |-> WordUint(words[1]), txid |-> Bytes2Hex(words[2]), ts |-> WordUint(words[3])]

\* The registry contract executing the call: the event it emits, as the
\* engine's log scans see it (the OTSConfirmed data already parsed).
RegistryLog(data) ==
    LET Log(sig, topic) == [addr |-> Registry, sig |-> sig, topic |-> topic,
                            digest |-> ZeroHash, btc |-> ZeroHash, start |-> 0, end |-> 0]
    IN  CASE data[1] = SubmittedSel ->
               [Log("OTSSubmitted", data[2]) EXCEPT !.digest = data[3]]
          [] data[1] = ConfirmedSel ->
               [Log("OTSConfirmed", data[2]) EXCEPT
                    !.btc = ParseOTSConfirmedLog(<<data[3], data[4], data[5]>>)]
          [] data[1] = AnchorSel ->
               [Log("Anchored", data[4]) EXCEPT !.start = data[2], !.end = data[3]]

-----------------------------------------------------------------------------
(* Producers and the OTS client.                                          *)

\* OTSClientInterface.CheckConfirmation(digest): confirmed with the
\* calendar's Bitcoin figures once the digest's attestation is in a Bitcoin
\* block; otherwise not confirmed, with the result's zero fields.
CheckConfirmation(digest) ==
    IF digest \in bitcoin
    THEN [confirmed |-> TRUE, height |-> btc.height, txid |-> btc.txid, ts |-> btc.ts]
    ELSE [confirmed |-> FALSE, height |-> 0, txid |-> <<>>, ts |-> 0]

\* tryBuildOTSSubmittedTx: Stamp(rootHash) succeeds (the calendar now holds
\* the digest) and returns the digest.  A failing Stamp builds nothing.
TryBuildOTSSubmittedTx ==
    LET digest == Sha256(st.currentBatch.rootHash)
    IN  /\ calendar' = calendar \cup {digest}
        /\ pending' = OTSSubmittedCalldata(st.currentBatch.rootHash, digest)

\* Variant of TryBuildOTSConfirmedTx with the result check inverted.
TryBuildOTSConfirmedTxInverted ==
    LET result == CheckConfirmation(st.currentBatch.otsDigest)
    IN  /\ ~result.confirmed
        /\ pending' = OTSConfirmedCalldata(st.currentBatch.rootHash, result.height,
                                           AsciiCopy(result.txid), result.ts)
        /\ UNCHANGED calendar

\* tryBuildOTSConfirmedTx: nothing unless CheckConfirmation reports the
\* digest confirmed; its BTCTxID string is copied byte for byte into the
\* bytes32.
TryBuildOTSConfirmedTx ==
    LET result == CheckConfirmation(st.currentBatch.otsDigest)
    IN  /\ result.confirmed
        /\ pending' = OTSConfirmedCalldata(st.currentBatch.rootHash, result.height,
                                           AsciiCopy(result.txid), result.ts)
        /\ UNCHANGED calendar

\* buildAnchorTx: the candidate takes range, root, BTCTxID and
\* BTCTimestamp from the batch.
BuildAnchorTx ==
    /\ pending' = AnchorCalldata(st.currentBatch.startBlock, st.currentBatch.endBlock,
                                 st.currentBatch.rootHash, st.currentBatch.btc.txid,
                                 st.currentBatch.btc.ts)
    /\ UNCHANGED calendar

\* GetSystemTransactions for producer p sealing the next block: at most one
\* system tx, chosen by the batch status; the calendar calls only on a
\* node with an OTS client.  A block without a system tx changes nothing.
GetSystemTransactions(p) ==
    /\ pending = <<>>
    /\ \/ InBatchStatus(st, BatchStatusTriggered) /\ p \in Clients /\ TryBuildOTSSubmittedTx
       \/ InBatchStatus(st, BatchStatusSubmitted) /\ p \in Clients /\ TryBuildOTSConfirmedTx
       \/ InBatchStatus(st, BatchStatusConfirmed) /\ BuildAnchorTx
    /\ UNCHANGED <<btc, st, anchored, bitcoin>>

\* The calendar's attestation of a stamped digest is committed to Bitcoin.
BitcoinConfirm ==
    /\ \E d \in calendar \ bitcoin : bitcoin' = bitcoin \cup {d}
    /\ UNCHANGED <<btc, st, pending, anchored, calendar>>

\* The block carrying the tx: accepted by ValidateOTSSystemTx, executed by
\* the contract (emitting its event, or reverting with no logs), applied
\* by the engine.  The next block's producer builds afresh.
IncludeBlock(ok) ==
    /\ pending # <<>>
    /\ ValidateData(pending, st)
    /\ st' = ProcessBlock(st, FlowHeader, FlowHeader,
                          <<[ok |-> ok, logs |-> IF ok THEN <<RegistryLog(pending)>> ELSE <<>>]>>)
    /\ anchored' = IF ok /\ pending[1] = AnchorSel THEN pending ELSE anchored
    /\ pending' = <<>>
    /\ UNCHANGED <<btc, calendar, bitcoin>>

FlowInit ==
    /\ btc \in Confirmations
    /\ \E start, end \in 1..UintMax - 1 :
          /\ start <= end
          /\ st = Trigger(NewOTSState(TRUE), start, end, end + 1, "root")
    /\ pending = <<>>
    /\ anchored = <<>>
    /\ calendar = {}
    /\ bitcoin = {}

FlowNext ==
    \/ \E p \in Producers : GetSystemTransactions(p)
    \/ BitcoinConfirm
    \/ \E ok \in BOOLEAN : IncludeBlock(ok)

FlowSpec == FlowInit /\ [][FlowNext]_flowVars

\* Every producer seals blocks in turn and each sealed block asks
\* GetSystemTransactions again; the calendar, once reachable, answers; a
\* stamped digest reaches Bitcoin; a system tx included again and again
\* does not revert every time.  The last three are assumptions on the
\* environment.
FairFlowSpec ==
    /\ FlowSpec
    /\ \A p \in Producers : WF_flowVars(GetSystemTransactions(p))
    /\ WF_flowVars(BitcoinConfirm)
    /\ SF_flowVars(IncludeBlock(TRUE))

-----------------------------------------------------------------------------
\* A triggered batch is eventually anchored: the producers retry each
\* phase on every block (GetSystemTransactions keeps no memory of a
\* failed or reverted attempt), and no phase waits for something that never
\* comes (spec.md 3.2: Triggered -> Submitted -> Confirmed -> Anchored).
BatchAnchored == InBatchStatus(st, BatchStatusTriggered) ~> anchored # <<>>

\* Every system tx an honest producer builds from the head state passes
\* ValidateOTSSystemTx against that state: the encoders and the decoders
\* agree on selector, layout and length for every uint64 value.
HonestTxValid == pending # <<>> => ValidateData(pending, st)

\* spec.md 1 and 3: the Bitcoin block height and timestamp recorded for
\* the batch are those Bitcoin reported (otsConfirmed encodes them
\* through int64).
BtcFiguresRecorded ==
    InBatchStatus(st, BatchStatusConfirmed) =>
        /\ st.currentBatch.btc.height = btc.height
        /\ st.currentBatch.btc.ts = btc.ts

\* spec.md 3 (AnchorCalldata.btcTxHash): the anchor tx carries the hash of
\* the Bitcoin transaction ("stored as-is" from its hex display).
BtcTxHashAnchored ==
    anchored # <<>> => DecodeAnchor(anchored).btcTxHash = FromHex(btc.txid)

\* spec.md 4.3: the system-transaction validator accepts a tx with gas
\* price 0, the registry as recipient, one of the three known selectors and
\* that selector's minimum length, which every tx an honest producer builds
\* has (Validator.ValidateSystemTx on the producer's tx).
HonestTxSystemValid == pending # <<>> => ValidateSystemTxData(pending)

=============================================================================
