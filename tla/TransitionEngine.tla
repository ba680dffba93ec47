--------------------------- MODULE TransitionEngine ---------------------------
(***************************************************************************)
(* TransitionEngine of src/metrics/metrics.go (the file "transition.go"   *)
(* of package consensus bundled there): the pure function that derives a  *)
(* block's OTS state from its parent's state, its header and its receipts. *)
(*                                                                         *)
(* A header is [number, hash, day]: `day` is the UTC calendar date of      *)
(* header.Time (the (Year, YearDay) pair the code compares).  A receipt is *)
(* [ok, logs] (ok is receipt.Status = successful); a log is               *)
(* [addr, sig, topic, digest, btc, start, end]: the emitting address, the  *)
(* event signature (Topics[0]), the first indexed topic (rootHash or       *)
(* ruid) and the decoded data fields.                                      *)
(***************************************************************************)
EXTENDS Merkle

CONSTANT Registry   \* copyrightRegistryAddr (0x...9000)

\* TriggerHourUTC = 0.  isTriggerBlock: "currentYear > parentYear ||
\* currentDay > parentDay" then "Hour() >= 0", which every hour satisfies;
\* otherwise "parentHour < 0 && ...", which no hour satisfies.  So a block
\* is a trigger block iff its UTC date is later than its parent's.
IsTriggerBlock(header, parentHeader) == header.day > parentHeader.day

\* getRUIDsFromBlock: a placeholder that returns nil for every block.
GetRUIDsFromBlock(blockNum) == <<>>

\* calculateRootHash: the RUIDs of the blocks startBlock..endBlock, in block
\* order, then sorted and reduced by CalculateRoot (Merkle).
CalculateRootHash(startBlock, endBlock) ==
    CalculateRoot(FlattenSeq([i \in 1..(endBlock - startBlock + 1) |->
                                  GetRUIDsFromBlock(startBlock + i - 1)]))

\* Variant of HandleTrigger whose range starts at lastAnchoredBlock itself.
HandleTriggerFromLast(s, header) ==
    LET startBlock == s.lastAnchoredBlock
        endBlock   == header.number - 1
    IN  IF endBlock < startBlock THEN s
        ELSE Trigger(s, startBlock, endBlock, header.number,
                     CalculateRootHash(startBlock, endBlock))

\* handleTrigger: the batch covers lastAnchored+1 .. number-1; an empty
\* range is skipped.
HandleTrigger(s, header) ==
    LET startBlock == s.lastAnchoredBlock + 1
        endBlock   == header.number - 1
    IN  IF endBlock < startBlock THEN s
        ELSE Trigger(s, startBlock, endBlock, header.number,
                     CalculateRootHash(startBlock, endBlock))

\* The logs the extract* loops visit: the logs of successful receipts, in
\* receipt order.
SuccessfulLogs(receipts) ==
    FlattenSeq([i \in 1..Len(receipts) |->
                    IF receipts[i].ok THEN receipts[i].logs ELSE <<>>])

\* Variant of IsRegistryEvent that trusts the signature alone, without the
\* address check of the extract* loops.
IsEventAnyAddress(log, sig) == log.sig = sig

\* A log of the registry contract carrying the event `sig`.
IsRegistryEvent(log, sig) == log.addr = Registry /\ log.sig = sig

\* extractOTSSubmission / extractBTCConfirmation: the first registry log
\* with the event's signature wins; 0 when there is none.  Neither compares
\* the rootHash topic with the current batch.
FirstEvent(receipts, sig) ==
    SelectInSeq(SuccessfulLogs(receipts), LAMBDA l : IsRegistryEvent(l, sig))

EventAt(receipts, i) == SuccessfulLogs(receipts)[i]

\* hasValidAnchorTx / isValidAnchorLog: some registry Anchored log whose
\* rootHash topic is the batch's root.
HasValidAnchorTx(receipts, batch) ==
    \E i \in 1..Len(SuccessfulLogs(receipts)) :
        LET l == EventAt(receipts, i)
        IN  IsRegistryEvent(l, "Anchored") /\ l.topic = batch.rootHash

InBatchStatus(s, status) ==
    s.currentBatch # NoBatch /\ s.currentBatch.status = status

\* applyTransitions, rule by rule.  Each rule reads the state the previous
\* rule left behind.
Rule1Trigger(s, header, parentHeader) ==
    IF CanTrigger(s) /\ IsTriggerBlock(header, parentHeader)
    THEN HandleTrigger(s, header) ELSE s

Rule2Submit(s, receipts) ==
    LET i == FirstEvent(receipts, "OTSSubmitted")
    IN  IF InBatchStatus(s, BatchStatusTriggered) /\ i # 0
        THEN MarkSubmitted(s, EventAt(receipts, i).digest) ELSE s

Rule3Confirm(s, receipts) ==
    LET i == FirstEvent(receipts, "OTSConfirmed")
    IN  IF InBatchStatus(s, BatchStatusSubmitted) /\ i # 0
        THEN MarkConfirmed(s, EventAt(receipts, i).btc) ELSE s

Rule4Anchor(s, receipts) ==
    IF InBatchStatus(s, BatchStatusConfirmed)
       /\ HasValidAnchorTx(receipts, s.currentBatch)
    THEN MarkAnchored(s) ELSE s

ApplyTransitions(s, header, parentHeader, receipts) ==
    Rule4Anchor(
      Rule3Confirm(
        Rule2Submit(Rule1Trigger(s, header, parentHeader), receipts),
        receipts),
      receipts)

\* TransitionEngine.ProcessBlock, without its trailing StoreSnapshot (the
\* caller's action performs it): a disabled state is carried over as is.
ProcessBlock(parentState, header, parentHeader, receipts) ==
    IF ~parentState.enabled THEN parentState
    ELSE ApplyTransitions(parentState, header, parentHeader, receipts)

=============================================================================
