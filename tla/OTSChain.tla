------------------------------ MODULE OTSChain ------------------------------
(***************************************************************************)
(* One node of the chain running the OTSConsensusManager of               *)
(* src/consensus/state.go, with the world around it: the block producers  *)
(* (honest ones assembling blocks with GetSystemTransactions, faulty ones *)
(* putting any system transaction the validator accepts), the registry    *)
(* contract emitting events, user transactions claiming RUIDs or emitting *)
(* look-alike events from another contract, the OTS calendar and Bitcoin.  *)
(*                                                                         *)
(* Each block is one step: the producer's assembly, every node's          *)
(* ValidateOTSSystemTx on its system transactions, execution (receipts),  *)
(* and the node's ProcessBlock with the StoreSnapshot it ends with.  The   *)
(* chain is linear (no reorgs) and the node never restarts.               *)
(*                                                                         *)
(* Every node derives the same states, so a producer's view of the parent *)
(* state is the modelled node's.  The calendar and Bitcoin (OTSClient,    *)
(* outside src/) and the registry contract (outside src/) are modelled    *)
(* from spec.md sections 1, 4.6 and 6.                                     *)
(***************************************************************************)
EXTENDS TransitionEngine, SnapshotManager

CONSTANTS
    Producers,      \* validators taking turns to seal blocks
    Clients,        \* producers with an OTS client set (SetOTSClient)
    Faulty,         \* producers that build arbitrary system transactions
    RUIDs,          \* record ids users may claim
    OtherContract,  \* an address other than the registry
    ForgedLogs,     \* logs user transactions of OtherContract may emit
    BadRoot,        \* a root hash that is not the batch's
    BadDigest,      \* a calendar digest that is not sha256(root)
    FakeBtc,        \* a Bitcoin attestation no calendar produced
    MaxBlock,       \* the last block number explored
    MaxDay          \* the last UTC date explored (day 0 is genesis's)

ASSUME Clients \subseteq Producers /\ Faulty \subseteq Producers
ASSUME OTSEnabled = TRUE   \* with OTS disabled the manager does nothing
ASSUME MaxBlock \in Nat /\ MaxDay \in Nat

VARIABLES
    tip,       \* header of the chain head: [number, hash, day]
    body,      \* the head block: producer, user receipts, system txs, their outcomes
    cache,     \* SnapshotManager.cache: hash -> Snapshot
    db,        \* SnapshotManager.db: hash -> Snapshot (the persisted ones)
    head,      \* the Snapshot ProcessBlock returned for the head
    claims,    \* claims[n]: RUIDs of CopyrightClaimed events in block n
    calendar,  \* digests the OTS calendar has been given by Stamp
    bitcoin    \* digests whose attestation is committed in a Bitcoin block

vars == <<tip, body, cache, db, head, claims, calendar, bitcoin>>

-----------------------------------------------------------------------------
(* Hashing and external services, as abstract values.                      *)

Sha256(root)   == <<"sha256", root>>    \* the digest Stamp returns
Attest(digest) == <<"btc", digest>>     \* the BTC proof of a digest

-----------------------------------------------------------------------------
(* System transactions, decoded: [sel, root, digest, btc, start, end].     *)

OTSSubmittedTx(root, digest) ==
    [sel |-> "otsSubmitted", root |-> root, digest |-> digest,
     btc |-> ZeroHash, start |-> 0, end |-> 0]
OTSConfirmedTx(root, btc) ==
    [sel |-> "otsConfirmed", root |-> root, digest |-> ZeroHash,
     btc |-> btc, start |-> 0, end |-> 0]
AnchorTx(start, end, root, btc) ==
    [sel |-> "anchor", root |-> root, digest |-> ZeroHash,
     btc |-> btc, start |-> start, end |-> end]

\* The registry contract's event for a successful system call.
EventSig == [otsSubmitted |-> "OTSSubmitted", otsConfirmed |-> "OTSConfirmed",
             anchor |-> "Anchored"]
Emit(tx) ==
    [addr |-> Registry, sig |-> EventSig[tx.sel], topic |-> tx.root,
     digest |-> tx.digest, btc |-> tx.btc, start |-> tx.start, end |-> tx.end]

ClaimLog(ruid) ==
    [addr |-> Registry, sig |-> "CopyrightClaimed", topic |-> ruid,
     digest |-> ZeroHash, btc |-> ZeroHash, start |-> 0, end |-> 0]

\* Receipts of the system txs, appended after the user txs' receipts.
SystemReceipts(txs, oks) ==
    [i \in 1..Len(txs) |-> [ok |-> oks[i],
                            logs |-> IF oks[i] THEN <<Emit(txs[i])>> ELSE <<>>]]

\* A block's user transactions: none, one claim, or one look-alike event.
UserReceipts ==
    {<<>>}
    \cup {<<[ok |-> TRUE, logs |-> <<ClaimLog(r)>>]>> : r \in RUIDs}
    \cup {<<[ok |-> TRUE, logs |-> <<l>>]>> : l \in ForgedLogs}

Receipts(b) == b.user \o SystemReceipts(b.txs, b.oks)

\* collectRUIDsForBatch, one block: the ruid topics of registry
\* CopyrightClaimed logs, in every receipt (a reverted one has no logs).
ClaimedIn(receipts) ==
    LET logs == FlattenSeq([i \in 1..Len(receipts) |-> receipts[i].logs])
    IN  {logs[i].topic : i \in {j \in 1..Len(logs) :
                                  IsRegistryEvent(logs[j], "CopyrightClaimed")}}

-----------------------------------------------------------------------------
(* The manager's producer and validator paths.                             *)

\* GetSystemTransactions: the candidate outcomes [txs, stamped] for a
\* producer given the parent snapshot.  A Stamp or CheckConfirmation
\* error, or an unconfirmed digest, yields no transaction.
GetSystemTransactions(p, snap) ==
    IF snap = NoSnapshot \/ snap.state.currentBatch = NoBatch
    THEN {[txs |-> <<>>, stamped |-> {}]}
    ELSE LET b == snap.state.currentBatch IN
         CASE b.status = BatchStatusTriggered /\ p \in Clients ->
                {[txs |-> <<>>, stamped |-> {}],
                 [txs |-> <<OTSSubmittedTx(b.rootHash, Sha256(b.rootHash))>>,
                  stamped |-> {Sha256(b.rootHash)}]}
           [] b.status = BatchStatusSubmitted /\ p \in Clients ->
                {[txs |-> <<>>, stamped |-> {}]}
                \cup (IF b.otsDigest \in bitcoin
                      THEN {[txs |-> <<OTSConfirmedTx(b.rootHash, Attest(b.otsDigest))>>,
                             stamped |-> {}]}
                      ELSE {})
           [] b.status = BatchStatusConfirmed ->
                {[txs |-> <<AnchorTx(b.startBlock, b.endBlock, b.rootHash, b.btc)>>,
                  stamped |-> {}]}
           [] OTHER -> {[txs |-> <<>>, stamped |-> {}]}

\* ValidateOTSSystemTx with its validate* helpers: status gate, then the
\* root (and for anchor the block range).  Nothing else is compared.
ValidateOTSSystemTx(tx, snap) ==
    /\ snap # NoSnapshot
    /\ LET b == snap.state.currentBatch IN
       /\ b # NoBatch
       /\ tx.sel = "otsSubmitted" => b.status = BatchStatusTriggered
       /\ tx.sel = "otsConfirmed" => b.status = BatchStatusSubmitted
       /\ tx.sel = "anchor"       => b.status = BatchStatusConfirmed
       /\ tx.root = b.rootHash
       /\ tx.sel = "anchor" => tx.start = b.startBlock /\ tx.end = b.endBlock

\* What a faulty producer may put in a block: every kind of system tx with
\* the right or a wrong root, digest, attestation or range.
ForgedTxs(snap) ==
    IF snap = NoSnapshot \/ snap.state.currentBatch = NoBatch THEN {}
    ELSE LET b == snap.state.currentBatch
             roots == {b.rootHash, BadRoot}
         IN  {OTSSubmittedTx(r, d) : r \in roots,
                                     d \in {Sha256(x) : x \in roots} \cup {BadDigest}}
             \cup {OTSConfirmedTx(r, x) : r \in roots, x \in {Attest(b.otsDigest), FakeBtc}}
             \cup {AnchorTx(b.startBlock, e, r, b.btc) : r \in roots,
                                                         e \in {b.endBlock, b.endBlock + 1}}


-----------------------------------------------------------------------------
(* Blocks.                                                                 *)

\* The date of the next block: the same as the head's or a later one (one
\* day later stands for any later date, as only the order is compared).
NextDays == {tip.day} \cup ({tip.day + 1} \cap 0..MaxDay)

\* Variant of ManagerParent that falls back to the genesis snapshot for
\* any block whose parent snapshot is missing.
ManagerParentAnyBlock(r, header, parentHeader) ==
    IF r.snap # NoSnapshot THEN r.snap ELSE GetGenesisSnapshot(parentHeader.hash)

\* The parent snapshot OTSConsensusManager.ProcessBlock starts from: the
\* GetSnapshot result `r` for the parent, or the genesis snapshot when the
\* block is block 1; NoSnapshot is the ErrSnapshotNotFound it returns.
ManagerParent(r, header, parentHeader) ==
    IF r.snap # NoSnapshot THEN r.snap
    ELSE IF header.number = 1 THEN GetGenesisSnapshot(parentHeader.hash)
    ELSE NoSnapshot

\* The snapshot TransitionEngine.ProcessBlock builds for `header` (its
\* StoreSnapshot is performed by the caller's action).
ChildSnapshot(parent, header, parentHeader, receipts) ==
    NewSnapshot(header.number, header.hash,
                ProcessBlock(parent.state, header, parentHeader, receipts))

\* Importing the block built on `tip`: the manager's ProcessBlock (an error
\* without a parent snapshot rejects the block), the engine's transition
\* and its StoreSnapshot.  `r` is the GetSnapshot outcome for the parent,
\* `stamped` the digests the producer's Stamp gave the calendar.
ImportBlock(b, day, r, stamped) ==
    LET header == [number |-> tip.number + 1, hash |-> tip.number + 1, day |-> day]
        parent == ManagerParent(r, header, tip)
        snap   == ChildSnapshot(parent, header, tip, Receipts(b))
    IN  /\ parent # NoSnapshot
        /\ \E s \in StoreSnapshot(r.cache, db, snap) :
              cache' = s.cache /\ db' = s.db
        /\ head'     = snap
        /\ tip'      = header
        /\ body'     = b
        /\ claims'   = [claims EXCEPT ![header.number] = ClaimedIn(Receipts(b))]
        /\ calendar' = calendar \cup stamped
        /\ UNCHANGED bitcoin

\* An honest producer seals a block with the transactions
\* GetSystemTransactions returned; each system tx may succeed or revert.
HonestBlock(p) ==
    /\ tip.number < MaxBlock
    /\ \E r \in GetSnapshot(cache, db, tip.hash), day \in NextDays,
          user \in UserReceipts :
         \E sys \in GetSystemTransactions(p, r.snap) :
           \E oks \in [1..Len(sys.txs) -> BOOLEAN] :
             /\ \A i \in 1..Len(sys.txs) : ValidateOTSSystemTx(sys.txs[i], r.snap)
             /\ ImportBlock([user |-> user, txs |-> sys.txs, oks |-> oks],
                            day, r, sys.stamped)

\* A faulty producer seals a block with a system tx of its own making; the
\* block is accepted only if ValidateOTSSystemTx passes.
FaultyBlock(f) ==
    /\ tip.number < MaxBlock
    /\ \E r \in GetSnapshot(cache, db, tip.hash), day \in NextDays,
          user \in UserReceipts :
         \E tx \in ForgedTxs(r.snap), ok \in BOOLEAN :
           /\ ValidateOTSSystemTx(tx, r.snap)
           /\ ImportBlock([user |-> user, txs |-> <<tx>>, oks |-> <<ok>>], day, r, {})

\* A calendar attestation is committed into a Bitcoin block.
BitcoinConfirm ==
    \E d \in calendar \ bitcoin :
        /\ bitcoin' = bitcoin \cup {d}
        /\ UNCHANGED <<tip, body, cache, db, head, claims, calendar>>

\* The genesis header: block 0, hash 0, UTC date 0.
GenesisHeader == [number |-> 0, hash |-> 0, day |-> 0]

Init ==
    /\ tip      = GenesisHeader
    /\ body     = [user |-> <<>>, txs |-> <<>>, oks |-> <<>>]
    /\ cache    = [h \in {} |-> NoSnapshot]
    /\ db       = [h \in {} |-> NoSnapshot]
    /\ head     = GetGenesisSnapshot(0)
    /\ claims   = [n \in 1..MaxBlock |-> {}]
    /\ calendar = {}
    /\ bitcoin  = {}

Next ==
    \/ \E p \in Producers \ Faulty : HonestBlock(p)
    \/ \E f \in Faulty : FaultyBlock(f)
    \/ BitcoinConfirm

Spec == Init /\ [][Next]_vars

-----------------------------------------------------------------------------
(* Properties.                                                             *)

Hashes  == {ZeroHash, BadRoot}
Digests == {ZeroHash, BadDigest} \cup {Sha256(h) : h \in Hashes}
Btcs    == {ZeroHash, FakeBtc} \cup {Attest(d) : d \in Digests}
Blocks  == 0..MaxBlock

BatchType ==
    [startBlock : Blocks, endBlock : Blocks, rootHash : Hashes,
     status : BatchStatus, triggerBlock : Blocks, otsDigest : Digests, btc : Btcs]
StateType ==
    [enabled : BOOLEAN, lastAnchoredBlock : Blocks,
     currentBatch : {NoBatch} \cup BatchType]
SnapshotType == [number : Blocks, hash : Blocks, state : StateType]

IsSnapshotStore(m) ==
    /\ DOMAIN m \subseteq Blocks
    /\ \A h \in DOMAIN m : m[h] \in SnapshotType /\ m[h].hash = h

TypeOK ==
    /\ tip \in [number : Blocks, hash : Blocks, day : 0..MaxDay]
    /\ IsSnapshotStore(cache) /\ Cardinality(DOMAIN cache) <= CacheSize
    /\ IsSnapshotStore(db)
    /\ head \in SnapshotType
    /\ claims \in [1..MaxBlock -> SUBSET RUIDs]
    /\ calendar \subseteq Digests /\ bitcoin \subseteq calendar

Status(s) == IF s.currentBatch = NoBatch THEN BatchStatusNone ELSE s.currentBatch.status

\* Some system tx of block b with selector `sel` succeeded and satisfies Test.
Landed(b, sel, Test(_)) ==
    \E i \in 1..Len(b.txs) : b.oks[i] /\ b.txs[i].sel = sel /\ Test(b.txs[i])

\* Every status change a block makes to the batch is backed by a system
\* transaction of that block which the validator accepted and which
\* succeeded, carries the batch's root (and for anchor its range), and is
\* the source of the digest or attestation recorded.  Violated if the
\* engine takes events it should not trust (applyTransitions' extract*
\* helpers and hasValidAnchorTx) or the validator lets a wrong tx through.
TransitionsJustified ==
    [][LET old == head.state.currentBatch
           new == head'.state.currentBatch
       IN  /\ Status(head.state) = BatchStatusTriggered
              /\ Status(head'.state) = BatchStatusSubmitted
              => Landed(body', "otsSubmitted",
                        LAMBDA tx : tx.root = old.rootHash /\ tx.digest = new.otsDigest)
           /\ Status(head.state) = BatchStatusSubmitted
              /\ Status(head'.state) = BatchStatusConfirmed
              => Landed(body', "otsConfirmed",
                        LAMBDA tx : tx.root = old.rootHash /\ tx.btc = new.btc)
           /\ Status(head.state) = BatchStatusConfirmed
              /\ Status(head'.state) = BatchStatusNone
              => Landed(body', "anchor",
                        LAMBDA tx : /\ tx.root = old.rootHash
                                    /\ tx.start = old.startBlock
                                    /\ tx.end = old.endBlock)
      ]_vars

\* The snapshot chain implements BatchLifecycle: each batch covers exactly
\* the blocks after the last anchored one up to the one before its
\* trigger block, advances one phase per block, and anchoring moves
\* lastAnchoredBlock to its end.  About handleTrigger's range,
\* applyTransitions' rule order and MarkAnchored.
Lifecycle == INSTANCE BatchLifecycle
    WITH height   <- tip.number,
         anchored <- head.state.lastAnchoredBlock,
         pending  <- IF head.state.currentBatch = NoBatch THEN NoBatch
                     ELSE [start |-> head.state.currentBatch.startBlock,
                           end   |-> head.state.currentBatch.endBlock,
                           phase |-> head.state.currentBatch.status]
LifecycleSpec == Lifecycle!Spec

\* The root calculateRootHash would give for the claimed RUIDs if
\* getRUIDsFromBlock returned them: CalculateRoot of Merkle (spec.md 4.2).
MerkleRootOf(S) == CalculateRoot(SetToSeq(S))

\* spec.md 8(3): the batch's root is the Merkle root of the RUIDs claimed
\* in its block range.  calculateRootHash gets its RUIDs from the
\* placeholder getRUIDsFromBlock.
RootMatchesClaims ==
    head.state.currentBatch # NoBatch =>
        head.state.currentBatch.rootHash =
            MerkleRootOf(UNION {claims[n] : n \in head.state.currentBatch.startBlock
                                              .. head.state.currentBatch.endBlock})

\* spec.md 1 and 4.2: a Submitted batch carries the calendar digest of its
\* root, and a Confirmed one the Bitcoin attestation of that digest.  The
\* validator (validateOTSSubmittedTx, validateOTSConfirmedTx) compares only
\* the root hash of the system tx with the batch.
EvidenceSound ==
    LET b == head.state.currentBatch IN
    /\ Status(head.state) \in {BatchStatusSubmitted, BatchStatusConfirmed}
         => b.otsDigest = Sha256(b.rootHash) /\ b.otsDigest \in calendar
    /\ Status(head.state) = BatchStatusConfirmed
         => b.btc = Attest(b.otsDigest) /\ b.otsDigest \in bitcoin

=============================================================================
