# TLA+ models of the OTS consensus module

These modules model the on-chain timestamping (OTS) consensus module of this
repository: a per-batch state machine `None → Triggered → Submitted →
Confirmed → (Anchored) → None` that every validator derives from block
headers and receipts, the snapshot layer that stores that state per block,
and the consensus manager that builds and validates the OTS system
transactions. TLC checks them.

## 1. Inventory of the system

| Part | Source | State it keeps | Operations |
|---|---|---|---|
| OTS state | `src/consensus/state.go:30-252` | `OTSState{Enabled, LastAnchoredBlock, CurrentBatch}`, `BatchState{Start/EndBlock, RootHash, Status, TriggerBlock, OTSDigest, BTC*, *At/*By}` | `CanTransitionTo`, `Trigger`, `MarkSubmitted`, `MarkConfirmed`, `MarkAnchored`, `Copy`, `Encode/Decode/Hash` |
| Transition engine | `src/metrics/metrics.go:248-697` (bundled `transition.go`) | none (pure), uses the snapshot manager | `ProcessBlock`, `applyTransitions` (4 rules), `isTriggerBlock`, `handleTrigger`, `calculateRootHash`, log scans, `buildMerkleRoot`, `RebuildState` |
| Snapshot manager | `src/unnamed/part_002` (`snapshot.go`) | ARC cache of 128 snapshots by block hash, db of every 1024th snapshot | `GetSnapshot`, `StoreSnapshot`, `ForceStore`, `DeleteSnapshot`, `HasSnapshot`, `Clear`, `FindNearestSnapshot`, `GetGenesisSnapshot` |
| Consensus manager | `src/consensus/state.go:253-762` | a RW lock, config, optional OTS client | `ProcessBlock`, `GetSystemTransactions` (+ `tryBuild*`, `buildAnchorTx`, `collectRUIDsForBatch`), `ValidateOTSSystemTx` (+3 validators), `RebuildFromChain`, `GetBatchState`, `GetStats` |
| System-tx codec | `src/systx/builder.go`, `src/systx/builder_test.go:296-795` (bundled `validator.go`, `ots_systx.go`) | none | calldata encoders/decoders for `anchor`, `otsSubmitted`, `otsConfirmed`; selectors; `btcTxIDToBytes32`; `ValidateSystemTx` |
| Metrics | `src/metrics/metrics.go:1-219` | Prometheus counters | write-only |
| Outside `src/` | spec.md 1, 6 | OTS calendar, Bitcoin, registry contract, host chain | `Stamp`, `CheckConfirmation`, events, receipts |

**How the parts interact.** For each block the host chain calls the
manager's `ProcessBlock`. It fetches the parent snapshot (falling back to
genesis for block 1) and hands it to the engine. The engine applies the four
rules to a copy using the block's receipts and stores the child snapshot.
When a validator seals a block, `GetSystemTransactions` reads the parent
snapshot. It may call the OTS client (`Stamp` when Triggered,
`CheckConfirmation` when Submitted) and returns at most one system
transaction. Every node runs `ValidateOTSSystemTx` on the system
transactions of incoming blocks against the parent snapshot. The registry
contract emits `OTSSubmitted` / `OTSConfirmed` / `Anchored` events for them,
and those events are what the engine reads.

**What is hard.**
- Producers can be honest or faulty, and the validator is the only check on
  a faulty producer.
- A system transaction can revert after its OTS client call succeeded.
- Other contracts can emit look-alike events.
- The four rules apply in sequence on one state in one block.
- Range arithmetic is done at the edges (block 1, right after an anchor).
- The cache is bounded and persistence sparse, with restarts and reorgs
  against it.
- A read lock is held across network calls.
- Progress (liveness) depends on clients and Bitcoin.

`PROJECT.json` lists each hazard at its source line.

**Properties each part needs.**
- Every batch change is justified by an accepted, successful system tx.
- Batches tile the chain: start = lastAnchored+1, end = trigger-1.
- Each block moves the batch at most one phase.
- The root is the Merkle root of the claims.
- The recorded digest and attestation are the real ones.
- A rebuild gives the same state as the original chain.
- Codec round trips.
- A triggered batch is eventually anchored.

## 2. Modules

| Module | Models | Kind |
|---|---|---|
| `OTSState` | `state.go:30-232` | pure operators over state records; a failed precondition returns the state unchanged, as every caller logs and continues |
| `TransitionEngine` | `metrics.go:311-640` | pure operators: `ProcessBlock(parentState, header, parentHeader, receipts)` and its helpers, `calculateRootHash` with the `getRUIDsFromBlock` placeholder |
| `SnapshotManager` | `part_002:42-241` | operators over `cache` and `db` (functions hash → snapshot) returning the set of possible outcomes; the ARC victim is any resident entry; `ForceStore`, `FindNearestSnapshot` (RECURSIVE) |
| `OTSChain` | manager `state.go:383-681` + environment | the composed system, described below |
| `BatchLifecycle` | spec.md 3.2, 4.5 | abstract specification of the batch lifecycle |
| `OTSNode` | manager `ProcessBlock`, `RebuildFromChain`, engine `RebuildState`, restarts | one follower node composed with `OTSChain` |
| `Merkle` | `metrics.go:473-677` | pure operators: `calculateRootHash`'s sort and `buildMerkleRoot`; a top-down reference tree; proofs (spec.md 4.2) |
| `MerkleBatch` | — | a state machine claiming RUIDs one by one, so TLC checks `Merkle` over every list |
| `SysTxCodec` | `builder_test.go:475-740`, `state.go:508-510` | pure operators: the three encoders and decoders at reduced widths, the int64 conversion, hex conversions, `btcTxIDToBytes32` |
| `SysTxFlow` | `state.go:476-681`, `metrics.go:575-602` | one batch carried from Triggered to anchored through the codec, the validators, the registry event and the engine |
| `ManagerLock` | `state.go:338-762`, `part_002:100-241`, `metrics.go:311-335,679-697` | each manager method as its sequence of RW-lock operations and blocking outside calls, run by goroutines under Go's writer-preferring `sync.RWMutex` |
| `LegacyBuilder` | `builder.go:50-178`, `builder_test.go:335-411` | the anchor-only `Builder` path: `ValidateCandidate`, `BuildSystemTx` with `encodeCalldata`, and the bundled `Validator` accepting and decoding the tx |
| `MC_OTSChain`, `MC_OTSNode`, `MC_Merkle`, `MC_SysTxFlow`, `MC_ManagerLock`, `MC_LegacyBuilder` | — | TLC instantiations (`ForgedLogs`, RUID values, txids) |

### OTSChain

**Variables.**
- `tip`: the head header `[number, hash, day]`.
- `body`: the head block's user receipts, system txs and their success
  flags.
- `cache`, `db`: the snapshot manager's stores.
- `head`: the snapshot `ProcessBlock` returned.
- `claims`: a history variable holding the RUIDs claimed per block.
- `calendar`: the digests stamped so far.
- `bitcoin`: the digests committed to Bitcoin.

**Actions.**
- `HonestBlock(p)` is one whole block:
  1. the GetSnapshot outcome for the parent;
  2. `GetSystemTransactions` with each possible client outcome;
  3. `ValidateOTSSystemTx` on every system tx;
  4. success or revert of each;
  5. the manager's `ProcessBlock` (the genesis fallback, the engine, and
     `StoreSnapshot` with eviction and persistence).
- `FaultyBlock(f)` is the same block, but with a system tx of any kind and
  with any right or wrong root, digest, attestation or range. Validation
  must accept it.
- `BitcoinConfirm` commits a stamped digest.

**Abstractions.**
- Hashes are model values or tagged tuples: `Sha256(r)`, `Attest(d)`,
  `MerkleRootOf(S)`.
- Transactions are kept decoded.
- The RPC-only fields (`*At`, `*By`, `TriggerNode`) are dropped.
- `day` is the UTC date. With `TriggerHourUTC = 0`, `isTriggerBlock` is
  exactly "the date advanced", since the same-day branch can never hold. The
  next block's date is the same date or the next one: only the order is
  compared.

### OTSNode

`OTSNode` extends `OTSChain`. The chain advances with `ChainStep`, which is
`OTSChain`'s `Next` plus a record of each new block and the snapshot its
producer derived (`blocks`). One node follows that chain with its own
snapshot manager (`ncache`, `ndb`) and its last processed block (`nnum`).
- `NodeProcessBlock` is the manager's `ProcessBlock` for block `nnum+1`:
  `GetSnapshot` on the parent, the genesis fallback for block 1 only, then
  the engine and `StoreSnapshot`. If the parent is not found, the
  call returns `ErrSnapshotNotFound` and nothing changes, so the action is
  disabled.
- `NodeCrash` is a restart. `NewSnapshotManager` gives an empty ARC cache
  over the same database. Bounded by `MaxCrashes`.
- `NodeRebuild` is `RebuildFromChain(from, to)` for any `from, to` the chain
  has: `FindNearestSnapshot` walking back from `from`, `RebuildState` (every
  step stored through `StoreSnapshot`), then `ForceStore`. Bounded by
  `MaxRebuilds`. No caller in `src/` invokes it; it is the recovery
  spec.md 7 and 9 describe.

### Merkle and SysTxFlow

`Merkle` is a set of operators. Hashes are terms: a leaf is `<<"leaf",
{ruid}>>`, and a node is `<<"node", {l, r}>>`, because the code sorts the
two children before hashing. `MerkleBatch` grows a list of claimed RUIDs
(duplicates included) up to `MaxLeaves`, and checks each list.

`SysTxFlow` composes `TransitionEngine` and `SysTxCodec`. Transactions are
calldata (`<<selector, word, ...>>`). A number word is its value, and a byte
word is a sequence of `HashBytes` bytes. `uint64` is `UintBits` wide.
- A producer `p` runs `GetSystemTransactions(p)`: the status switch of
  `state.go:408-473` on the head state. A producer in `Clients` (one with an
  OTS client) builds `otsSubmitted` (`TryBuildOTSSubmittedTx`, whose `Stamp`
  adds the digest to `calendar`) or, once `CheckConfirmation` reports the
  digest on Bitcoin, `otsConfirmed` (`TryBuildOTSConfirmedTx`); any producer
  builds the anchor (`BuildAnchorTx`). Without a client, or before the
  confirmation, it returns nothing.
- `BitcoinConfirm` moves a stamped digest onto Bitcoin (`bitcoin`); the
  confirmation carries any height, timestamp and txid, fixed in `FlowInit`.
- `IncludeBlock(ok)` runs `ValidateOTSSystemTx` on the pending tx, and then
  either the call succeeds and emits the registry event (`RegistryLog`, with
  `parseOTSConfirmedLog`), or it reverts (`ok = FALSE`) and the receipt has
  no logs. The engine's `ProcessBlock` is applied to the block either way;
  after a revert the status stays and the next block retries.
- `ValidateSystemTxData` is `Validator.ValidateSystemTx`
  (`builder_test.go:335-366`) on the calldata.

### ManagerLock

The manager (`OTSConsensusManager.mu`) and the snapshot manager
(`SnapshotManager.mu`) each hold a `sync.RWMutex`. Each method is a
sequence of operations (`RL`, `RU`, `WL`, `WU` on a lock, or `Call`, a
blocking call outside the package: the OTS client or a host accessor), in
the order the code makes them, deferred unlocks last. For example,
`ProcessBlockOps` is the write lock, `GetSnapshot`'s read lock on the
snapshot manager, the engine's receipt lookup and `StoreSnapshot`'s write
lock, then the unlock.

Goroutines: the miner (`GetSystemTransactions`), the importer
(`ValidateOTSSystemTx` then `ProcessBlock`), RPC handlers (`GetStats`,
`GetBatchState`, `GetSnapshot`/`GetCurrentState`) and an admin goroutine
(`RebuildFromChain` replaying `RebuildBlocks` blocks, `SetChainAccessors`,
`SetOTSClient`). `Enter(t, c)` starts one of its calls. `Exec(t)` performs
the next operation. The lock follows Go's writer preference: `LockAnnounce`
takes the writer slot, and new `RLock`s then block in `rwait`.
`LockAcquire` waits for the readers already in, and `Unlock` admits every
blocked reader at once.

## 3. Runs

| Run | Module / Cfg | Expect | Checks |
|---|---|---|---|
| `core` | `MC_OTSChain` / `OTSChain.cfg` | pass | `TypeOK`, `TransitionsJustified`, `LifecycleSpec` |
| `root_claims` | `MC_OTSChain` / `RootMatchesClaims.cfg` | violation | `RootMatchesClaims` |
| `evidence` | `MC_OTSChain` / `EvidenceSound.cfg` | violation | `EvidenceSound` |
| `node` | `MC_OTSNode` / `OTSNode.cfg` | pass | `SnapshotsCanonical` |
| `restart` | `MC_OTSNode` / `NodeCatchesUp.cfg` | violation | `NodeCatchesUp` |
| `merkle` | `MC_Merkle` / `Merkle.cfg` | pass | `RootMatchesReference`, `ProofSound` |
| `codec` | `MC_SysTxFlow` / `SysTxFlow.cfg` | pass | `HonestTxValid`, `BatchAnchored` |
| `btc_figures` | `MC_SysTxFlow` / `BtcFiguresRecorded.cfg` | violation | `BtcFiguresRecorded` |
| `btc_txid` | `MC_SysTxFlow` / `BtcTxHashAnchored.cfg` | violation | `BtcTxHashAnchored` |
| `systx_validator` | `MC_SysTxFlow` / `HonestTxSystemValid.cfg` | violation | `HonestTxSystemValid` |
| `locks` | `MC_ManagerLock` / `ManagerLock.cfg` | pass | `CallsReturn` |
| `legacy_builder` | `MC_LegacyBuilder` / `LegacyBuilder.cfg` | pass | `AnchorMatchesCandidate` |

Every property of a passing run has a mutant in `PROJECT.json`: a plausible
bug in the mapped code, under which TLC finds the property violated.

### LegacyBuilder

`builder.go` holds an older, anchor-only builder. Nothing in `src/` calls
it, but it is the package's documented entry point. A candidate batch
(`otstypes.CandidateBatch`, not in `src/`) is a record with a `meta` flag
(a nil candidate and a nil `BatchMeta` fail the same check), the range,
root, BTC txid string, timestamp and the `Validated` flag. The actions are:
- `NewCandidate`: the event collector hands over any candidate;
- `ValidateCandidate(r)`: compares with a recomputed root `r`;
- `BuildSystemTx`: zero-price tx to the registry with `encodeCalldata`;
- `ReceiveTx`: the bundled `Validator.ValidateSystemTx`, then
  `DecodeCalldata`.

They may be called in any order, as nothing in the package orders them.

### core

**`TransitionsJustified`** is an action property. Every status change a
block makes is backed by a system tx of that block that passed the
validator, succeeded, and carries the batch root (and, for an anchor, its
range). The digest or attestation recorded must come from that tx. It fails
if the engine trusts a look-alike event (its mutant drops the address check
in the log scan).

**`LifecycleSpec`** is the refinement `INSTANCE BatchLifecycle WITH height
<- tip.number, anchored <- lastAnchoredBlock, pending <- the batch`. The
refinement shows three things:
- batches cover exactly `lastAnchored+1 .. trigger-1`;
- one phase moves per block;
- anchoring sets `lastAnchoredBlock` to the batch end.

Its mutant starts the range at `lastAnchoredBlock`.

**`TypeOK`** includes the cache bound. Its mutant is a cache that never
evicts.

### node

**`SnapshotsCanonical`.** Every snapshot in the node's cache or database
equals the snapshot the producing chain derived for that block hash. This
holds whether the snapshot was stored by `ProcessBlock`, loaded back by
`FindNearestSnapshot`, or recomputed by `RebuildState` and `ForceStore`
after a restart. Its mutant lets `ProcessBlock` fall back to genesis for any
block, not only block 1: a node that lost its cache then stores a state
built on the wrong parent.

### merkle

**`RootMatchesReference`.** For every list of up to 5 claims over 3 RUID
values (duplicates included), `calculateRootHash`'s sort plus
`buildMerkleRoot` equals the top-down reference tree of spec.md 4.2. Its
mutant carries the odd last node up without duplicating it.

**`ProofSound`.** For every position, the proof built from the layers
verifies the RUID at that position and no other value. Its mutant hashes
children in position order: the verifier, which sorts, then rejects
proofs.

### codec

**`HonestTxValid`.** Every system tx an honest producer builds from the
head state passes `ValidateOTSSystemTx` against that state, for every
range, height, timestamp and txid. This shows that encoders and decoders
agree on selector, layout and minimum length. Its mutant makes
`DecodeOTSConfirmedTx` ask for the anchor's length (164 bytes): confirmed
txs are then rejected and the batch never moves.

**`BatchAnchored`** (liveness, under `FairFlowSpec`). A triggered batch is
eventually anchored, even though calls may revert and only `p1` has an OTS
client. `p2` must wait for `p1` to stamp and confirm, and can then anchor.
Its mutant inverts the confirmation test of `tryBuildOTSConfirmedTx`, which
then builds `otsConfirmed` only while Bitcoin has *not* confirmed the
digest. Once the digest is confirmed, no producer builds it again.

### locks

**`CallsReturn`** (liveness, under `FairSpec`). Every call into the
manager returns, under any interleaving of the following:
- the miner holding the read lock across the OTS client;
- the importer taking the write lock and then the snapshot lock;
- `RebuildFromChain` holding the write lock across header lookups, the
  snapshot read lock of `FindNearestSnapshot` and a replay;
- RPC readers of either lock.

The locks are always taken manager first, so there is no cycle. A writer
that has announced stalls the miner's next `RLock` only until the readers
already in leave. Its mutant takes the manager's read lock twice in
`GetSystemTransactions`, as a call to `GetBatchState` from inside it would.
The importer's announced `Lock` then blocks the inner `RLock`, while the
outer read lock blocks the importer: a deadlock.
### legacy_builder

**`AnchorMatchesCandidate`.** An anchor tx built by `BuildSystemTx` passes
the `Validator`. It decodes to its candidate's range, root and timestamp,
and to `btcTxIDToBytes32` of its txid. This holds for every 3-bit "uint64",
including values at and above 2^63, and for the txids `""`, `"0x1"` and
`"4fa2"`. Its mutant writes the integers the way `BuildOTSConfirmedTx`
does, through `int64`: a start block of 5 then decodes as 3.

### Violation runs (findings)

**`root_claims`.** A RUID is claimed in block 1 and a trigger follows. The
batch root is the zero hash, because `getRUIDsFromBlock`
(`metrics.go:487-492`) is a placeholder. That contradicts spec.md 4.5 and
8(3).

**`evidence`.** A faulty producer's `otsSubmitted` with a made-up digest
passes `validateOTSSubmittedTx`, which checks only the root
(`state.go:615-632`). The digest is recorded, and honest producers then ask
the calendar about a digest it never stamped. No path resets the batch.

**`restart`** (`NodeCatchesUp`, under weak fairness on `NodeProcessBlock`).
The node restarts after block 1, while block 1's snapshot is only in the
cache, since `PersistInterval` is 2. The manager's `ProcessBlock` then
returns `ErrSnapshotNotFound` for block 2 forever (`state.go:392-399`).
Nothing in `src/` calls `RebuildFromChain`. spec.md 7 says SnapshotNotFound
is recovered internally via rebuild.

**`btc_figures`** (`BtcFiguresRecorded`). `BuildOTSConfirmedTx` encodes the
Bitcoin height and timestamp as `BigToHash(big.NewInt(int64(x)))`
(`builder_test.go:512,518`). A value at or above 2^63 becomes negative, and
`BigToHash` keeps its magnitude, so the batch records 2^64 − x. At 3 bits,
the timestamp 5 is recorded as 3.

**`btc_txid`** (`BtcTxHashAnchored`). `tryBuildOTSConfirmedTx` copies the
*characters* of the txid's hex string into the bytes32 (`state.go:510`).
`parseOTSConfirmedLog` hex-encodes those bytes, and `buildAnchorTx` decodes
the hex again. The anchor's `btcTxHash` therefore holds the ASCII codes of
the first half of the hex digits: txid `0001` is anchored as `0x3030`.

**`systx_validator`** (`HonestTxSystemValid`). spec.md 4.3 says the
system-tx validator accepts gas price 0, the registry as recipient, any of
the three known selectors, and that selector's minimum length.
`Validator.ValidateSystemTx` compares the selector with `anchorSig` only
(`builder_test.go:353-358`). The first `otsSubmitted` an honest producer
builds is therefore rejected with `ErrInvalidCalldata`. The validator's
doc comment also lists "sender == coinbase", yet it never reads its
`coinbase` argument.

**An observation, not a run or a hazard: the `Validated` flag.**
`LegacyBuilder` reaches this sequence:
1. `ValidateCandidate` against root `r1` matches, and sets `Validated`.
2. A re-check against `r2` returns `ErrRootMismatch`.
3. `Validated` stays `TRUE` (`builder.go:167-177`).

`BuildSystemTx` never reads the flag. The package's own test clears it by
hand before its mismatch case (`builder_test.go:289`). `Builder` has no
caller in `src/`, and nothing reads the flag. No behaviour of the system
depends on it, so it is neither checked nor listed as a hazard.

## 4. Bounds and why they are enough

The bounds in `OTSChain.cfg`:
- 3 producers:
  - `p1` is honest with an OTS client;
  - `p2` is honest without a client, and can only anchor;
  - `f1` is faulty.
- `RUIDs = {}`: claims do not influence the engine (see finding 1).
- `CacheSize = 2`, `PersistInterval = 4`, so eviction and persistence both
  occur.
- `MaxBlock = 8` and `MaxDay = 2`.

The shortest full batch takes 4 blocks (trigger, submit, confirm, anchor)
and needs a new date. With these bounds a first batch completes and a second
batch reaches Confirmed.

Each look-alike event (`MC_ForgedLogs`) is present once per event kind. The
run takes about a minute and reaches about 107k distinct states. It exercises:
- every action, in both honest and faulty forms;
- reverts;
- a trigger at block 1, where the range is empty;
- a trigger right after an anchor.

Without reorgs, the parent is always in the cache: the next block's lookup
finds the snapshot just stored. The db-hit path of `GetSnapshot` is therefore
exercised by the `node` run, after a restart.

`CHECK_DEADLOCK FALSE`: the only states without a successor are those at
`MaxBlock` with every stamped digest on Bitcoin; the real chain never stops.

The bounds of the newer runs:
- `OTSNode.cfg`: one honest producer with a client, `CacheSize = 2`,
  `PersistInterval = 2`, `MaxBlock = 5`, `MaxDay = 2`, one crash and one
  rebuild. A batch triggers and moves, blocks are persisted and evicted, a
  restart can fall between any two blocks, and a rebuild can start from
  the database, the cache or genesis. About 456k distinct states, in about
  a minute. `NodeCatchesUp.cfg` uses `CacheSize = 8`, so that the failure
  comes from the restart and not from eviction.
- `Merkle.cfg`: RUIDs `{1,2,3}`, up to 5 claims. This covers layers of odd
  length at two heights (3 and 5 leaves), duplicated RUIDs, and the empty
  batch.
- `SysTxFlow.cfg`: `UintBits = 3`, `HashBytes = 2`, txids `<<79,162>>` and
  `<<0,1>>`. Every range `1 ≤ start ≤ end ≤ 7`, every height and timestamp
  in `0..7` (both halves of the int64 reading), and a txid with a leading
  zero byte and one with hex letters. `Producers = {p1, p2}` with
  `Clients = {p1}`: a producer without a client is in the rotation.
  `CHECK_DEADLOCK FALSE`: the flow ends once the anchor is included. About
  39k distinct states in about a minute.
- `LegacyBuilder.cfg`: `UintBits = 3`, `HashBytes = 2`, two roots and the
  three txid strings above. Every candidate (6,145 of them) is a possible
  `NewCandidate`, so all start, end and timestamp values on both sides of
  2^63 are built and decoded. About 49k distinct states in under a minute.
- `ManagerLock.cfg`: miner, importer, admin, two RPC callers and
  `RebuildBlocks = 2`. This covers two readers blocked behind one writer, a
  writer waiting for readers, and two writers competing for the slot. About
  63k distinct states in about a minute, deadlock checked.

## 5. Fairness

The only liveness property is `NodeCatchesUp`. It assumes weak fairness
on `NodeProcessBlock`: the host chain calls the manager's `ProcessBlock` for
every block it imports, and nothing else competes for that step. With that
assumption the property still fails, and the failure is the finding.

`BatchAnchored` assumes `FairFlowSpec`:
- weak fairness on each producer's `GetSystemTransactions`, since the
  producers take turns forever;
- weak fairness on `BitcoinConfirm`, since Bitcoin eventually confirms a
  stamped digest;
- strong fairness on `IncludeBlock(TRUE)`: a call that can succeed
  eventually does, even though other blocks revert it.

The last two are assumptions on the environment. The code's part is to
retry the build on every block from the head state, and the property checks
that part. Faulty producers are left out of this run: `evidence` already
shows that one can block a batch forever.

`CallsReturn` assumes strong fairness on each goroutine's step. The Go
scheduler runs every runnable goroutine, and the outside calls (OTS client,
host accessors) return. Writers compete for the `RWMutex`'s inner
`sync.Mutex`, and its starvation mode hands the mutex to a waiter blocked
for more than 1 ms. Under weak fairness alone, TLC finds the admin
goroutine taking the writer slot ahead of the importer forever, which the
real mutex does not do.

## 6. Plan (in order)

1. **Done:** `OTSState`, `TransitionEngine`, `SnapshotManager`, `OTSChain`,
   the `BatchLifecycle` refinement, `OTSNode` (restarts and rebuilds),
   `Merkle`, `SysTxCodec`, `SysTxFlow`.
   Also done: `ManagerLock` (`locks`), batch liveness (`BatchAnchored`),
   and the system-tx validator (`systx_validator`).
2. **Reorgs in `OTSNode`:** a fork choice between sibling blocks, with
   snapshots keyed by hash.
   The legacy `Builder` path (`LegacyBuilder`, `legacy_builder`) is done
   too.
3. **Duplicate or competing submissions** from several producers in one
   block (spec.md 4.6), once a block may carry more than one system tx.

## 7. Not modelled

- The RPC surface and the event/storage packages: only their tests are in
  `src/`, and they are outside consensus.
- JSON encoding of state and snapshots: a pure conversion that no decision
  depends on.
- Gas, nonces, value and signatures of system txs, and `EstimateGas` (a
  constant nothing reads): no decision depends on them.
- The package-level `ValidateSystemTx`, `ValidateOTSSubmittedTx` and
  `ValidateOTSConfirmedTx` helpers (`builder_test.go:743-800`): no caller,
  and their checks are those of the modelled decoders.
- Metrics (`metrics.go:1-227`): counters and gauges that nothing in `src/`
  updates or reads.
- The root of real RUID lists inside `OTSChain`: `getRUIDsFromBlock` returns
  nil, so `Merkle` checks the tree on its own.
- The data effect of `SetChainAccessors` and `SetOTSClient` at run time:
  `ManagerLock` models their locking, and `SysTxFlow` fixes which producers
  have a client.
- Reorgs: `OTSChain` names each block's hash by its number, so there is
  one block per height. Snapshots are keyed by hash and derived only from
  the parent snapshot and the block, so a sibling branch would add states
  but no new decision. The one number-keyed lookup, `FindNearestSnapshot`'s
  `getHash`, is checked against the canonical chain in `node`.
