----------------------------- MODULE ManagerLock -----------------------------
(***************************************************************************)
(* The locking of the consensus manager (OTSConsensusManager.mu) and of   *)
(* its snapshot manager (SnapshotManager.mu), both sync.RWMutex, under     *)
(* the goroutines that call into them: the miner (GetSystemTransactions), *)
(* the block importer (ValidateOTSSystemTx, then ProcessBlock) and RPC     *)
(* handlers (GetStats, GetBatchState, GetCurrentState, GetSnapshot) and an *)
(* administrative goroutine (RebuildFromChain, SetOTSClient,               *)
(* SetChainAccessors).  Each manager call is the sequence                  *)
(* of lock operations and blocking outside calls it makes, in code order; *)
(* the data it reads and writes is left out (OTSChain models it).          *)
(*                                                                         *)
(* sync.RWMutex is writer-preferring: once Lock has announced a writer,   *)
(* every new RLock blocks; the writer waits for the readers already in;   *)
(* Unlock admits all readers that blocked meanwhile.                       *)
(***************************************************************************)
EXTENDS Naturals, Sequences, FiniteSets, SequencesExt

CONSTANTS
    Miner,        \* the goroutine sealing blocks
    Importer,     \* the goroutine importing blocks
    RpcCallers,   \* RPC handler goroutines
    Admin,        \* the goroutine rebuilding state or installing accessors
    NoThread,     \* no writer
    RebuildBlocks \* blocks RebuildState replays in one RebuildFromChain

Threads == {Miner, Importer, Admin} \cup RpcCallers

ASSUME NoThread \notin Threads

Mgr  == "OTSConsensusManager.mu"
Snap == "SnapshotManager.mu"
Locks == {Mgr, Snap}

VARIABLES
    prog,     \* thread -> the operations of the call it is in (or last made)
    pc,       \* thread -> index of its next operation; 0 = outside the manager
    readers,  \* lock -> threads holding the read lock
    rwait,    \* lock -> readers blocked behind an announced writer
    writer,   \* lock -> the writer that announced or holds it, or NoThread
    held      \* lock -> whether that writer holds it (else it waits for readers)

vars == <<prog, pc, readers, rwait, writer, held>>

-----------------------------------------------------------------------------
(* Operations.                                                            *)

RL(l) == [op |-> "RLock", lock |-> l]
RU(l) == [op |-> "RUnlock", lock |-> l]
WL(l) == [op |-> "Lock", lock |-> l]
WU(l) == [op |-> "Unlock", lock |-> l]
\* A call that blocks outside the manager: the OTS client's network calls or
\* the host chain's header and receipt accessors.
Call == [op |-> "Call", lock |-> "none"]

\* SnapshotManager.GetSnapshot: read lock over cache and database.
GetSnapshotOps == <<RL(Snap), RU(Snap)>>

\* SnapshotManager.StoreSnapshot: write lock over cache and database.
StoreSnapshotOps == <<WL(Snap), WU(Snap)>>

\* TransitionEngine.ProcessBlock: getReceipts and (in isTriggerBlock)
\* getHeader, then StoreSnapshot of the child.
EngineProcessBlockOps == <<Call>> \o StoreSnapshotOps

\* OTSConsensusManager.ProcessBlock: write lock, parent snapshot, engine.
ProcessBlockOps == <<WL(Mgr)>> \o GetSnapshotOps \o EngineProcessBlockOps \o <<WU(Mgr)>>

\* ValidateOTSSystemTx: read lock, parent snapshot, decoding.
ValidateOTSSystemTxOps == <<RL(Mgr)>> \o GetSnapshotOps \o <<RU(Mgr)>>

\* Variant of GetSystemTransactionsOps reading the batch through
\* GetBatchState, which takes the manager's read lock a second time.
GetSystemTransactionsNestedOps ==
    <<RL(Mgr), RL(Mgr)>> \o GetSnapshotOps \o <<RU(Mgr), Call, RU(Mgr)>>

\* GetSystemTransactions: read lock, parent snapshot, then Stamp,
\* CheckConfirmation or collectRUIDsForBatch's accessors, all under the
\* read lock (deferred RUnlock).
GetSystemTransactionsOps == <<RL(Mgr)>> \o GetSnapshotOps \o <<Call, RU(Mgr)>>

\* GetStats / GetBatchState: read lock, snapshot (CacheStats takes no lock).
GetStatsOps == <<RL(Mgr)>> \o GetSnapshotOps \o <<RU(Mgr)>>

\* GetBatchState: read lock, snapshot.
GetBatchStateOps == <<RL(Mgr)>> \o GetSnapshotOps \o <<RU(Mgr)>>

\* GetSnapshot / GetCurrentState: the snapshot manager only, no manager lock.
GetCurrentStateOps == GetSnapshotOps

\* SnapshotManager.FindNearestSnapshot: the read lock held across getHash,
\* the host's getHeaderByNumber.
FindNearestSnapshotOps == <<RL(Snap), Call, RU(Snap)>>

\* SnapshotManager.ForceStore: write lock over cache and database.
ForceStoreOps == <<WL(Snap), WU(Snap)>>

\* TransitionEngine.RebuildState: per block getHeader, then ProcessBlock.
RebuildStateOps ==
    FlattenSeq([i \in 1..RebuildBlocks |-> <<Call>> \o EngineProcessBlockOps])

\* RebuildFromChain: write lock, getHeaderByNumber(fromBlock), nearest
\* snapshot, replay, ForceStore, all under the write lock.
RebuildFromChainOps ==
    <<WL(Mgr), Call>> \o FindNearestSnapshotOps \o RebuildStateOps
        \o ForceStoreOps \o <<WU(Mgr)>>

\* SetChainAccessors: write lock around the assignments.
SetChainAccessorsOps == <<WL(Mgr), WU(Mgr)>>

\* SetOTSClient: write lock around the assignment.
SetOTSClientOps == <<WL(Mgr), WU(Mgr)>>

\* The calls each goroutine makes: the importer validates a block's system
\* tx and then processes the block.
Calls(t) ==
    CASE t = Miner    -> {GetSystemTransactionsOps}
      [] t = Importer -> {ValidateOTSSystemTxOps \o ProcessBlockOps}
      [] t = Admin    -> {RebuildFromChainOps, SetChainAccessorsOps, SetOTSClientOps}
      [] OTHER        -> {GetStatsOps, GetBatchStateOps, GetCurrentStateOps}

OpOf(t) == prog[t][pc[t]]

\* The index after pc[t]; past the last operation the call has returned.
Advance(t) == IF pc[t] = Len(prog[t]) THEN 0 ELSE pc[t] + 1

-----------------------------------------------------------------------------
(* Steps of a goroutine.                                                  *)

\* A goroutine calls into the manager.
Enter(t, c) ==
    /\ pc[t] = 0
    /\ prog' = [prog EXCEPT ![t] = c]
    /\ pc' = [pc EXCEPT ![t] = 1]
    /\ UNCHANGED <<readers, rwait, writer, held>>

\* RLock: admitted unless a writer has announced; then it blocks.
RLock(t, l) ==
    /\ t \notin rwait[l]
    /\ IF writer[l] = NoThread
       THEN /\ readers' = [readers EXCEPT ![l] = @ \cup {t}]
            /\ pc' = [pc EXCEPT ![t] = Advance(t)]
            /\ UNCHANGED rwait
       ELSE /\ rwait' = [rwait EXCEPT ![l] = @ \cup {t}]
            /\ UNCHANGED <<readers, pc>>
    /\ UNCHANGED <<prog, writer, held>>

RUnlock(t, l) ==
    /\ readers' = [readers EXCEPT ![l] = @ \ {t}]
    /\ pc' = [pc EXCEPT ![t] = Advance(t)]
    /\ UNCHANGED <<prog, rwait, writer, held>>

\* Lock: take the writer slot and announce (new readers now block), then
\* wait until the readers already in have left.
LockAnnounce(t, l) ==
    /\ writer[l] = NoThread
    /\ writer' = [writer EXCEPT ![l] = t]
    /\ UNCHANGED <<prog, pc, readers, rwait, held>>

LockAcquire(t, l) ==
    /\ writer[l] = t /\ ~held[l]
    /\ readers[l] = {}
    /\ held' = [held EXCEPT ![l] = TRUE]
    /\ pc' = [pc EXCEPT ![t] = Advance(t)]
    /\ UNCHANGED <<prog, readers, rwait, writer>>

\* Unlock: the readers that blocked meanwhile all get the read lock.
Unlock(t, l) ==
    /\ writer' = [writer EXCEPT ![l] = NoThread]
    /\ held' = [held EXCEPT ![l] = FALSE]
    /\ readers' = [readers EXCEPT ![l] = rwait[l]]
    /\ rwait' = [rwait EXCEPT ![l] = {}]
    /\ pc' = [u \in Threads |-> IF u = t \/ u \in rwait[l] THEN Advance(u) ELSE pc[u]]
    /\ UNCHANGED prog

\* A blocking call outside the manager returns.
CallReturn(t) ==
    /\ pc' = [pc EXCEPT ![t] = Advance(t)]
    /\ UNCHANGED <<prog, readers, rwait, writer, held>>

\* The next operation of a goroutine inside the manager.
Exec(t) ==
    /\ pc[t] # 0
    /\ LET o == OpOf(t) IN
       CASE o.op = "RLock"   -> RLock(t, o.lock)
         [] o.op = "RUnlock" -> RUnlock(t, o.lock)
         [] o.op = "Lock"    -> IF writer[o.lock] = t THEN LockAcquire(t, o.lock)
                                ELSE LockAnnounce(t, o.lock)
         [] o.op = "Unlock"  -> Unlock(t, o.lock)
         [] o.op = "Call"    -> CallReturn(t)

Init ==
    /\ prog = [t \in Threads |-> <<>>]
    /\ pc = [t \in Threads |-> 0]
    /\ readers = [l \in Locks |-> {}]
    /\ rwait = [l \in Locks |-> {}]
    /\ writer = [l \in Locks |-> NoThread]
    /\ held = [l \in Locks |-> FALSE]

Next == \E t \in Threads : (\E c \in Calls(t) : Enter(t, c)) \/ Exec(t)

Spec == Init /\ [][Next]_vars

\* The Go scheduler runs every runnable goroutine, and every outside call
\* (the OTS client, the host accessors) returns.  Writers compete for the
\* RWMutex's inner sync.Mutex, whose starvation mode hands it to a waiter
\* blocked for over 1ms: a writer that finds the slot free again and again
\* gets it, which is strong fairness on its step.
FairSpec == Spec /\ \A t \in Threads : SF_vars(Exec(t))

-----------------------------------------------------------------------------
\* Every call into the manager returns, whatever the interleaving of the
\* miner's GetSystemTransactions (holding the read lock across the OTS
\* client), the importer's ValidateOTSSystemTx and ProcessBlock (the write
\* lock, then the snapshot manager's), RebuildFromChain (the write lock held
\* across header lookups and a replay of blocks), the setters and RPC
\* readers of either lock: no goroutine waits forever on either lock.
CallsReturn == \A t \in Threads : pc[t] # 0 ~> pc[t] = 0

=============================================================================
