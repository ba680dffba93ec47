------------------------------ MODULE OTSNode ------------------------------
(***************************************************************************)
(* One node's OTSConsensusManager following the chain of OTSChain, with   *)
(* restarts and RebuildFromChain.  The chain itself (OTSChain's Next)      *)
(* advances as before and its blocks are recorded in `blocks`, together   *)
(* with the snapshot its own manager derived (the canonical snapshot of   *)
(* that block).  The node processes those blocks one by one with its own *)
(* snapshot manager (ncache, ndb); a crash loses the ARC cache and keeps  *)
(* the database; RebuildFromChain may be called with any range of headers *)
(* the chain has.                                                          *)
(***************************************************************************)
EXTENDS OTSChain

CONSTANTS
    MaxCrashes,   \* bound on node restarts
    MaxRebuilds   \* bound on RebuildFromChain calls

ASSUME MaxCrashes \in Nat /\ MaxRebuilds \in Nat

VARIABLES
    blocks,    \* the chain: <<[header, body, snap]>>, block n at index n
    ncache,    \* the node's ARC cache: hash -> Snapshot
    ndb,       \* the node's database: hash -> Snapshot
    nnum,      \* the last block the node's ProcessBlock succeeded for
    crashes,   \* restarts so far
    rebuilds   \* RebuildFromChain calls so far

nodeVars == <<blocks, ncache, ndb, nnum, crashes, rebuilds>>
allVars  == <<vars, nodeVars>>

\* getHeaderByNumber on the node's header chain.
HeaderOf(n) == IF n = 0 THEN GenesisHeader ELSE blocks[n].header

\* The getHash closure RebuildFromChain hands to FindNearestSnapshot.
HashOf == [n \in 0..Len(blocks) |-> HeaderOf(n).hash]

\* The canonical snapshot of block n: what the producing chain derived.
Canonical(n) == IF n = 0 THEN GetGenesisSnapshot(GenesisHeader.hash) ELSE blocks[n].snap

\* The engine's ProcessBlock for block n on top of `snap`.
ChildOf(snap, n) ==
    ChildSnapshot(snap, HeaderOf(n), HeaderOf(n - 1), Receipts(blocks[n].body))

\* TransitionEngine.RebuildState: ProcessBlock for blocks from.Number+1 ..
\* target, each one stored through StoreSnapshot as ProcessBlock does.
\* Outcomes are [snap, cache, db].
RECURSIVE RebuildState(_, _, _, _)
RebuildState(snap, target, c, d) ==
    IF snap.number >= target THEN {[snap |-> snap, cache |-> c, db |-> d]}
    ELSE LET next == ChildOf(snap, snap.number + 1)
         IN  UNION {RebuildState(next, target, s.cache, s.db)
                      : s \in StoreSnapshot(c, d, next)}

\* The chain grows by one block (or Bitcoin moves); the new block is
\* recorded with its canonical snapshot.
ChainStep ==
    /\ Next
    /\ blocks' = IF tip'.number # tip.number
                 THEN Append(blocks, [header |-> tip', body |-> body', snap |-> head'])
                 ELSE blocks
    /\ UNCHANGED <<ncache, ndb, nnum, crashes, rebuilds>>

\* OTSConsensusManager.ProcessBlock on the node for its next block: the
\* parent snapshot from cache or database, the genesis fallback for block
\* 1, otherwise ErrSnapshotNotFound and nothing changes.
NodeProcessBlock ==
    /\ nnum < Len(blocks)
    /\ \E r \in GetSnapshot(ncache, ndb, HeaderOf(nnum).hash) :
         LET parent == ManagerParent(r, HeaderOf(nnum + 1), HeaderOf(nnum))
         IN  /\ parent # NoSnapshot
             /\ \E s \in StoreSnapshot(r.cache, ndb, ChildOf(parent, nnum + 1)) :
                    ncache' = s.cache /\ ndb' = s.db
    /\ nnum' = nnum + 1
    /\ UNCHANGED <<vars, blocks, crashes, rebuilds>>

\* A restart: NewSnapshotManager creates an empty ARC cache over the same
\* database.
NodeCrash ==
    /\ crashes < MaxCrashes
    /\ ncache' = <<>>
    /\ crashes' = crashes + 1
    /\ UNCHANGED <<vars, blocks, ndb, nnum, rebuilds>>

\* OTSConsensusManager.RebuildFromChain(from, to): FindNearestSnapshot at
\* `from`, RebuildState up to `to`, ForceStore of the result.
NodeRebuild ==
    /\ rebuilds < MaxRebuilds
    /\ rebuilds' = rebuilds + 1
    /\ \E from, to \in 0..Len(blocks) :
      \E f \in FindNearestSnapshot(from, HashOf, ncache, ndb) :
        \E r \in RebuildState(f.snap, to, f.cache, ndb) :
          \E s \in ForceStore(r.cache, r.db, r.snap) :
             /\ ncache' = s.cache /\ ndb' = s.db
             /\ UNCHANGED <<vars, blocks, nnum, crashes>>

NodeInit ==
    /\ Init
    /\ blocks = <<>>
    /\ ncache = <<>>
    /\ ndb = <<>>
    /\ nnum = 0
    /\ crashes = 0
    /\ rebuilds = 0

NodeNext == ChainStep \/ NodeProcessBlock \/ NodeCrash \/ NodeRebuild

NodeSpec == NodeInit /\ [][NodeNext]_allVars

\* The node keeps processing: weak fairness on its ProcessBlock, which the
\* host chain calls for every block it finalizes.
NodeFairSpec == NodeSpec /\ WF_allVars(NodeProcessBlock)

-----------------------------------------------------------------------------
\* Every snapshot the node holds in its cache or database, whether stored by
\* ProcessBlock, loaded back by FindNearestSnapshot, or produced by
\* RebuildState and ForceStore after a restart, equals the snapshot the
\* producing chain derived for that block (spec.md 9: a rebuild reaches the
\* identical snapshot).
SnapshotsCanonical ==
    \A store \in {ncache, ndb} :
        \A h \in DOMAIN store : store[h] = Canonical(h)

\* spec.md 7: SnapshotNotFound is recovered internally via rebuild.  Every
\* block the chain has is eventually processed by the node's ProcessBlock,
\* also after a restart.
NodeCatchesUp ==
    \A n \in 1..MaxBlock : (Len(blocks) >= n) ~> (nnum >= n)

=============================================================================
