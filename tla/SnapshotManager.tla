--------------------------- MODULE SnapshotManager ---------------------------
(***************************************************************************)
(* The SnapshotManager of src/unnamed/part_002 (snapshot.go): an ARC cache *)
(* of snapshots keyed by block hash in front of a database that receives  *)
(* only every PersistInterval-th snapshot.  Both stores are functions from *)
(* hash to Snapshot; the operations are operators returning the SET of     *)
(* possible outcomes, because ARC's choice of victim depends on a recency *)
(* and frequency history the model does not keep: any resident entry may *)
(* be evicted when the cache is full.                                      *)
(***************************************************************************)
EXTENDS OTSState, FiniteSets, TLC

CONSTANTS
    CacheSize,        \* snapshotCacheSize (128)
    PersistInterval,  \* snapshotPersistInterval (1024)
    OTSEnabled,       \* SnapshotManager.otsEnabled
    NoSnapshot        \* the (nil, ErrSnapshotNotFound) result

ASSUME CacheSize \in Nat \ {0} /\ PersistInterval \in Nat \ {0}

\* Snapshot / NewSnapshot: number, hash and a copy of the state.  Copies
\* are implicit: TLA+ values are never shared.
NewSnapshot(number, hash, state) == [number |-> number, hash |-> hash, state |-> state]

\* Variant of CacheAdd that never evicts (a cache without a size bound).
CacheAddUnbounded(cache, key, val) == {(key :> val) @@ cache}

\* ARCCache.Add: overwrite a resident key; otherwise insert, first evicting
\* some resident entry when the cache holds CacheSize entries.
CacheAdd(cache, key, val) ==
    IF key \in DOMAIN cache \/ Cardinality(DOMAIN cache) < CacheSize
    THEN {(key :> val) @@ cache}
    ELSE {(key :> val) @@ [k \in DOMAIN cache \ {victim} |-> cache[k]]
            : victim \in DOMAIN cache}

\* loadFromDB: the stored snapshot under the prefixed hash key, or
\* ErrSnapshotNotFound; DecodeSnapshot gives back what Encode wrote.
LoadFromDB(db, hash) == IF hash \in DOMAIN db THEN db[hash] ELSE NoSnapshot

\* saveToDB: Encode and Put under the prefixed hash key.
SaveToDB(db, snap) == (snap.hash :> snap) @@ db

\* GetSnapshot: the cache first, then loadFromDB, whose hit is added to the
\* cache.  Each outcome is [snap, cache]: the snapshot returned (or
\* NoSnapshot) and the cache afterwards.
GetSnapshot(cache, db, hash) ==
    IF hash \in DOMAIN cache THEN {[snap |-> cache[hash], cache |-> cache]}
    ELSE LET s == LoadFromDB(db, hash) IN
         IF s # NoSnapshot
         THEN {[snap |-> s, cache |-> c] : c \in CacheAdd(cache, hash, s)}
         ELSE {[snap |-> NoSnapshot, cache |-> cache]}

\* StoreSnapshot: always into the cache; into the database (saveToDB) when
\* the block number is a multiple of PersistInterval.  Outcomes are
\* [cache, db].
StoreSnapshot(cache, db, snap) ==
    {[cache |-> c,
      db    |-> IF snap.number % PersistInterval = 0
                THEN SaveToDB(db, snap) ELSE db]
        : c \in CacheAdd(cache, snap.hash, snap)}

\* GetGenesisSnapshot.
GetGenesisSnapshot(genesisHash) ==
    NewSnapshot(0, genesisHash, NewOTSState(OTSEnabled))

\* ForceStore: into the cache and, whatever the number, into the database.
ForceStore(cache, db, snap) ==
    {[cache |-> c, db |-> SaveToDB(db, snap)]
        : c \in CacheAdd(cache, snap.hash, snap)}

\* The loop of FindNearestSnapshot from candidate number `num` down in
\* steps of PersistInterval while num > 0: a number without a header is
\* skipped; a cache hit is returned, a database hit added to the cache and
\* returned; otherwise the genesis snapshot for hashOf[0].  `hashOf` is
\* getHash as a function from block number to hash.  Outcomes are
\* [snap, cache].
RECURSIVE FindNearestFrom(_, _, _, _)
FindNearestFrom(num, hashOf, cache, db) ==
    IF num = 0 THEN {[snap |-> GetGenesisSnapshot(hashOf[0]), cache |-> cache]}
    ELSE IF num \notin DOMAIN hashOf
         THEN FindNearestFrom(num - PersistInterval, hashOf, cache, db)
    ELSE LET h == hashOf[num] IN
         IF h \in DOMAIN cache THEN {[snap |-> cache[h], cache |-> cache]}
         ELSE LET s == LoadFromDB(db, h) IN
              IF s # NoSnapshot
              THEN {[snap |-> s, cache |-> c] : c \in CacheAdd(cache, h, s)}
              ELSE FindNearestFrom(num - PersistInterval, hashOf, cache, db)

\* FindNearestSnapshot: start at the largest multiple of PersistInterval
\* not above the target.
FindNearestSnapshot(target, hashOf, cache, db) ==
    FindNearestFrom((target \div PersistInterval) * PersistInterval, hashOf, cache, db)

=============================================================================
