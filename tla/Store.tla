------------------------------- MODULE Store --------------------------------
(***************************************************************************)
(* The state of the sharded store (internal/store) with its router         *)
(* (internal/entity), its read cache and the version manager it is bound   *)
(* to, and one operator per critical section on that state.  Which client  *)
(* runs a critical section, and what it did before and does after it, is   *)
(* the business of the modules that extend this one.                       *)
(*                                                                         *)
(* Store.mu, Router.mu, ReadCache.mu and Manager.mu are separate locks:    *)
(* an operator here covers what one holder does between lock and unlock.   *)
(* Writers invalidate the cache while they hold Store.mu, so the pair is   *)
(* one step; cache readers do not take Store.mu.                           *)
(***************************************************************************)
EXTENDS VersionManager, VersionOrder

CONSTANTS
  Keys,        \* entity keys
  Values,      \* feature values
  NoValue,     \* a feature name absent from a field map
  None,        \* an absent map entry, snapshot or key
  Hash,        \* Hash[k]: xxhash of the key (external)
  InitShards,  \* shard count at start-up (-shards)
  MaxShards,   \* bound: the largest shard count ever requested
  Seed,        \* Seed[t]: the fields table t is registered with at boot
  BootTable,   \* the table whose first version main publishes
  DraftTable   \* the table whose first version main leaves a draft

FieldMap == [Fields -> Values \cup {NoValue}]
NoFields == [f \in Fields |-> NoValue]

(* A version id as it reaches the store: Nil is the empty string. *)
VersionRefs == 0 .. MaxVersions

Entry == [fields : FieldMap, version : VersionRefs, at : 0 .. MaxTime]

(* What a read hands out and the cache keeps.  Snapshot.WrittenAt is left  *)
(* out: nothing reads it.                                                  *)
Snapshot == [fields : FieldMap, version : VersionRefs]

ShardIDs == 0 .. MaxShards - 1

ASSUME StoreAssumption ==
  /\ NoValue \notin Values
  /\ None \notin Entry \cup Snapshot
  /\ Hash \in [Keys -> Nat]
  /\ MaxShards \in Nat \ {0}
  /\ InitShards \in 1 .. MaxShards

ASSUME BootAssumption ==
  /\ Seed \in [Tables -> SUBSET Fields]
  /\ BootTable \in Tables /\ DraftTable \in Tables /\ BootTable # DraftTable
  /\ MaxVersions >= 2

VARIABLES
  routerShards,  \* Router.shardCount; the route table is the identity on it
  shardLen,      \* len(s.shards)
  shards,        \* shards[i][k]: the entry of k in shard i, or None
  cache          \* cache[k][v]: the snapshot cached under k@v, or None

storeVars == <<routerShards, shardLen, shards, cache>>

EmptyCacheLine == [v \in VersionRefs |-> None]

StoreInit ==
  /\ routerShards = InitShards
  /\ shardLen = InitShards
  /\ shards = [i \in ShardIDs |-> [k \in Keys |-> None]]
  /\ cache = [k \in Keys |-> EmptyCacheLine]

(* main: create and publish a version of one table, draft one of the other *)
Boot ==
  /\ versions = << [table |-> BootTable, state |-> "published",
                    parent |-> Nil, fields |-> Seed[BootTable], publishedAt |-> 1],
                   [table |-> DraftTable, state |-> "draft",
                    parent |-> Nil, fields |-> Seed[DraftTable], publishedAt |-> ZeroTime] >>
  /\ lastByTable = [t \in Tables |-> CASE t = BootTable  -> 1
                                       [] t = DraftTable -> 2
                                       [] OTHER          -> Nil]
  /\ active = 1
  /\ now = 1
  /\ StoreInit

-----------------------------------------------------------------------------
(* Routing *)

RouteOffByOne(k) == Hash[k] % (routerShards + 1)

Route(k) == Hash[k] % routerShards

(* Writers, deletes and EntryFor fall back to shard 0 when the router is   *)
(* already ahead of the shard slice; Read and ReadVersion index with the   *)
(* route itself and panic (OnlineReads!LookupPanic).                       *)
HomeShard(k) == IF Route(k) < shardLen THEN Route(k) ELSE 0

Live(k) == shards[HomeShard(k)][k]

-----------------------------------------------------------------------------
(* What a read makes of an entry *)

(* The fields version v knows; no filter when v is unknown, is the empty   *)
(* id or has an empty layout.                                              *)
Layout(v) ==
  IF v \in VersionIDs /\ versions[v].fields # {} THEN versions[v].fields ELSE Fields

Unfiltered(fields, v) == fields

Filtered(fields, v) ==
  [f \in Fields |-> IF f \in Layout(v) THEN fields[f] ELSE NoValue]

NilSnapshot(v) == None

EmptySnapshot(v) == [fields |-> NoFields, version |-> v]

(* entrySnapshot of an entry that does not change meanwhile *)
View(entry, v) ==
  IF entry = None THEN EmptySnapshot(v)
  ELSE [fields |-> Filtered(entry.fields, v), version |-> entry.version]

-----------------------------------------------------------------------------
(* Critical sections of Store.mu *)

NoInvalidation(k) == cache

InvalidateEntity(k) == [cache EXCEPT ![k] = EmptyCacheLine]

PutEntry(k, entry) ==
  /\ shards' = [shards EXCEPT ![HomeShard(k)][k] = entry]
  /\ cache' = InvalidateEntity(k)
  /\ UNCHANGED <<routerShards, shardLen>>

WriteAt(k, fields, v, at) ==
  PutEntry(k, [fields |-> fields, version |-> v, at |-> at])

(* MergeWrite: exactly the fields of the window are replaced or removed,   *)
(* all others stay.                                                        *)
Merged(entry, fields, window, v) ==
  LET old == IF entry = None THEN NoFields ELSE entry.fields IN
  [fields  |-> [f \in Fields |-> IF f \in window THEN fields[f] ELSE old[f]],
   version |-> v,
   at      |-> now]

MergeWrite(k, fields, window, v) ==
  PutEntry(k, Merged(Live(k), fields, window, v))

IsStale(k, v) ==
  /\ Live(k) # None
  /\ Live(k).version # Nil
  /\ VersionNewer(Live(k).version, v)

(* CompareAndWrite asks the router twice.  An entry that the first route   *)
(* leads to is refused or written in place, wherever the second one leads. *)
(* If there is none a new entry is put where the second route leads; as    *)
(* Store.mu does not hold Router.mu, the router may be expanded in between *)
(* and another, even a newer entry may lie there.                          *)
CompareAndWrite(k, fields, v) ==
  /\ Live(k) # None
  /\ \/ /\ IsStale(k, v)
        /\ UNCHANGED storeVars
     \/ /\ ~IsStale(k, v)
        /\ PutEntry(k, [fields |-> fields, version |-> v, at |-> now])

CompareAbsent(k) ==
  /\ Live(k) = None
  /\ UNCHANGED storeVars

InsertEntry(k, fields, v) ==
  PutEntry(k, [fields |-> fields, version |-> v, at |-> now])

Delete(k) == PutEntry(k, None)

(* Store.Keys: what the shard map holds, wherever the keys are routed to.  *)
ShardKeys(i) == {k \in Keys : shards[i][k] # None}

NewShardLenUnguarded(n) == n

NewShardLenOneMore(n) == IF n <= shardLen THEN shardLen ELSE shardLen + 1

NewShardLen(n) == IF n <= shardLen THEN shardLen ELSE n

(* Store.ExpandShards: the new shards are empty, old shards keep their data. *)
GrowShards(n) ==
  /\ shardLen' = NewShardLen(n)
  /\ shards' = [i \in ShardIDs |->
                  IF i < shardLen' THEN shards[i] ELSE [k \in Keys |-> None]]
  /\ UNCHANGED <<routerShards, cache>>

(* Router.ExpandShards, for a count that is not smaller than the current one. *)
GrowRouter(n) ==
  /\ n >= routerShards
  /\ routerShards' = n
  /\ UNCHANGED <<shardLen, shards, cache>>

-----------------------------------------------------------------------------
(* Critical sections of ReadCache.mu *)

CacheHit(k, v) == cache[k][v] # None

CachePutAnyVersion(k, v, snap) ==
  /\ cache' = [cache EXCEPT ![k] = [u \in VersionRefs |-> snap]]
  /\ UNCHANGED <<routerShards, shardLen, shards>>

CachePut(k, v, snap) ==
  /\ cache' = [cache EXCEPT ![k][v] = snap]
  /\ UNCHANGED <<routerShards, shardLen, shards>>

(* InvalidateVersion of the prior and of the new active version, then      *)
(* InvalidateAll: the last one subsumes the others.                        *)
ClearCache ==
  /\ cache' = [k \in Keys |-> EmptyCacheLine]
  /\ UNCHANGED <<routerShards, shardLen, shards>>

-----------------------------------------------------------------------------
StoreTypeOK ==
  /\ routerShards \in 1 .. MaxShards
  /\ shardLen \in 1 .. MaxShards
  /\ shards \in [ShardIDs -> [Keys -> Entry \cup {None}]]
  /\ cache \in [Keys -> [VersionRefs -> Snapshot \cup {None}]]

(* A step leaves the entry of k and the shard it is looked for in alone.   *)
Undisturbed(k) == Live(k)' = Live(k) /\ HomeShard(k)' = HomeShard(k)

(* The cached read of k under v is not what a read of the store would give. *)
Stale(k, v) == CacheHit(k, v) /\ cache[k][v] # View(Live(k), v)
=============================================================================
