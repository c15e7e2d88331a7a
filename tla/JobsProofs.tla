------------------------------ MODULE JobsProofs ------------------------------
(***************************************************************************)
(* Theorems about BackgroundJobs: what imports, rollbacks, expiry and      *)
(* backfills keep true beside each other, online writes, version switches  *)
(* and expansions, for any tables, keys, files, hash, inputs and bounds.   *)
(*                                                                         *)
(* The invariant is the conjunction of the invariants of the parts.  Each  *)
(* part's steps preserve its own by the lemmas of its module; what is left *)
(* to show here is that everybody else's steps do, which they do because   *)
(* they touch one entry and say so to those who watch it.                  *)
(***************************************************************************)
EXTENDS BackgroundJobs, ImporterProofs, BackfillProofs

ScanState ==
  [pc : {"idle", "list", "check", "delete"}, at : 0 .. MaxTime, count : Nat,
   shard : Nat, keys : SUBSET Keys, key : Keys \cup {None},
   old : SUBSET Keys, young : SUBSET Keys]

(* What is too old lies ahead of the scan, in the shard it is routed to,   *)
(* or is listed already; what is not is not about to be deleted.           *)
ScanInv ==
  /\ scan \in ScanState
  /\ scan.pc = "delete" => scan.key \in Keys /\ scan.key \notin scan.young
  /\ \A k \in scan.young : Live(k) # None /\ ~TooOld(Live(k), scan.at)
  /\ scan.pc # "idle" => \A k \in scan.old :
       /\ TooOld(Live(k), scan.at)
       /\ HomeShard(k) < scan.count
       /\ IF scan.pc = "list" THEN scan.shard <= HomeShard(k)
          ELSE \/ scan.shard < HomeShard(k)
               \/ k \in scan.keys
               \/ scan.pc = "delete" /\ k = scan.key

(* The windows and the differences of a check are left open.               *)
CheckState(windows, diffs) ==
  [pc : {"idle", "count", "list", "time", "read", "report"},
   windows : {windows}, window : Nat, count : Nat, shard : Nat,
   keys : SUBSET Keys, key : Keys \cup {None}, diffs : {diffs},
   compared : [Keys -> Nat], steady : [Keys -> Entry \cup {None}], switched : BOOLEAN]

CheckInv ==
  /\ \E windows, diffs : check \in CheckState(windows, diffs)
  /\ check.pc = "read" => check.key \in Keys

ReadingInv == reading \in [Readers -> Copy \cup {None}]

(* The invariant.                                                          *)
JobsInv ==
  /\ ManagerOK
  /\ StoreTypeOK
  /\ ImporterInv
  /\ ScanInv
  /\ BackfillInv
  /\ ReadingInv
  /\ CheckInv

-----------------------------------------------------------------------------
(* The scan *)

LEMMA ScanInitInv == scan = NoScan => ScanInv
BY BoundsAssumption DEF NoScan, ScanState, ScanInv, ZeroTime

LEMMA ObserveScanInv ==
  ASSUME ScanInv, ObserveScan
  PROVE  ScanInv' /\ scan'.pc = scan.pc /\ scan'.old \subseteq scan.old
<1> DEFINE old == {k \in scan.old : Undisturbed(k)}
           young == {k \in scan.young : Undisturbed(k)}
<1>1. scan' = [scan EXCEPT !.old = old, !.young = young] /\ scan \in ScanState
  BY DEF ObserveScan, ScanInv, ScanState
<1>2. /\ old \subseteq scan.old /\ young \subseteq scan.young
      /\ \A k \in old \cup young : Undisturbed(k)
  OBVIOUS
<1> HIDE DEF old, young
<1>3. /\ scan' \in ScanState /\ scan'.old = old /\ scan'.young = young
      /\ scan'.pc = scan.pc /\ scan'.at = scan.at /\ scan'.count = scan.count
      /\ scan'.shard = scan.shard /\ scan'.keys = scan.keys /\ scan'.key = scan.key
  BY <1>1, <1>2 DEF ScanState
<1>4. \A k \in old \cup young : Live(k)' = Live(k) /\ HomeShard(k)' = HomeShard(k)
  BY <1>2 DEF Undisturbed
<1> QED
  BY <1>2, <1>3, <1>4 DEF ScanInv, TooOld

LEMMA ScanKept ==
  ASSUME ScanInv, UNCHANGED <<scan, shards, routerShards, shardLen>>
  PROVE  ScanInv'
<1>1. \A k : Live(k)' = Live(k) /\ HomeShard(k)' = HomeShard(k)
  BY DEF Live, HomeShard, Route
<1> QED
  BY <1>1 DEF ScanInv, TooOld

LEMMA StartScanInv ==
  ASSUME StoreTypeOK, TypeOK, StartScan
  PROVE  ScanInv'
<1> DEFINE old == {k \in Keys : TooOld(Live(k), now)}
           young == {k \in Keys : Live(k) # None /\ ~TooOld(Live(k), now)}
           s == [NoScan EXCEPT !.pc = "list", !.at = now, !.count = shardLen,
                               !.old = old, !.young = young]
<1>1. scan' = s /\ UNCHANGED storeVars
  BY DEF StartScan
<1>2. shardLen \in Nat /\ now \in 0 .. MaxTime
  BY StoreAssumption DEF StoreTypeOK, TypeOK
<1>3. /\ old \subseteq Keys /\ young \subseteq Keys
      /\ \A k \in young : Live(k) # None /\ ~TooOld(Live(k), now)
  OBVIOUS
<1>4. \A k \in old : /\ TooOld(Live(k), now)
                     /\ HomeShard(k) < shardLen /\ 0 <= HomeShard(k)
  BY RouteFacts DEF ShardIDs
<1> HIDE DEF old, young
<1>5. /\ s \in ScanState /\ s.pc = "list" /\ s.at = now /\ s.count = shardLen
      /\ s.shard = 0 /\ s.old = old /\ s.young = young
  BY <1>2, <1>3 DEF NoScan, ScanState, ZeroTime
<1> HIDE DEF s
<1>6. \A k : Live(k)' = Live(k) /\ HomeShard(k)' = HomeShard(k)
  BY <1>1 DEF storeVars, Live, HomeShard, Route
<1> QED
  BY <1>1, <1>3, <1>4, <1>5, <1>6 DEF ScanInv, TooOld

LEMMA ListKeysInv ==
  ASSUME ScanInv, StoreTypeOK, ListKeys
  PROVE  ScanInv'
<1>1. /\ scan.pc = "list" /\ UNCHANGED storeVars
      /\ scan' = [scan EXCEPT !.pc = "check", !.keys = ShardKeys(scan.shard)]
  BY DEF ListKeys
<1>2. ShardKeys(scan.shard) \subseteq Keys
  BY DEF ShardKeys
<1>3. /\ scan' \in ScanState /\ scan'.pc = "check" /\ scan'.keys = ShardKeys(scan.shard)
      /\ scan'.at = scan.at /\ scan'.count = scan.count /\ scan'.shard = scan.shard
      /\ scan'.old = scan.old /\ scan'.young = scan.young
  BY <1>1, <1>2 DEF ScanInv, ScanState
<1>4. \A k : Live(k)' = Live(k) /\ HomeShard(k)' = HomeShard(k)
  BY <1>1 DEF storeVars, Live, HomeShard, Route
<1>5. ASSUME NEW k \in scan.old
      PROVE  /\ TooOld(Live(k), scan.at) /\ HomeShard(k) < scan.count
             /\ scan.shard < HomeShard(k) \/ k \in ShardKeys(scan.shard)
  <2>1. k \in Keys /\ scan.shard \in Nat
    BY DEF ScanInv, ScanState
  <2>2. /\ TooOld(Live(k), scan.at) /\ HomeShard(k) < scan.count
        /\ scan.shard <= HomeShard(k) /\ HomeShard(k) \in Nat
    BY <1>1, <2>1, RouteFacts DEF ScanInv, ShardIDs
  <2>3. CASE HomeShard(k) = scan.shard
    BY <2>1, <2>2, <2>3 DEF ShardKeys, Live, TooOld
  <2> QED
    BY <2>1, <2>2, <2>3
<1> QED
  BY <1>3, <1>4, <1>5 DEF ScanInv, TooOld

LEMMA CheckKeyInv ==
  ASSUME ScanInv, StoreTypeOK, NEW k \in Keys, CheckKey(k)
  PROVE  ScanInv'
<1> DEFINE found == Live(k) # None /\ IsExpired(scan.at, Live(k).at)
<1>1. /\ scan.pc = "check" /\ UNCHANGED storeVars /\ scan \in ScanState
      /\ scan' = IF found THEN [scan EXCEPT !.pc = "delete", !.keys = @ \ {k}, !.key = k]
                 ELSE [scan EXCEPT !.keys = @ \ {k}]
  BY DEF CheckKey, ScanInv
<1>2. \A j : Live(j)' = Live(j) /\ HomeShard(j)' = HomeShard(j)
  BY <1>1 DEF storeVars, Live, HomeShard, Route
<1>3. Live(k) \in Entry \cup {None}
  BY LiveType
<1>4. found <=> TooOld(Live(k), scan.at)
  <2>1. CASE Live(k) # None
    <3>1. Live(k).at \in Nat /\ scan.at \in Nat
      BY <1>1, <1>3, <2>1, BoundsAssumption DEF Entry, ScanState
    <3> QED
      BY <2>1, <3>1, TTLAssumption DEF IsExpired, TooOld
  <2>2. CASE Live(k) = None
    BY <2>2 DEF TooOld
  <2> QED
    BY <2>1, <2>2
<1> HIDE DEF found
<1>5. /\ scan' \in ScanState /\ scan'.pc = (IF found THEN "delete" ELSE "check")
      /\ scan'.keys = scan.keys \ {k} /\ scan'.old = scan.old
      /\ scan'.young = scan.young /\ (found => scan'.key = k)
      /\ scan'.at = scan.at /\ scan'.count = scan.count /\ scan'.shard = scan.shard
  BY <1>1, <1>3 DEF ScanState
<1>6. \A j \in scan.old : /\ TooOld(Live(j), scan.at) /\ HomeShard(j) < scan.count
                          /\ scan.shard < HomeShard(j) \/ j \in scan.keys
  BY <1>1 DEF ScanInv
<1> QED
  BY <1>2, <1>4, <1>5, <1>6 DEF ScanInv, TooOld

LEMMA DeleteKeyInv ==
  ASSUME ScanInv, StoreTypeOK, DeleteKey
  PROVE  /\ ScanInv' /\ scan.pc = "delete" /\ scan.key \in Keys
         /\ PutEntry(scan.key, None)
<1>1. PICK d \in Keys : d = scan.key
  BY DEF ScanInv, DeleteKey
<1>2. /\ scan.pc = "delete" /\ scan \in ScanState /\ PutEntry(d, None)
      /\ scan' = [scan EXCEPT !.pc = "check", !.key = None, !.old = @ \ {d}]
      /\ d \notin scan.young
  BY <1>1 DEF DeleteKey, Delete, ScanInv
<1>3. \A j \in Keys \ {d} : Live(j)' = Live(j) /\ HomeShard(j)' = HomeShard(j)
  BY <1>2, PutEntryStep
<1>4. /\ scan' \in ScanState /\ scan'.pc = "check" /\ scan'.old = scan.old \ {d}
      /\ scan'.keys = scan.keys /\ scan'.young = scan.young /\ scan.young \subseteq Keys
      /\ scan'.at = scan.at /\ scan'.count = scan.count /\ scan'.shard = scan.shard
      /\ scan.old \subseteq Keys
  BY <1>2 DEF ScanState
<1>5. \A j \in scan.old \ {d} : /\ TooOld(Live(j), scan.at) /\ HomeShard(j) < scan.count
                                /\ scan.shard < HomeShard(j) \/ j \in scan.keys
  BY <1>1, <1>2 DEF ScanInv
<1>6. ScanInv'
  BY <1>2, <1>3, <1>4, <1>5 DEF ScanInv, TooOld
<1> QED
  BY <1>1, <1>2, <1>6

(* A shard is left when none of its keys is left: what is still too old    *)
(* lies in the shards to come, and there are none after the last.          *)
LEMMA NextShardInv ==
  ASSUME ScanInv, StoreTypeOK, NextShard
  PROVE  ScanInv' /\ (scan'.pc = "idle" => scan.old = {})
<1>1. /\ scan.pc = "check" /\ scan.keys = {} /\ UNCHANGED storeVars /\ scan \in ScanState
      /\ scan' = IF scan.shard + 1 = scan.count THEN NoScan
                 ELSE [scan EXCEPT !.pc = "list", !.shard = @ + 1]
  BY DEF NextShard, IsLastShard, ScanInv
<1>2. \A k : Live(k)' = Live(k) /\ HomeShard(k)' = HomeShard(k)
  BY <1>1 DEF storeVars, Live, HomeShard, Route
<1>3. \A k \in scan.old : /\ TooOld(Live(k), scan.at) /\ HomeShard(k) < scan.count
                          /\ scan.shard < HomeShard(k) /\ HomeShard(k) \in Nat
  BY <1>1, RouteFacts DEF ScanInv, ScanState, ShardIDs
<1>4. scan.shard \in Nat /\ scan.count \in Nat
  BY <1>1 DEF ScanState
<1>5. CASE scan.shard + 1 = scan.count
  <2>1. scan.old = {}
    BY <1>3, <1>4, <1>5
  <2>2. NoScan \in ScanState /\ NoScan.pc = "idle" /\ NoScan.young = {}
    BY BoundsAssumption DEF NoScan, ScanState, ZeroTime
  <2> QED
    BY <1>1, <1>5, <2>1, <2>2 DEF ScanInv
<1>6. CASE scan.shard + 1 # scan.count
  <2>1. /\ scan' \in ScanState /\ scan'.pc = "list" /\ scan'.old = scan.old
        /\ scan'.young = scan.young /\ scan'.at = scan.at /\ scan'.count = scan.count /\ scan'.shard = scan.shard + 1
    <3>1. scan' = [scan EXCEPT !.pc = "list", !.shard = @ + 1]
      BY <1>1, <1>6
    <3>2. scan.shard + 1 \in Nat
      BY <1>4
    <3> QED
      BY <1>1, <3>1, <3>2 DEF ScanState
  <2>2. \A k \in scan.old : scan.shard + 1 <= HomeShard(k)
    BY <1>3, <1>4
  <2> QED
    BY <1>2, <1>3, <2>1, <2>2 DEF ScanInv, TooOld
<1> QED
  BY <1>5, <1>6

LEMMA ScanStep ==
  ASSUME ScanInv, StoreTypeOK, TypeOK, Scan
  PROVE  /\ ScanInv'
         /\ IF scan.pc = "delete" THEN scan.key \in Keys /\ PutEntry(scan.key, None)
            ELSE UNCHANGED storeVars
         /\ scan.pc = "check" /\ scan'.pc = "idle" => scan.old = {}
<1>1. CASE StartScan
  BY <1>1, StartScanInv DEF StartScan
<1>2. CASE ListKeys
  BY <1>2, ListKeysInv DEF ListKeys
<1>3. ASSUME NEW k \in Keys, CheckKey(k)
      PROVE  /\ ScanInv' /\ scan.pc = "check" /\ UNCHANGED storeVars
             /\ scan'.pc # "idle"
  BY <1>3, CheckKeyInv DEF CheckKey, ScanInv, ScanState
<1>4. CASE DeleteKey
  BY <1>4, DeleteKeyInv
<1>5. CASE NextShard
  BY <1>5, NextShardInv DEF NextShard
<1> QED
  BY <1>1, <1>2, <1>3, <1>4, <1>5 DEF Scan

-----------------------------------------------------------------------------
(* The consistency check *)

LEMMA CheckInitInv == check = NoCheck => CheckInv
<1>1. NoCheck \in CheckState(NoCheck.windows, NoCheck.diffs) /\ NoCheck.pc = "idle"
  BY DEF NoCheck, CheckState
<1> QED
  BY <1>1 DEF CheckInv

LEMMA ObserveCheckInv ==
  ASSUME CheckInv, NEW switch \in BOOLEAN, ObserveCheck(switch)
  PROVE  CheckInv'
<1> DEFINE steady == [k \in Keys |-> IF Undisturbed(k) THEN check.steady[k] ELSE None]
           switched == check.pc # "idle" /\ (check.switched \/ switch)
<1>1. PICK w, d : check \in CheckState(w, d)
  BY DEF CheckInv
<1>2. check' = [check EXCEPT !.steady = steady, !.switched = switched]
  BY <1>1 DEF ObserveCheck, CheckState
<1>3. steady \in [Keys -> Entry \cup {None}] /\ switched \in BOOLEAN
  BY <1>1 DEF CheckState
<1> HIDE DEF steady, switched
<1>4. check' \in CheckState(w, d) /\ check'.pc = check.pc /\ check'.key = check.key
  BY <1>1, <1>2, <1>3 DEF CheckState
<1> QED
  BY <1>4 DEF CheckInv

(* What the read of an entry gives is a snapshot.                          *)
LEMMA ReadNowType ==
  ASSUME ManagerOK, StoreTypeOK, NEW k \in Keys, Route(k) < shardLen
  PROVE  ReadNow(k) \in Snapshot /\ Found(k) \in Snapshot /\ ResolveActive \in VersionRefs
<1>1. ResolveActive \in VersionRefs
  BY ResolvesKnown, KnownRefs
<1>2. cache[k][ResolveActive] \in Snapshot \cup {None}
  BY <1>1 DEF StoreTypeOK
<1>3. shards[Route(k)][k] \in Entry \cup {None}
  BY RouteFacts DEF StoreTypeOK
<1>4. Found(k) \in Snapshot
  BY <1>1, <1>3, ViewType DEF Found
<1> QED
  BY <1>1, <1>2, <1>4 DEF ReadNow, CacheHit

LEMMA CompareKeyInv ==
  ASSUME CheckInv, ManagerOK, StoreTypeOK, CompareKey
  PROVE  /\ CheckInv' /\ StoreTypeOK'
         /\ UNCHANGED <<shards, routerShards, shardLen>>
<1>1. PICK k \in Keys : k = check.key
  BY DEF CheckInv, CompareKey
<1>2. Route(k) < shardLen /\ CachePut(k, ResolveActive, ReadNow(k))
  BY <1>1 DEF CompareKey
<1>3. PICK w, d : check \in CheckState(w, d)
  BY DEF CheckInv
<1>4. StoreTypeOK' /\ UNCHANGED <<shards, routerShards, shardLen>>
  BY <1>2, ReadNowType, CachePutStep
<1>5. CheckInv'
  <2>1. PICK diffs :
          check' = [check EXCEPT !.pc = "time", !.key = None,
                                 !.compared = [check.compared EXCEPT ![k] = @ + 1],
                                 !.diffs = diffs]
    BY <1>1, <1>3 DEF CompareKey, CheckState
  <2>2. [check.compared EXCEPT ![k] = @ + 1] \in [Keys -> Nat]
    BY <1>3 DEF CheckState
  <2>3. check' \in CheckState(w, diffs) /\ check'.pc = "time"
    BY <1>3, <2>1, <2>2 DEF CheckState
  <2> QED
    BY <2>3 DEF CheckInv
<1> QED
  BY <1>4, <1>5

LEMMA CheckStepInv ==
  ASSUME CheckInv, ManagerOK, StoreTypeOK, CheckStep
  PROVE  /\ CheckInv' /\ StoreTypeOK'
         /\ UNCHANGED <<shards, routerShards, shardLen>>
<1>1. CASE CompareKey
  BY <1>1, CompareKeyInv
<1>2. PICK w, d : check \in CheckState(w, d)
  BY DEF CheckInv
<1>3. ASSUME NEW begin, NEW until, StartCheck(begin, until)
      PROVE  CheckInv' /\ UNCHANGED storeVars
  <2> DEFINE steady == [k \in Keys |->
                IF /\ InRange(Live(k), begin, until)
                   /\ OnlyAtHome(k) /\ ~Stale(k, ResolveActive)
                   /\ \A q \in Readers : ~Overtaken(q, k)
                THEN Live(k) ELSE None]
             windows == Windows(begin, until)
  <2>1. check' = [NoCheck EXCEPT !.pc = "count", !.windows = windows, !.window = 1,
                                 !.steady = steady]
    BY <1>3 DEF StartCheck
  <2>2. steady \in [Keys -> Entry \cup {None}]
    BY LiveType
  <2> HIDE DEF steady, windows
  <2>3. check' \in CheckState(windows, {}) /\ check'.pc = "count"
    BY <2>1, <2>2 DEF NoCheck, CheckState
  <2> QED
    BY <1>3, <2>3 DEF CheckInv, StartCheck
<1>4. ASSUME CountShards PROVE CheckInv' /\ UNCHANGED storeVars
  <2>1. check' \in CheckState(w, d) /\ check'.pc = "list"
    <3>1. shardLen \in Nat
      BY StoreAssumption DEF StoreTypeOK
    <3>2. check' = [check EXCEPT !.pc = "list", !.count = shardLen, !.shard = 0]
      BY <1>4 DEF CountShards
    <3> QED
      BY <1>2, <3>1, <3>2 DEF CheckState
  <2> QED
    BY <1>4, <2>1 DEF CheckInv, CountShards
<1>5. ASSUME ListWindowKeys PROVE CheckInv' /\ UNCHANGED storeVars
  <2>1. ShardKeys(check.shard) \subseteq Keys
    BY DEF ShardKeys
  <2>2. check' \in CheckState(w, d) /\ check'.pc = "time"
    BY <1>2, <1>5, <2>1 DEF ListWindowKeys, CheckState
  <2> QED
    BY <1>5, <2>2 DEF CheckInv, ListWindowKeys
<1>6. ASSUME NEW k \in Keys, CheckTime(k) PROVE CheckInv' /\ UNCHANGED storeVars
  <2>1. \/ check' = [check EXCEPT !.pc = "read", !.keys = @ \ {k}, !.key = k]
        \/ check' = [check EXCEPT !.keys = @ \ {k}]
    BY <1>6 DEF CheckTime
  <2>2. check.pc = "time"
    BY <1>6 DEF CheckTime
  <2>3. /\ check' \in CheckState(w, d)
        /\ check'.pc = "time" \/ check'.key = k
    BY <1>2, <2>1, <2>2 DEF CheckState
  <2> QED
    BY <1>6, <2>3 DEF CheckInv, CheckTime
<1>7. ASSUME NextWindowShard PROVE CheckInv' /\ UNCHANGED storeVars
  <2>1. \/ check' = [check EXCEPT !.pc = "list", !.shard = @ + 1]
        \/ check' = [check EXCEPT !.pc = "count", !.window = @ + 1]
        \/ check' = [check EXCEPT !.pc = "report"]
    BY <1>7 DEF NextWindowShard
  <2>2. check' \in CheckState(w, d) /\ check'.pc # "read"
    <3>1. check.shard + 1 \in Nat /\ check.window + 1 \in Nat
      BY <1>2 DEF CheckState
    <3>2. CASE check' = [check EXCEPT !.pc = "list", !.shard = @ + 1]
      BY <1>2, <3>1, <3>2 DEF CheckState
    <3>3. CASE check' = [check EXCEPT !.pc = "count", !.window = @ + 1]
      BY <1>2, <3>1, <3>3 DEF CheckState
    <3>4. CASE check' = [check EXCEPT !.pc = "report"]
      BY <1>2, <3>4 DEF CheckState
    <3> QED
      BY <2>1, <3>2, <3>3, <3>4
  <2> QED
    BY <1>7, <2>2 DEF CheckInv, NextWindowShard
<1>8. ASSUME Report PROVE CheckInv' /\ UNCHANGED storeVars
  <2>1. NoCheck \in CheckState(NoCheck.windows, NoCheck.diffs) /\ NoCheck.pc = "idle"
    BY DEF NoCheck, CheckState
  <2> QED
    BY <1>8, <2>1 DEF Report, CheckInv
<1> QED
  <2>1. ASSUME UNCHANGED storeVars PROVE StoreTypeOK' /\ UNCHANGED <<shards, routerShards, shardLen>>
    BY <2>1 DEF storeVars, StoreTypeOK
  <2> QED
    BY <1>1, <1>3, <1>4, <1>5, <1>6, <1>7, <1>8, <2>1 DEF CheckStep

-----------------------------------------------------------------------------
(* Online reads *)

LEMMA ObserveReadsInv ==
  ASSUME ReadingInv, ObserveReads
  PROVE  ReadingInv'
BY DEF ReadingInv, ObserveReads, Copy

(* A read changes nothing but the cache.                                   *)
LEMMA OnlineReadStep ==
  ASSUME ManagerOK, StoreTypeOK, ReadingInv, NEW q \in Readers, OnlineRead(q)
  PROVE  /\ ReadingInv' /\ StoreTypeOK'
         /\ UNCHANGED <<shards, routerShards, shardLen>>
<1>1. ASSUME NEW k \in OnlineKeys, CopyMissed(q, k) PROVE ReadingInv' /\ UNCHANGED storeVars
  <2>1. k \in Keys /\ Route(k) < shardLen
    BY <1>1, JobsAssumption DEF CopyMissed
  <2> DEFINE copy == [key |-> k, ver |-> ResolveActive, snap |-> Found(k), raced |-> FALSE]
  <2>2. copy \in Copy
    BY <2>1, ReadNowType DEF Copy
  <2>3. reading' = [reading EXCEPT ![q] = copy]
    BY <1>1 DEF CopyMissed
  <2> HIDE DEF copy
  <2> QED
    BY <1>1, <2>2, <2>3 DEF ReadingInv, CopyMissed
<1>2. CASE PutCopy(q)
  <2>1. reading[q] \in Copy /\ reading' = [reading EXCEPT ![q] = None]
    BY <1>2 DEF PutCopy, ReadingInv
  <2>2. /\ reading[q].key \in Keys /\ reading[q].ver \in VersionRefs
        /\ reading[q].snap \in Snapshot
    BY <2>1 DEF Copy
  <2>3. ReadingInv'
    BY <2>1 DEF ReadingInv
  <2> QED
    BY <1>2, <2>2, <2>3, CachePutStep DEF PutCopy
<1>3. UNCHANGED storeVars => StoreTypeOK' /\ UNCHANGED <<shards, routerShards, shardLen>>
  BY DEF storeVars, StoreTypeOK
<1> QED
  BY <1>1, <1>2, <1>3 DEF OnlineRead

-----------------------------------------------------------------------------
(* Every job beside the others *)

(* An entry is written by somebody the batches do not know.                *)
LEMMA SomebodyWrites ==
  ASSUME ImporterInv, StoreTypeOK, NEW k \in Keys, NEW e \in Entry \cup {None},
         PutEntry(k, e), UNCHANGED <<journal, import, revert>>,
         history' = Written(history, k, None)
  PROVE  ImporterInv' /\ StoreTypeOK'
BY PutEntryStep, OthersWrite

LEMMA StoreKept ==
  ASSUME StoreTypeOK, UNCHANGED storeVars
  PROVE  /\ StoreTypeOK'
         /\ \A k : Live(k)' = Live(k) /\ HomeShard(k)' = HomeShard(k)
BY DEF storeVars, StoreTypeOK, Live, HomeShard, Route

LEMMA BackfillKept ==
  ASSUME BackfillInv, UNCHANGED backfillVars
  PROVE  BackfillInv'
BY DEF backfillVars, BackfillInv, BackfillTypeOK, WrittenOK, CommittedWasWritten,
       RetriesOK, Retrying

LEMMA ManagerKept ==
  ASSUME ManagerOK, UNCHANGED versionVars
  PROVE  ManagerOK'
BY ManagerStep

LEMMA JobsInitInv == JobsInit => JobsInv
<1>1. ReadersInit => ReadingInv
  BY DEF ReadersInit, ReadingInv
<1> QED
  BY <1>1, BootOK, ImporterInitInv, ScanInitInv, BackfillInitInv, CheckInitInv
  DEF JobsInit, JobsInv

LEMMA OnlineWriteInv ==
  ASSUME JobsInv, NEW k \in OnlineKeys, NEW fields \in Rows, OnlineWrite(k, fields)
  PROVE  JobsInv'
<1>1. k \in Keys /\ fields \in FieldMap /\ TypeOK
  BY JobsAssumption DEF JobsInv, ManagerOK, IInv
<1>2. \E e \in Entry : PutEntry(k, e)
  <2>1. PICK v \in OnlineRefs, at \in 1 .. now : WriteAt(k, fields, v, at)
    BY DEF OnlineWrite
  <2>2. at \in 0 .. MaxTime /\ v \in VersionRefs
    BY <1>1, BoundsAssumption, JobsAssumption DEF TypeOK
  <2> QED
    BY <1>1, <2>1, <2>2 DEF WriteAt, Entry
<1>3. ImporterInv' /\ StoreTypeOK'
  BY <1>1, <1>2, SomebodyWrites DEF OnlineWrite, JobsInv
<1> QED
  BY <1>3, ObserveScanInv, ObserveCheckInv, ObserveReadsInv, BackfillKept, ManagerKept
  DEF OnlineWrite, Observe, JobsInv

LEMMA RunImportInv ==
  ASSUME JobsInv, NEW b \in Batches, RunImport(b)
  PROVE  JobsInv'
<1>1. TypeOK
  BY DEF JobsInv, ManagerOK, IInv
<1>2. /\ ImporterInv'
      /\ UNCHANGED storeVars \/ \E k \in Keys, e \in Entry \cup {None} : PutEntry(k, e)
  BY <1>1, ImporterStep DEF RunImport, JobsInv
<1>3. StoreTypeOK'
  BY <1>2, StoreKept, PutEntryStep DEF JobsInv
<1> QED
  BY <1>2, <1>3, ObserveScanInv, ObserveCheckInv, ObserveReadsInv, BackfillKept, ManagerKept
  DEF RunImport, Observe, JobsInv

LEMMA RunScanInv ==
  ASSUME JobsInv, RunScan
  PROVE  JobsInv'
<1>1. TypeOK
  BY DEF JobsInv, ManagerOK, IInv
<1>2. /\ ScanInv'
      /\ IF scan.pc = "delete" THEN scan.key \in Keys /\ PutEntry(scan.key, None)
         ELSE UNCHANGED storeVars
  BY <1>1, ScanStep DEF RunScan, JobsInv
<1>3. ImporterInv' /\ StoreTypeOK'
  <2>1. CASE scan.pc = "delete"
    <3>1. PICK d \in Keys : d = scan.key
      BY <1>2, <2>1
    <3>2. PutEntry(d, None) /\ history' = Written(history, d, None)
      BY <1>2, <2>1, <3>1 DEF RunScan
    <3> QED
      BY <3>2, SomebodyWrites DEF RunScan, JobsInv
  <2>2. CASE scan.pc # "delete"
    <3>1. history' = history /\ UNCHANGED storeVars
      BY <1>2, <2>2 DEF RunScan
    <3> QED
      BY <3>1, StoreKept, OthersQuiet DEF RunScan, JobsInv
  <2> QED
    BY <2>1, <2>2
<1> QED
  BY <1>2, <1>3, ObserveCheckInv, ObserveReadsInv, BackfillKept, ManagerKept
  DEF RunScan, JobsInv

LEMMA RunBackfillInv ==
  ASSUME JobsInv, NEW r \in Runners, RunBackfill(r)
  PROVE  JobsInv'
<1>1. TypeOK
  BY DEF JobsInv, ManagerOK, IInv
<1>2. /\ BackfillInv'
      /\ \/ UNCHANGED storeVars
         \/ /\ attempt[r].pc \in {"write", "insert"}
            /\ NextKey(attempt[r]) \in Keys
            /\ \E e \in Entry : PutEntry(NextKey(attempt[r]), e)
  BY <1>1, BackfillStepInv DEF RunBackfill, JobsInv
<1>3. ImporterInv' /\ StoreTypeOK'
  <2>1. CASE UNCHANGED storeVars
    <3>1. history' = history
      BY <2>1 DEF RunBackfill, storeVars
    <3> QED
      BY <2>1, <3>1, StoreKept, OthersQuiet DEF RunBackfill, JobsInv
  <2>2. CASE ~UNCHANGED storeVars
    <3>1. PICK k \in Keys : k = NextKey(attempt[r])
      BY <1>2, <2>2
    <3>2. PICK e \in Entry : PutEntry(k, e)
      BY <1>2, <2>2, <3>1
    <3>3. CASE shards' = shards
      <4>1. StoreTypeOK' /\ \A j \in Keys : HomeShard(j)' = HomeShard(j)
        BY <3>2, PutEntryStep DEF JobsInv
      <4>2. \A j \in Keys : Live(j)' = Live(j)
        BY <3>3, <4>1 DEF Live
      <4>3. history' = history
        BY <3>3 DEF RunBackfill
      <4> QED
        BY <4>1, <4>2, <4>3, OthersQuiet DEF RunBackfill, JobsInv
    <3>4. CASE shards' # shards
      <4>1. history' = Written(history, k, None)
        BY <1>2, <2>2, <3>1, <3>4 DEF RunBackfill
      <4> QED
        BY <3>2, <4>1, SomebodyWrites DEF RunBackfill, JobsInv
    <3> QED
      BY <3>3, <3>4
  <2> QED
    BY <2>1, <2>2
<1> QED
  BY <1>2, <1>3, ObserveScanInv, ObserveCheckInv, ObserveReadsInv, ManagerKept
  DEF RunBackfill, Observe, JobsInv

LEMMA RunCheckInv ==
  ASSUME JobsInv, RunCheck
  PROVE  JobsInv'
<1>1. /\ CheckInv' /\ StoreTypeOK'
      /\ UNCHANGED <<shards, routerShards, shardLen>>
  BY CheckStepInv DEF RunCheck, JobsInv
<1>2. \A k : Live(k)' = Live(k)
  BY <1>1 DEF Live, HomeShard, Route
<1>3. ImporterInv'
  BY <1>2, OthersQuiet DEF RunCheck, importVars, JobsInv
<1> QED
  BY <1>1, <1>3, ScanKept, BackfillKept, ManagerKept DEF RunCheck, ReadingInv, JobsInv

LEMMA OnlineReadInv ==
  ASSUME JobsInv, NEW q \in Readers, OnlineRead(q)
  PROVE  JobsInv'
<1>1. /\ ReadingInv' /\ StoreTypeOK'
      /\ UNCHANGED <<shards, routerShards, shardLen>>
  BY OnlineReadStep DEF JobsInv
<1>2. \A k : Live(k)' = Live(k)
  BY <1>1 DEF Live, HomeShard, Route
<1>3. ImporterInv'
  BY <1>2, OthersQuiet DEF OnlineRead, importVars, JobsInv
<1> QED
  BY <1>1, <1>3, ScanKept, BackfillKept, ManagerKept DEF OnlineRead, CheckInv, JobsInv

LEMMA ExpandInv ==
  ASSUME JobsInv, Expand
  PROVE  JobsInv'
<1>1. StoreTypeOK'
  <2>1. ASSUME NEW n \in 1 .. MaxShards, ExpandRouter(n) PROVE StoreTypeOK'
    BY <2>1, GrowRouterStep DEF ExpandRouter, JobsInv
  <2>2. ASSUME ExpandStore PROVE StoreTypeOK'
    <3>1. routerShards \in 1 .. MaxShards
      BY DEF JobsInv, StoreTypeOK
    <3> QED
      BY <2>2, <3>1, GrowShardsStep DEF ExpandStore, JobsInv
  <2> QED
    BY <2>1, <2>2 DEF Expand
<1>2. ImporterInv'
  BY OthersReroute DEF Expand, JobsInv
<1> QED
  BY <1>1, <1>2, ObserveScanInv, ObserveCheckInv, ObserveReadsInv, BackfillKept, ManagerKept
  DEF Expand, Observe, JobsInv

LEMMA SwitchVersionInv ==
  ASSUME JobsInv, SwitchVersion
  PROVE  JobsInv'
<1>1. ManagerOK'
  BY ManagerStep DEF SwitchVersion, Next, JobsInv
<1>2. /\ StoreTypeOK' /\ CheckInv' /\ ReadingInv'
      /\ UNCHANGED <<shards, routerShards, shardLen>>
  <2>1. CASE UNCHANGED <<storeVars, reading, check>>
    BY <2>1, StoreKept DEF JobsInv, CheckInv, ReadingInv, storeVars
  <2>2. CASE ClearCache /\ ObserveCheck(TRUE) /\ ObserveReads
    <3>1. StoreTypeOK' /\ UNCHANGED <<shards, routerShards, shardLen>>
      BY <2>2, ClearCacheStep DEF JobsInv
    <3> DEFINE switch == TRUE
    <3>2. switch \in BOOLEAN /\ ObserveCheck(switch)
      BY <2>2
    <3> HIDE DEF switch
    <3>3. CheckInv'
      BY <3>2, ObserveCheckInv DEF JobsInv
    <3> QED
      BY <2>2, <3>1, <3>3, ObserveReadsInv DEF JobsInv
  <2> QED
    BY <2>1, <2>2 DEF SwitchVersion
<1>3. \A k : Live(k)' = Live(k)
  BY <1>2 DEF Live, HomeShard, Route
<1>4. ImporterInv'
  BY <1>3, OthersQuiet DEF SwitchVersion, importVars, JobsInv
<1> QED
  BY <1>1, <1>2, <1>4, ScanKept, BackfillKept DEF SwitchVersion, JobsInv

LEMMA QuietInv ==
  ASSUME JobsInv, [Next]_versionVars,
         UNCHANGED <<storeVars, importVars, scan, backfillVars, reading, check>>
  PROVE  JobsInv'
<1>1. StoreTypeOK' /\ \A k : Live(k)' = Live(k)
  BY StoreKept DEF JobsInv
<1>2. ImporterInv'
  BY <1>1, OthersQuiet DEF importVars, JobsInv
<1>3. ScanInv'
  BY ScanKept DEF JobsInv, storeVars
<1> QED
  BY <1>1, <1>2, <1>3, BackfillKept, ManagerStep DEF JobsInv, CheckInv, ReadingInv

LEMMA JobsStep == JobsInv /\ [JobsNext]_jobVars => JobsInv'
<1> SUFFICES ASSUME JobsInv, [JobsNext]_jobVars PROVE JobsInv'
  OBVIOUS
<1>1. CASE Clock
  BY <1>1, QuietInv DEF Clock, Next
<1>2. CASE UNCHANGED jobVars
  BY <1>2, QuietInv DEF jobVars
<1> QED
  BY <1>1, <1>2, RunImportInv, RunScanInv, OnlineReadInv, RunBackfillInv, RunCheckInv,
     ExpandInv, SwitchVersionInv, OnlineWriteInv DEF JobsNext

(* The parts of the server's state keep their types and invariants under   *)
(* any interleaving of the jobs.                                           *)
THEOREM JobsInvariant == JobsSpec => []JobsInv
BY JobsInitInv, JobsStep, PTL DEF JobsSpec

(* Only the jobs themselves move on: somebody else's step leaves the       *)
(* program counters of an import, a rollback, a scan or a backfill alone.  *)
LEMMA OnlyImports ==
  ASSUME JobsInv, [JobsNext]_jobVars, <<import, revert>>' # <<import, revert>>
  PROVE  \E c \in Batches : Import(c) \/ Rollbacks(c)
BY DEF JobsNext, RunImport, RunScan, RunBackfill, RunCheck, Expand, SwitchVersion,
       OnlineWrite, OnlineRead, Clock, jobVars, importVars

LEMMA OnlyBackfills ==
  ASSUME JobsInv, [JobsNext]_jobVars, attempt' # attempt
  PROVE  \E q \in Runners : BackfillStep(q)
BY DEF JobsNext, RunImport, RunScan, RunBackfill, RunCheck, Expand, SwitchVersion,
       OnlineWrite, OnlineRead, Clock, jobVars, backfillVars

LEMMA OnlyScans ==
  ASSUME JobsInv, [JobsNext]_jobVars, scan'.pc # scan.pc
  PROVE  Scan
<1>1. ASSUME ObserveScan PROVE FALSE
  BY <1>1, ObserveScanInv DEF JobsInv
<1> QED
  BY <1>1 DEF JobsNext, RunImport, RunScan, RunBackfill, RunCheck, Expand, SwitchVersion,
              OnlineWrite, OnlineRead, Clock, Observe, jobVars

-----------------------------------------------------------------------------
(* Imports and rollbacks *)

(* What a batch wrote and nobody overwrote since has an operation in the   *)
(* journal, unless a rollback of the batch overlapped an import of it:     *)
(* Journal.Append precedes MergeWrite in Import.                           *)
THEOREM ImportsAreJournaled == JobsSpec => []ImportedIsJournaled
<1>1. JobsInv => ImportedIsJournaled
  BY DEF JobsInv, ImporterInv, BatchOK, JournalOK, ImportedIsJournaled
<1> QED
  BY <1>1, JobsInvariant, PTL

(* A rollback that no import of its batch overlaps restores every key the  *)
(* batch touched and nobody disturbed, for any file, also with several     *)
(* rows for a key and after several imports (RollbackBatch).               *)
THEOREM RollbacksRestore == JobsSpec => RollbackRestores
<1> DEFINE Restores ==
             \A b \in Batches :
               (Reverting(b) /\ revert'[b].pc = "idle" /\ ~history[b].overlapped) =>
                 \A k \in history[b].touched \ history[b].disturbed :
                   Live(k) = history[b].base[k]
<1>1. ASSUME JobsInv, [JobsNext]_jobVars, NEW b \in Batches,
             Reverting(b), revert'[b].pc = "idle", ~history[b].overlapped,
             NEW k \in history[b].touched \ history[b].disturbed
      PROVE  Live(k) = history[b].base[k]
  <2>1. revert' # revert /\ ImporterTypeOK
    BY <1>1 DEF Reverting, JobsInv, ImporterInv
  <2>2. PICK c \in Batches : Import(c) \/ Rollbacks(c)
    BY <1>1, <2>1, OnlyImports
  <2>3. ClearJournal(b)
    BY <1>1, <2>1, <2>2, OnlyOwnClear
  <2> QED
    BY <1>1, <2>3, ClearRestores DEF JobsInv
<1>2. JobsInv /\ [JobsNext]_jobVars => [Restores]_<<storeVars, importVars>>
  BY <1>1
<1> QED
  BY <1>2, JobsInvariant, PTL DEF JobsSpec, RollbackRestores

(* A merge leaves every field alone that its file does not carry, whoever  *)
(* wrote it and whenever (MergeWrite in Import).                           *)
THEOREM MergesKeepOtherFields == JobsSpec => MergeKeepsOtherFields
<1> DEFINE Keeps ==
             \A b \in Batches, k \in Keys :
               (import[b].pc = "merge" /\ import'[b].pc # "merge" /\ k = Row(b).key) =>
                 \A f \in Fields \ FileFields(b) :
                   Live(k)'.fields[f] = (IF Live(k) = None THEN NoValue
                                         ELSE Live(k).fields[f])
<1>1. ASSUME JobsInv, [JobsNext]_jobVars, NEW b \in Batches, NEW k \in Keys,
             import[b].pc = "merge", import'[b].pc # "merge", k = Row(b).key,
             NEW f \in Fields \ FileFields(b)
      PROVE  Live(k)'.fields[f] = (IF Live(k) = None THEN NoValue ELSE Live(k).fields[f])
  <2>1. import' # import /\ ImporterTypeOK /\ TypeOK
    BY <1>1 DEF JobsInv, ImporterInv, ManagerOK, IInv
  <2>2. PICK c \in Batches : Import(c) \/ Rollbacks(c)
    BY <1>1, <2>1, OnlyImports
  <2>3. MergeRow(b)
    BY <1>1, <2>1, <2>2, OnlyOwnMerge
  <2> QED
    BY <1>1, <2>1, <2>3, MergeKeeps DEF JobsInv
<1>2. JobsInv /\ [JobsNext]_jobVars => [Keeps]_<<storeVars, importVars>>
  BY <1>1
<1> QED
  BY <1>2, JobsInvariant, PTL DEF JobsSpec, MergeKeepsOtherFields

-----------------------------------------------------------------------------
(* Expiry *)

(* An entry that was not too old when a scan was asked for and that nobody *)
(* else touches survives the scan, however long it takes (ExpireKey, whose *)
(* age is that at the time of the request).                                *)
THEOREM ScansSpareYoung == JobsSpec => []ScanSparesYoung
<1>1. JobsInv => ScanSparesYoung
  BY DEF JobsInv, ScanInv, ScanSparesYoung
<1> QED
  BY <1>1, JobsInvariant, PTL

(* When a scan ends, every entry that was too old when it began has been   *)
(* deleted, written anew or re-routed, whatever imports, writes and        *)
(* expansions did meanwhile (Scan of internal/ttl).                        *)
THEOREM ScansAreComplete == JobsSpec => ScanIsComplete
<1> DEFINE Complete == (scan.pc = "check" /\ scan'.pc = "idle") => scan.old = {}
<1>1. ASSUME JobsInv, [JobsNext]_jobVars, scan.pc = "check", scan'.pc = "idle"
      PROVE  scan.old = {}
  <2>1. Scan /\ TypeOK
    BY <1>1, OnlyScans DEF JobsInv, ManagerOK, IInv
  <2> QED
    BY <1>1, <2>1, ScanStep DEF JobsInv
<1>2. JobsInv /\ [JobsNext]_jobVars => [Complete]_<<storeVars, scan>>
  BY <1>1
<1> QED
  BY <1>2, JobsInvariant, PTL DEF JobsSpec, ScanIsComplete

-----------------------------------------------------------------------------
(* Backfills *)

(* What a retry skips as committed was written by a retry of the task,     *)
(* however requests overlap (IsCommitted and MarkCommitted).               *)
THEOREM OnlyWrittenIsCommitted == JobsSpec => []CommittedWasWritten
<1>1. JobsInv => CommittedWasWritten
  BY DEF JobsInv, BackfillInv, WrittenOK
<1> QED
  BY <1>1, JobsInvariant, PTL

(* A result adds each of its integers once to what the store holds, and    *)
(* nothing of other keys or requests, when the entry is the one it read    *)
(* and the request has not worked on the key before (writeResult).         *)
THEOREM BackfillsAddUp == JobsSpec => ResultsAddUp
<1> DEFINE Adds ==
             \A r \in Runners, k \in Keys :
               (Writes(r, k) /\ attempt[r].entry = Live(k) /\ ~Repeated(attempt[r], k)) =>
                 LET row == ResultFor(attempt[r].rows, k) IN
                 \A f \in Fields : shards'[HomeShard(k)][k].fields[f] =
                   IF Live(k) # None /\ Live(k).fields[f] \in Ints /\ row[f] \in Ints
                   THEN (Live(k).fields[f] + row[f]) % IntWidth ELSE row[f]
<1>1. ASSUME JobsInv, [JobsNext]_jobVars, NEW r \in Runners, NEW k \in Keys, Writes(r, k)
      PROVE  IF attempt[r].pc = "write" THEN WriteResult(r) ELSE InsertResult(r)
  <2>1. attempt' # attempt /\ BackfillTypeOK
    BY <1>1 DEF Writes, JobsInv, BackfillInv
  <2>2. PICK q \in Runners : BackfillStep(q)
    BY <1>1, <2>1, OnlyBackfills
  <2> QED
    BY <1>1, <2>1, <2>2, OnlyOwnWrite DEF Writes
<1>2. ASSUME JobsInv, [JobsNext]_jobVars PROVE Adds
  <2> SUFFICES ASSUME NEW r \in Runners, NEW k \in Keys, Writes(r, k),
                      attempt[r].entry = Live(k), ~Repeated(attempt[r], k),
                      NEW f \in Fields
               PROVE  LET row == ResultFor(attempt[r].rows, k) IN
                      shards'[HomeShard(k)][k].fields[f] =
                        IF Live(k) # None /\ Live(k).fields[f] \in Ints /\ row[f] \in Ints
                        THEN (Live(k).fields[f] + row[f]) % IntWidth ELSE row[f]
    OBVIOUS
  <2>1. TypeOK /\ BackfillInv /\ StoreTypeOK
    BY <1>2 DEF JobsInv, ManagerOK, IInv
  <2>2. /\ (WriteResult(r) /\ ~IsStale(k, attempt[r].ver)) \/ InsertResult(r)
        /\ k = NextKey(attempt[r])
    BY <1>1, <1>2 DEF Writes
  <2> QED
    BY <2>1, <2>2, WriteAddsUp
<1>3. JobsInv /\ [JobsNext]_jobVars => [Adds]_<<storeVars, backfillVars>>
  BY <1>2
<1> QED
  BY <1>3, JobsInvariant, PTL DEF JobsSpec, ResultsAddUp

LEMMA JobsHeld == JobsSpec => []HeldInv
<1>1. JobsInit => HeldInv
  BY DEF JobsInit, BackfillInit, HeldInv, NoAttempt
<1>2. ASSUME JobsInv, HeldInv, [JobsNext]_jobVars PROVE HeldInv'
  <2>1. CASE StoreFree /\ UNCHANGED attempt
    BY <2>1, HeldFree
  <2>2. CASE \E r \in Runners : RunBackfill(r)
    BY <1>2, <2>2, HeldStep DEF RunBackfill, Turn, JobsInv, ManagerOK, IInv
  <2>3. CASE UNCHANGED <<attempt, shards>>
    BY <1>2, <2>3 DEF HeldInv
  <2>4. CASE Expand
    BY <2>1, <2>3, <2>4 DEF Expand, ExpandRouter, ExpandStore, GrowRouter, Turn, backfillVars
  <2>5. CASE UNCHANGED jobVars
    BY <2>3, <2>5 DEF jobVars, backfillVars, storeVars
  <2> QED
    BY <1>2, <2>1, <2>2, <2>4, <2>5 DEF JobsNext, RunImport, RunScan, RunCheck, SwitchVersion,
       OnlineWrite, OnlineRead, Clock, Turn, backfillVars
<1> QED
  BY <1>1, <1>2, JobsInvariant, PTL DEF JobsSpec

(* A result that is about to be inserted because nothing was found to      *)
(* compare it with overwrites nothing, unless the router was expanded in   *)
(* between, for any number of requests beside any other jobs               *)
(* (CompareAndWrite, which holds Store.mu over both of its routes).        *)
THEOREM NothingIsOverwritten == JobsSpec => []InsertsOnlyAbsent
BY JobsHeld, HeldAbsent, PTL

(* A retry that is sent again never adds a result twice: what it writes    *)
(* has another signature than what the last retry wrote to the key, unless *)
(* two retries of the task overlapped (Retry).                             *)
THEOREM NoRetryCountsTwice == JobsSpec => RetriesCountOnce
<1> DEFINE Once ==
             \A r \in Runners, k \in Keys :
               LET a == attempt[r] IN
               (a.retry /\ Writes(r, k) /\ ~trail[a.task].overlapped) =>
                 trail[a.task].last[k] # a.sig
<1>1. ASSUME JobsInv, NEW r \in Runners, NEW k \in Keys, Writes(r, k),
             attempt[r].retry, ~trail[attempt[r].task].overlapped
      PROVE  trail[attempt[r].task].last[k] # attempt[r].sig
  <2>1. attempt[r].pc \in {"write", "insert"} /\ k = NextKey(attempt[r]) /\ BackfillInv
    BY <1>1 DEF Writes, JobsInv
  <2> QED
    BY <1>1, <2>1, WriteNotTwice
<1>2. JobsInv => [Once]_<<storeVars, backfillVars>>
  BY <1>1
<1> QED
  BY <1>2, JobsInvariant, PTL DEF JobsSpec, RetriesCountOnce

LEMMA BackfillOrNot ==
  ASSUME [JobsNext]_jobVars
  PROVE  UNCHANGED backfillVars \/ \E q \in Runners : BackfillStep(q)
BY DEF JobsNext, RunImport, RunScan, RunBackfill, RunCheck, Expand, SwitchVersion,
       OnlineWrite, OnlineRead, Clock, jobVars

LEMMA SettleKept ==
  ASSUME SettleInv, UNCHANGED backfillVars
  PROVE  SettleInv'
BY DEF backfillVars, SettleInv, Settled, OpenOf, StillRunning, RunOf, Open

LEMMA JobsSettle == JobsSpec => []SettleInv
<1>1. JobsInit => SettleInv
  BY SettleInit DEF JobsInit
<1>2. JobsInv /\ SettleInv /\ [JobsNext]_jobVars => SettleInv'
  BY BackfillOrNot, SettleKept, BackfillStepSettles DEF JobsInv, ManagerOK, IInv
<1> QED
  BY <1>1, <1>2, JobsInvariant, PTL DEF JobsSpec

(* What a task has processed and what its last run has left add up; it is  *)
(* not done while anything is left and it is once its last row has been    *)
(* processed.  An earlier run of the task that is still working counts on  *)
(* nothing (Run and its map of tasks), and a run of no rows leaves its     *)
(* task running.                                                           *)
THEOREM TasksAreSettled == JobsSpec => []TasksSettle
<1>1. ASSUME SettleInv PROVE TasksSettle
  <2> SUFFICES ASSUME NEW t \in Tasks, tasks[t] # None
               PROVE  /\ tasks[t].processed + Cardinality(OpenOf(t)) = tasks[t].total
                      /\ tasks[t].state = "done" => OpenOf(t) = {}
                      /\ tasks[t].processed > 0 /\ OpenOf(t) = {} => tasks[t].state = "done"
    BY DEF TasksSettle
  <2>1. tasks[t] \in Task /\ Settled(t)
    BY <1>1 DEF SettleInv
  <2>2. tasks[t].processed \in Nat /\ tasks[t].total \in Nat
    BY <2>1 DEF Task
  <2>3. OpenOf(t) = {} => Cardinality(OpenOf(t)) = 0
    BY FS_EmptySet
  <2> QED
    BY <2>1, <2>2, <2>3 DEF Settled
<1> QED
  BY <1>1, JobsSettle, PTL
==============================================================================
