---------------------------- MODULE StoreProofs -----------------------------
(***************************************************************************)
(* What the critical sections of Store preserve, for any keys, values and  *)
(* hash: routes stay inside the shard slice, writes touch one entry and    *)
(* the cache line of its key, and a version keeps the layout it was        *)
(* created with.                                                           *)
(***************************************************************************)
EXTENDS Store, VersionManagerProofs, WellFoundedInduction

(* A set of natural numbers has a least element: what an argument by least *)
(* counterexample, or a CHOOSE of the smallest, rests on.                  *)
LEMMA LeastNat ==
  ASSUME NEW S, S \subseteq Nat, S # {}
  PROVE  \E m \in S : \A n \in S : m <= n
<1>1. PICK m \in S : \A n \in S : ~(<<n, m>> \in OpToRel(<, Nat))
  BY NatLessThanWellFounded, WFMin DEF OpToRel
<1>2. \A n \in S : ~(n < m)
  BY <1>1 DEF OpToRel
<1> QED
  BY <1>2

-----------------------------------------------------------------------------
(* The order of versions: RankFrom recurs on fewer digits *)

(* What versionRank makes of the digits of n, if it makes g[m] of those of *)
(* smaller numbers m.                                                      *)
RankStep(g, n) ==
  [rank \in Nat |-> IF n = 0 THEN rank ELSE g[n \div 10][rank * 10 + (n % 10)]]

RanksUpTo(g, N) == \A n \in 0 .. N : g[n] = RankStep(g, n)

LEMMA FewerDigits ==
  ASSUME NEW n \in Nat, n # 0
  PROVE  n \div 10 \in 0 .. n - 1 /\ n % 10 \in 0 .. 9
OBVIOUS

LEMMA RankStepLocal ==
  ASSUME NEW g, NEW h, NEW n \in Nat, \A m \in 0 .. n - 1 : g[m] = h[m]
  PROVE  RankStep(g, n) = RankStep(h, n)
<1>1. n # 0 => g[n \div 10] = h[n \div 10]
  BY FewerDigits
<1> QED
  BY <1>1 DEF RankStep

LEMMA RanksExist ==
  ASSUME NEW N \in Nat
  PROVE  \E g : RanksUpTo(g, N)
<1> DEFINE S == {n \in Nat : ~ \E g : RanksUpTo(g, n)}
<1> SUFFICES ASSUME S # {} PROVE FALSE
  OBVIOUS
<1>1. PICK m \in S : \A n \in S : m <= n
  BY LeastNat
<1>2. \E g : \A n \in 0 .. m - 1 : g[n] = RankStep(g, n)
  <2>1. CASE m = 0
    BY <2>1
  <2>2. CASE m # 0
    <3>1. m - 1 \in Nat /\ m - 1 \notin S
      BY <1>1, <2>2
    <3> QED
      BY <3>1 DEF RanksUpTo
  <2> QED
    BY <2>1, <2>2
<1>3. PICK g : \A n \in 0 .. m - 1 : g[n] = RankStep(g, n)
  BY <1>2
<1> DEFINE h == [n \in 0 .. m |-> IF n = m THEN RankStep(g, m) ELSE g[n]]
<1>4. \A n \in 0 .. m - 1 : h[n] = g[n]
  BY <1>1
<1>5. h[m] = RankStep(g, m)
  BY <1>1
<1> HIDE DEF h
<1>6. ASSUME NEW n \in 0 .. m PROVE h[n] = RankStep(h, n)
  <2>1. n \in Nat /\ \A i \in 0 .. n - 1 : h[i] = g[i]
    BY <1>1, <1>4
  <2>2. RankStep(h, n) = RankStep(g, n)
    BY <2>1, RankStepLocal
  <2>3. h[n] = RankStep(g, n)
    BY <1>1, <1>3, <1>4, <1>5
  <2> QED
    BY <2>2, <2>3
<1> QED
  BY <1>1, <1>6 DEF RanksUpTo

LEMMA RanksUnique ==
  ASSUME NEW N \in Nat, NEW g, RanksUpTo(g, N), NEW h, RanksUpTo(h, N), NEW n \in 0 .. N
  PROVE  g[n] = h[n]
<1> DEFINE S == {i \in 0 .. N : g[i] # h[i]}
<1> SUFFICES ASSUME S # {} PROVE FALSE
  OBVIOUS
<1>0. S \subseteq Nat
  OBVIOUS
<1>1. PICK m \in S : \A i \in S : m <= i
  <2> HIDE DEF S
  <2> QED
    BY <1>0, LeastNat
<1>2. m \in Nat /\ \A i \in 0 .. m - 1 : g[i] = h[i]
  BY <1>1
<1>3. RankStep(g, m) = RankStep(h, m)
  BY <1>2, RankStepLocal
<1> QED
  BY <1>1, <1>3 DEF RanksUpTo

(* The recursive definition of RankFrom has a solution, so RankFrom is it. *)
LEMMA RankFromDef == RankFrom = [n \in Nat |-> RankStep(RankFrom, n)]
<1> DEFINE R(N) == CHOOSE g : RanksUpTo(g, N)
           f == [n \in Nat |-> R(n)[n]]
<1>1. \A N \in Nat : RanksUpTo(R(N), N)
  BY RanksExist
<1>2. \A N \in Nat : \A n \in 0 .. N : f[n] = R(N)[n]
  <2> SUFFICES ASSUME NEW N \in Nat, NEW n \in 0 .. N PROVE R(n)[n] = R(N)[n]
    OBVIOUS
  <2>1. n \in Nat /\ RanksUpTo(R(n), n) /\ RanksUpTo(R(N), N) /\ n \in 0 .. n
    BY <1>1
  <2> HIDE DEF R
  <2>2. RanksUpTo(R(N), n)
    BY <2>1 DEF RanksUpTo
  <2> QED
    BY <2>1, <2>2, RanksUnique
<1> HIDE DEF R, f
<1>3. ASSUME NEW n \in Nat PROVE f[n] = RankStep(f, n)
  <2>1. R(n)[n] = RankStep(R(n), n) /\ f[n] = R(n)[n]
    BY <1>1, <1>2 DEF RanksUpTo
  <2>2. \A i \in 0 .. n - 1 : f[i] = R(n)[i]
    BY <1>2
  <2>3. RankStep(f, n) = RankStep(R(n), n)
    BY <2>2, RankStepLocal
  <2> QED
    BY <2>1, <2>3
<1>4. f = [n \in Nat |-> RankStep(f, n)]
  BY <1>3 DEF f
<1> QED
  BY <1>4 DEF RankFrom, RankStep

LEMMA RankFromAt ==
  ASSUME NEW n \in Nat, NEW rank \in Nat
  PROVE  RankFrom[n][rank] =
           IF n = 0 THEN rank ELSE RankFrom[n \div 10][rank * 10 + (n % 10)]
<1>1. RankFrom[n] = RankStep(RankFrom, n)
  BY RankFromDef
<1> QED
  BY <1>1 DEF RankStep

LEMMA RankFromType == \A n, rank \in Nat : RankFrom[n][rank] \in Nat
<1> DEFINE S == {n \in Nat : \E rank \in Nat : RankFrom[n][rank] \notin Nat}
<1> SUFFICES ASSUME S # {} PROVE FALSE
  OBVIOUS
<1>1. PICK m \in S : \A n \in S : m <= n
  BY LeastNat
<1>2. PICK rank \in Nat : RankFrom[m][rank] \notin Nat
  BY <1>1
<1>3. m \in Nat /\ m # 0
  BY <1>1, <1>2, RankFromAt
<1>4. m \div 10 \in Nat /\ m \div 10 \notin S /\ rank * 10 + (m % 10) \in Nat
  BY <1>1, <1>3, FewerDigits
<1>5. RankFrom[m \div 10][rank * 10 + (m % 10)] \in Nat
  BY <1>4
<1> QED
  BY <1>2, <1>3, <1>5, RankFromAt

(* The order of version numbers below ten is the order of their creation. *)
LEMMA RankBelowTen ==
  ASSUME NEW n \in 0 .. 9
  PROVE  VersionRank(n) = n
<1>1. CASE n = 0
  BY <1>1, RankFromAt DEF VersionRank
<1>2. CASE n # 0
  <2>1. n \div 10 = 0 /\ 0 * 10 + (n % 10) = n
    BY <1>2
  <2>2. RankFrom[n][0] = RankFrom[0][n]
    BY <1>2, <2>1, RankFromAt
  <2>3. RankFrom[0][n] = n
    BY RankFromAt
  <2> QED
    BY <2>2, <2>3 DEF VersionRank
<1> QED
  BY <1>1, <1>2

LEMMA TrailingZeroLost ==
  ASSUME NEW n \in Nat \ {0}
  PROVE  VersionRank(10 * n) = VersionRank(n)
<1>1. 10 * n \in Nat /\ 10 * n # 0 /\ (10 * n) \div 10 = n /\ 0 * 10 + ((10 * n) % 10) = 0
  OBVIOUS
<1>2. RankFrom[10 * n][0] = RankFrom[(10 * n) \div 10][0 * 10 + ((10 * n) % 10)]
  BY <1>1, RankFromAt
<1> QED
  BY <1>1, <1>2 DEF VersionRank

(* The order in which CompareAndWrite compares version numbers is that of  *)
(* their creation as long as they have one digit, the empty id (0) being   *)
(* the oldest (versionNewer and versionRank).                              *)
THEOREM OrderedBelowTen == \A m, n \in 0 .. 9 : VersionNewer(m, n) <=> m > n
BY RankBelowTen DEF VersionNewer

(* Beyond, versionRank does not keep the order: over an entry stored under *)
(* v<10n>, a write under v<n> is accepted, as every trailing zero is lost. *)
THEOREM TenfoldNotNewer == \A n \in Nat \ {0} : ~VersionNewer(10 * n, n)
<1> SUFFICES ASSUME NEW n \in Nat \ {0} PROVE ~VersionNewer(10 * n, n)
  OBVIOUS
<1>1. VersionRank(10 * n) = VersionRank(n)
  BY TrailingZeroLost
<1>2. VersionRank(n) \in Nat
  BY RankFromType DEF VersionRank
<1> HIDE DEF VersionRank
<1> QED
  BY <1>1, <1>2 DEF VersionNewer

-----------------------------------------------------------------------------
(* Routing *)

LEMMA RouteFacts ==
  ASSUME StoreTypeOK, NEW k \in Keys
  PROVE  /\ Route(k) \in Nat /\ Route(k) < routerShards
         /\ HomeShard(k) \in ShardIDs /\ HomeShard(k) < shardLen
         /\ Route(k) < shardLen => HomeShard(k) = Route(k) /\ Route(k) \in ShardIDs
<1>1. /\ routerShards \in Nat /\ routerShards >= 1
      /\ shardLen \in Nat /\ shardLen >= 1 /\ shardLen <= MaxShards /\ MaxShards \in Nat
      /\ Hash[k] \in Nat
  BY StoreAssumption DEF StoreTypeOK
<1>2. Hash[k] % routerShards \in 0 .. routerShards - 1
  BY <1>1
<1> QED
  BY <1>1, <1>2 DEF Route, HomeShard, ShardIDs

LEMMA LiveType ==
  ASSUME StoreTypeOK, NEW k \in Keys
  PROVE  Live(k) \in Entry \cup {None}
BY RouteFacts DEF Live, StoreTypeOK

LEMMA EmptyLineType == EmptyCacheLine \in [VersionRefs -> Snapshot \cup {None}]
BY DEF EmptyCacheLine

-----------------------------------------------------------------------------
(* Writers *)

LEMMA PutEntryStep ==
  ASSUME StoreTypeOK, NEW k \in Keys, NEW e \in Entry \cup {None}, PutEntry(k, e)
  PROVE  /\ StoreTypeOK'
         /\ routerShards' = routerShards /\ shardLen' = shardLen
         /\ \A j \in Keys : HomeShard(j)' = HomeShard(j)
         /\ Live(k)' = e
         /\ \A j \in Keys \ {k} : Live(j)' = Live(j)
         /\ cache'[k] = EmptyCacheLine
         /\ \A j \in Keys \ {k} : cache'[j] = cache[j]
         /\ \A i \in ShardIDs, j \in Keys :
              i # HomeShard(k) \/ j # k => shards'[i][j] = shards[i][j]
<1> DEFINE h == HomeShard(k)
<1>1. /\ shards' = [shards EXCEPT ![h] = [shards[h] EXCEPT ![k] = e]]
      /\ cache' = [cache EXCEPT ![k] = EmptyCacheLine]
      /\ routerShards' = routerShards /\ shardLen' = shardLen
  BY DEF PutEntry, InvalidateEntity
<1>2. h \in ShardIDs
  BY RouteFacts
<1>3. /\ shards \in [ShardIDs -> [Keys -> Entry \cup {None}]]
      /\ cache \in [Keys -> [VersionRefs -> Snapshot \cup {None}]]
  BY DEF StoreTypeOK
<1>4. \A j \in Keys : HomeShard(j)' = HomeShard(j)
  BY <1>1 DEF HomeShard, Route
<1>5. shards' \in [ShardIDs -> [Keys -> Entry \cup {None}]]
  BY <1>1, <1>2, <1>3
<1>6. cache' \in [Keys -> [VersionRefs -> Snapshot \cup {None}]]
  BY <1>1, <1>3, EmptyLineType
<1>7. \A i \in ShardIDs, j \in Keys :
        shards'[i][j] = IF i = h /\ j = k THEN e ELSE shards[i][j]
  BY <1>1, <1>2, <1>3
<1>8. \A j \in Keys : Live(j)' = IF j = k THEN e ELSE Live(j)
  <2> TAKE j \in Keys
  <2>1. HomeShard(j) \in ShardIDs /\ Live(j)' = shards'[HomeShard(j)][j]
    BY <1>4, RouteFacts DEF Live
  <2> QED
    BY <2>1, <1>7 DEF Live
<1>9. /\ cache'[k] = EmptyCacheLine
      /\ \A j \in Keys \ {k} : cache'[j] = cache[j]
  BY <1>1, <1>3
<1>10. StoreTypeOK'
  BY <1>1, <1>5, <1>6 DEF StoreTypeOK
<1> QED
  BY <1>1, <1>4, <1>7, <1>8, <1>9, <1>10

LEMMA MergedType ==
  ASSUME NEW e \in Entry \cup {None}, NEW fields \in FieldMap, NEW window,
         NEW v \in VersionRefs, now \in 0 .. MaxTime
  PROVE  Merged(e, fields, window, v) \in Entry
<1> DEFINE old == IF e = None THEN NoFields ELSE e.fields
<1>1. old \in FieldMap
  BY DEF Entry, NoFields, FieldMap
<1>2. [f \in Fields |-> IF f \in window THEN fields[f] ELSE old[f]] \in FieldMap
  BY <1>1 DEF FieldMap
<1> QED
  BY <1>2 DEF Merged, Entry

(* What ExpandShards and Router.ExpandShards do to the shards.             *)
LEMMA GrowShardsStep ==
  ASSUME StoreTypeOK, NEW n \in 1 .. MaxShards, GrowShards(n)
  PROVE  /\ StoreTypeOK'
         /\ routerShards' = routerShards /\ cache' = cache
         /\ shardLen' = IF n <= shardLen THEN shardLen ELSE n
         /\ \A i \in 0 .. shardLen - 1 : shards'[i] = shards[i]
<1>1. /\ shardLen' = IF n <= shardLen THEN shardLen ELSE n
      /\ shards' = [i \in ShardIDs |->
                      IF i < shardLen' THEN shards[i] ELSE [k \in Keys |-> None]]
      /\ routerShards' = routerShards /\ cache' = cache
  BY DEF GrowShards, NewShardLen
<1>2. /\ shards \in [ShardIDs -> [Keys -> Entry \cup {None}]]
      /\ shardLen \in 1 .. MaxShards /\ MaxShards \in Nat
  BY StoreAssumption DEF StoreTypeOK
<1>3. shards' \in [ShardIDs -> [Keys -> Entry \cup {None}]]
  BY <1>1, <1>2
<1>4. \A i \in 0 .. shardLen - 1 : i \in ShardIDs /\ i < shardLen'
  BY <1>1, <1>2 DEF ShardIDs
<1> QED
  BY <1>1, <1>2, <1>3, <1>4 DEF StoreTypeOK

LEMMA GrowRouterStep ==
  ASSUME StoreTypeOK, NEW n \in 1 .. MaxShards, GrowRouter(n)
  PROVE  /\ StoreTypeOK'
         /\ routerShards' = n /\ routerShards' >= routerShards
         /\ shardLen' = shardLen /\ shards' = shards /\ cache' = cache
BY StoreAssumption DEF StoreTypeOK, GrowRouter

-----------------------------------------------------------------------------
(* Cache *)

LEMMA CachePutStep ==
  ASSUME StoreTypeOK, NEW k \in Keys, NEW v \in VersionRefs, NEW snap \in Snapshot,
         CachePut(k, v, snap)
  PROVE  /\ StoreTypeOK'
         /\ routerShards' = routerShards /\ shardLen' = shardLen /\ shards' = shards
         /\ \A j \in Keys, u \in VersionRefs :
              cache'[j][u] = IF j = k /\ u = v THEN snap ELSE cache[j][u]
<1>1. /\ cache \in [Keys -> [VersionRefs -> Snapshot \cup {None}]]
      /\ cache' = [cache EXCEPT ![k] = [cache[k] EXCEPT ![v] = snap]]
      /\ routerShards' = routerShards /\ shardLen' = shardLen /\ shards' = shards
  BY DEF StoreTypeOK, CachePut
<1>2. cache' \in [Keys -> [VersionRefs -> Snapshot \cup {None}]]
  BY <1>1
<1>3. \A j \in Keys, u \in VersionRefs :
        cache'[j][u] = IF j = k /\ u = v THEN snap ELSE cache[j][u]
  BY <1>1
<1> QED
  BY <1>1, <1>2, <1>3 DEF StoreTypeOK

LEMMA ClearCacheStep ==
  ASSUME StoreTypeOK, ClearCache
  PROVE  /\ StoreTypeOK'
         /\ routerShards' = routerShards /\ shardLen' = shardLen /\ shards' = shards
         /\ \A k \in Keys : cache'[k] = EmptyCacheLine
BY EmptyLineType DEF StoreTypeOK, ClearCache

-----------------------------------------------------------------------------
(* Versions as the store sees them *)

Known(v) == v \in VersionIDs \/ v = Nil

ManagerOK == IInv /\ Len(versions) <= MaxVersions

LEMMA KnownRefs ==
  ASSUME ManagerOK, NEW v, Known(v)
  PROVE  v \in VersionRefs
BY VersionsDomain, BoundsAssumption DEF ManagerOK, IInv, Known, VersionRefs, Nil

LEMMA ResolvesKnown ==
  ASSUME ManagerOK
  PROVE  Known(ResolveActive)
<1>1. active \in 0 .. Len(versions) /\ VersionIDs = 1 .. Len(versions) /\ Len(versions) \in Nat
  BY VersionsDomain DEF ManagerOK, IInv, TypeOK
<1> QED
  BY <1>1 DEF ResolveActive, Known, Nil

LEMMA ManagerStep ==
  ASSUME ManagerOK, [Next]_versionVars
  PROVE  ManagerOK'
<1>1. IInv'
  BY NextIInv DEF ManagerOK
<1>2. Len(versions) \in Nat /\ MaxVersions \in Nat
  BY VersionsDomain, BoundsAssumption DEF ManagerOK, IInv
<1>3. ASSUME NEW t \in Tables, NEW fs \in Schemas[t], Create(t, fs)
      PROVE  Len(versions') <= MaxVersions
  BY <1>2, <1>3, CreateStep DEF ManagerOK, IInv, Create
<1>4. ASSUME NEW id \in VersionIDs, Publish(id) PROVE Len(versions') <= MaxVersions
  BY <1>4, PublishStep DEF ManagerOK, IInv
<1>5. ASSUME NEW id \in VersionIDs, Rollback(id) PROVE Len(versions') <= MaxVersions
  BY <1>5, RollbackStep DEF ManagerOK, IInv
<1>6. CASE Tick \/ UNCHANGED versionVars
  BY <1>1, <1>6 DEF Tick, versionVars, ManagerOK
<1> QED
  BY <1>1, <1>3, <1>4, <1>5, <1>6 DEF Next, ManagerOK

(* A version shows the fields it was created with, whatever is published,  *)
(* rolled back or created after it.                                        *)
LEMMA LayoutKept ==
  ASSUME ManagerOK, [Next]_versionVars, NEW v, Known(v)
  PROVE  Known(v)' /\ Layout(v)' = Layout(v)
<1>1. Nil \notin VersionIDs /\ Nil \notin VersionIDs'
  <2>1. versions \in Seq(Version) /\ versions' \in Seq(Version)
    BY ManagerStep DEF ManagerOK, IInv, TypeOK
  <2> QED
    BY <2>1, LenProperties DEF VersionIDs, Nil
<1>2. CASE v = Nil
  BY <1>1, <1>2 DEF Known, Layout
<1>3. CASE v \in VersionIDs
  <2>1. ASSUME v \in VersionIDs', versions'[v].fields = versions[v].fields
        PROVE  Known(v)' /\ Layout(v)' = Layout(v)
    BY <1>3, <2>1 DEF Known, Layout
  <2>2. ASSUME NEW w \in Version, NEW to
        PROVE  Transition(w, to).fields = w.fields
    BY DEF Transition, Version
  <2>3. versions[v] \in Version
    BY <1>3, VersionsDomain DEF ManagerOK, IInv
  <2>4. ASSUME NEW t \in Tables, NEW fs \in Schemas[t], Create(t, fs)
        PROVE  Known(v)' /\ Layout(v)' = Layout(v)
    BY <1>3, <2>1, <2>4, CreateStep, VersionsDomain DEF ManagerOK, IInv
  <2>5. ASSUME NEW id \in VersionIDs, Publish(id)
        PROVE  Known(v)' /\ Layout(v)' = Layout(v)
    <3>1. VersionIDs' = VersionIDs
      BY <2>5, PublishStep DEF ManagerOK, IInv
    <3>2. versions'[v] = IF v = id THEN Published(versions[v])
                         ELSE IF v = active THEN Supersede(versions[v])
                         ELSE versions[v]
      BY <1>3, <2>5 DEF Publish
    <3>3. Published(versions[v]).fields = versions[v].fields
      BY <2>2, <2>3 DEF Published, Transition, Version
    <3>4. Supersede(versions[v]).fields = versions[v].fields
      BY <2>2, <2>3 DEF Supersede
    <3> QED
      BY <1>3, <2>1, <3>1, <3>2, <3>3, <3>4
  <2>6. ASSUME NEW id \in VersionIDs, Rollback(id)
        PROVE  Known(v)' /\ Layout(v)' = Layout(v)
    <3>1. VersionIDs' = VersionIDs
      BY <2>6, RollbackStep DEF ManagerOK, IInv
    <3>2. \E to : versions'[v] \in {versions[v], Transition(versions[v], to)}
      BY <1>3, <2>6 DEF Rollback
    <3> QED
      BY <1>3, <2>1, <2>2, <2>3, <3>1, <3>2
  <2>7. CASE Tick \/ UNCHANGED versionVars
    BY <1>3, <2>1, <2>7 DEF Tick, versionVars, VersionIDs
  <2> QED
    BY <2>4, <2>5, <2>6, <2>7 DEF Next
<1> QED
  BY <1>2, <1>3 DEF Known

LEMMA FilteredType ==
  ASSUME NEW fields \in FieldMap, NEW v
  PROVE  /\ Filtered(fields, v) \in FieldMap
         /\ \A f \in Fields \ Layout(v) : Filtered(fields, v)[f] = NoValue
BY DEF Filtered, FieldMap

LEMMA ViewType ==
  ASSUME NEW e \in Entry \cup {None}, NEW v \in VersionRefs
  PROVE  View(e, v) \in Snapshot
BY FilteredType DEF View, EmptySnapshot, NoFields, Snapshot, FieldMap, Entry

-----------------------------------------------------------------------------
(* main's state is one that calls of the manager can reach.                *)
LEMMA BootOK ==
  ASSUME Boot
  PROVE  ManagerOK /\ StoreTypeOK
<1> DEFINE v1 == [table |-> BootTable, state |-> "published", parent |-> Nil,
                  fields |-> Seed[BootTable], publishedAt |-> 1]
           v2 == [table |-> DraftTable, state |-> "draft", parent |-> Nil,
                  fields |-> Seed[DraftTable], publishedAt |-> ZeroTime]
<1>1. versions = <<v1, v2>> /\ active = 1 /\ now = 1
  BY DEF Boot
<1>2. v1 \in Version /\ v2 \in Version
  BY BootAssumption DEF Version, VersionState, Nil, ZeroTime
<1>3. /\ versions \in Seq(Version) /\ Len(versions) = 2 /\ VersionIDs = {1, 2}
      /\ versions[1] = v1 /\ versions[2] = v2
  BY <1>1, <1>2 DEF VersionIDs
<1>4. \A t \in Tables : lastByTable[t] = IF t = BootTable THEN 1
                                         ELSE IF t = DraftTable THEN 2 ELSE Nil
  BY BootAssumption DEF Boot
<1>5. TypeOK
  <2>1. lastByTable \in [Tables -> 0 .. Len(versions)]
    BY <1>3, BootAssumption DEF Boot, Nil
  <2> QED
    BY <1>1, <1>3, <2>1, BoundsAssumption DEF TypeOK, ZeroTime
<1>6. LineageOK
  BY <1>3, <1>4, BootAssumption DEF LineageOK, IsLastOf, Nil
<1>7. ActiveSelectable /\ PublishedIsActive /\ ActiveLostOnlyByRollback
  BY <1>1, <1>3 DEF ActiveSelectable, PublishedIsActive, ActiveLostOnlyByRollback,
                    ResolveActive, Nil
<1>8. UndatedOnlyByRollback /\ DraftsUndated
  BY <1>3 DEF UndatedOnlyByRollback, DraftsUndated, ZeroTime
<1>9. StoreTypeOK
  BY StoreAssumption, EmptyLineType DEF Boot, StoreInit, StoreTypeOK
<1> QED
  BY <1>3, <1>5, <1>6, <1>7, <1>8, <1>9, BootAssumption DEF IInv, ManagerOK
=============================================================================
