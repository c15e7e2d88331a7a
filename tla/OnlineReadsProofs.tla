------------------------- MODULE OnlineReadsProofs --------------------------
(***************************************************************************)
(* The safety properties of the running server, for any clients, requests, *)
(* keys, hash and shard counts.  One inductive invariant per concern, each *)
(* proved action by action on top of the ones before it: types and what a  *)
(* handler has in hand, layouts, shard counts, and what a handler that was *)
(* not overtaken knows about the entry it has read.                        *)
(***************************************************************************)
EXTENDS OnlineReads, StoreProofs

-----------------------------------------------------------------------------
(* Steps of a handler *)

LEMMA IdleType == Idle \in Locals
BY BoundsAssumption, StoreAssumption
   DEF Idle, Locals, VersionRefs, Nil, ZeroTime, Detached

LEMMA LiveMapType ==
  ASSUME NEW fields \in FieldMap
  PROVE  LiveMap(fields) \in FieldHistory
BY DEF LiveMap, FieldMap, FieldHistory

LEMMA MergedIntoType ==
  ASSUME NEW map \in FieldHistory, NEW fields \in FieldMap
  PROVE  MergedInto(map, fields) \in FieldHistory
BY DEF MergedInto, FieldMap, FieldHistory

LEMMA GotoStep ==
  ASSUME ServerTypeOK, NEW c \in Clients, NEW label \in Labels, NEW locals \in Locals,
         Goto(c, label, locals)
  PROVE  /\ pc' \in [Clients -> Labels] /\ req' \in [Clients -> Locals]
         /\ pc'[c] = label /\ req'[c] = locals
         /\ \A q \in Clients \ {c} : pc'[q] = pc[q] /\ req'[q] = req[q]
BY DEF ServerTypeOK, Goto

TypeInv == ManagerOK /\ ServerTypeOK

(* What stays of a request whatever happens to the entry it has read.      *)
SameRequest(t, r) ==
  /\ t.key = r.key /\ t.ver = r.ver /\ t.snap = r.snap
  /\ t.at = r.at /\ t.shards = r.shards /\ t.before = r.before

SameHook(t, r) ==
  /\ t.map = r.map /\ t.former = r.former /\ t.ids = r.ids
  /\ t.home = r.home /\ t.merged = r.merged

(* An update of the store under another handler's feet alters only what    *)
(* that handler remembers of its entry.                                    *)
LEMMA TouchedStep ==
  ASSUME TypeInv, NEW q \in Clients, NEW k \in Keys, NEW op, NEW t,
         t = Touched(q, k, op),
         HomeShard(k)' \in ShardIDs, Live(k)' \in Entry \cup {None},
         HomeShard(k)' = HomeShard(k)
  PROVE  /\ t \in Locals /\ SameRequest(t, req[q])
         /\ t = req[q] \/ (InFlight(q) /\ req[q].key = k /\ t.raced)
         /\ pc[q] # "copy" => SameHook(t, req[q])
         /\ pc[q] = "copy" => t.map # None /\ t.ids # {}
<1> DEFINE r == req[q]
           entry == shards'[HomeShard(k)][k]
<1>1. r \in Locals /\ LocalsFit(pc[q], r)
  BY DEF TypeInv, ServerTypeOK
<1>2. Detached \notin ShardIDs /\ HomeShard(k) \in ShardIDs
  BY StoreAssumption DEF Detached, ShardIDs
<1>3. entry \in Entry \cup {None}
  BY DEF Live
<1>4. None \notin FieldHistory
  BY ServerAssumption
<1>5. CASE ~(InFlight(q) /\ r.key = k)
  BY <1>1, <1>5 DEF Touched, LocalsFit, SameRequest, SameHook
<1>6. CASE InFlight(q) /\ r.key = k /\ r.home # HomeShard(k)
  <2>1. t = [r EXCEPT !.raced = TRUE]
    BY <1>6 DEF Touched
  <2>2. t = [r EXCEPT !.raced = TRUE, !.home = r.home] /\ r.home \in ShardIDs \cup {Detached}
    BY <1>1, <2>1 DEF Locals
  <2> HIDE DEF r
  <2>3. /\ t \in Locals /\ SameRequest(t, r) /\ t.raced
        /\ t.map = r.map /\ t.former = r.former /\ t.merged = r.merged /\ t.ids = r.ids
        /\ t.home = r.home
    BY <1>1, <2>2 DEF Locals, SameRequest
  <2> QED
    BY <1>1, <1>6, <2>3 DEF LocalsFit, SameHook, r
<1>7. CASE /\ InFlight(q) /\ r.key = k /\ r.home = HomeShard(k)
           /\ entry = None \/ op = "insert"
  <2>1. t = [r EXCEPT !.raced = TRUE, !.home = Detached]
    BY <1>7 DEF Touched
  <2>2. pc[q] = "copy"
    BY <1>1, <1>2, <1>7 DEF LocalsFit, Unhooked
  <2> HIDE DEF r
  <2>3. /\ t \in Locals /\ SameRequest(t, r) /\ t.raced /\ t.map = r.map /\ t.ids = r.ids
    BY <1>1, <1>2, <2>1 DEF Locals, SameRequest
  <2> QED
    BY <1>1, <1>7, <2>2, <2>3 DEF LocalsFit, r
<1>8. CASE /\ InFlight(q) /\ r.key = k /\ r.home = HomeShard(k)
           /\ entry # None /\ op # "insert"
  <2>1. entry.fields \in FieldMap /\ entry.version \in VersionRefs
    BY <1>3, <1>8 DEF Entry
  <2>2. pc[q] = "copy" /\ r.map \in FieldHistory
    BY <1>1, <1>2, <1>8 DEF Unhooked, LocalsFit, Locals
  <2>3. LiveMap(entry.fields) \in FieldHistory /\ MergedInto(r.map, entry.fields) \in FieldHistory
    BY <2>1, <2>2, LiveMapType, MergedIntoType
  <2>4. /\ r.former \in SUBSET FieldHistory /\ r.former \cup {r.map} \in SUBSET FieldHistory
        /\ r.ids \cup {entry.version} \in SUBSET VersionRefs
    BY <1>1, <2>1, <2>2 DEF Locals
  <2>5. PICK map \in FieldHistory, former \in SUBSET FieldHistory, merged \in BOOLEAN :
          t = [r EXCEPT !.raced = TRUE, !.map = map, !.former = former, !.merged = merged,
                        !.ids = r.ids \cup {entry.version}]
    <3>1. CASE op = "merge"
      <4>1. t = [r EXCEPT !.raced = TRUE, !.map = MergedInto(r.map, entry.fields),
                          !.former = r.former, !.merged = TRUE,
                          !.ids = r.ids \cup {entry.version}]
        BY <1>1, <1>8, <3>1 DEF Touched, Locals
      <4> QED
        BY <4>1, <2>3, <2>4
    <3>2. CASE op # "merge"
      <4>1. t = [r EXCEPT !.raced = TRUE, !.map = LiveMap(entry.fields),
                          !.former = r.former \cup {r.map}, !.merged = r.merged,
                          !.ids = r.ids \cup {entry.version}]
        BY <1>1, <1>8, <3>2 DEF Touched, Locals
      <4>2. r.merged \in BOOLEAN
        BY <1>1 DEF Locals
      <4> QED
        BY <4>1, <4>2, <2>3, <2>4
    <3> QED
      BY <3>1, <3>2
  <2> HIDE DEF r, entry
  <2>6. /\ t \in Locals /\ SameRequest(t, r) /\ t.raced
        /\ t.map = map /\ t.ids = r.ids \cup {entry.version}
    BY <1>1, <2>4, <2>5 DEF Locals, SameRequest
  <2> QED
    BY <1>4, <1>8, <2>2, <2>6 DEF r
<1> QED
  BY <1>5, <1>6, <1>7, <1>8

-----------------------------------------------------------------------------
(* Types *)

LEMMA GotoTypeInv ==
  ASSUME TypeInv, NEW c \in Clients, NEW label \in Labels, NEW locals \in Locals,
         LocalsFit(label, locals), Goto(c, label, locals),
         ManagerOK', StoreTypeOK', leaked' \in BOOLEAN
  PROVE  TypeInv'
<1>1. /\ pc' \in [Clients -> Labels] /\ req' \in [Clients -> Locals]
      /\ pc'[c] = label /\ req'[c] = locals
      /\ \A q \in Clients \ {c} : pc'[q] = pc[q] /\ req'[q] = req[q]
  BY GotoStep DEF TypeInv
<1>2. \A q \in Clients : LocalsFit(pc[q], req[q])
  BY DEF TypeInv, ServerTypeOK
<1>3. \A q \in Clients : LocalsFit(pc'[q], req'[q])
  BY <1>1, <1>2
<1> QED
  BY <1>1, <1>3 DEF TypeInv, ServerTypeOK

LEMMA Untouched ==
  ASSUME TypeInv
  PROVE  /\ UNCHANGED versionVars => ManagerOK'
         /\ UNCHANGED storeVars => StoreTypeOK'
         /\ leaked \in BOOLEAN
<1>1. UNCHANGED versionVars => ManagerOK'
  BY ManagerStep DEF TypeInv
<1>2. UNCHANGED storeVars => StoreTypeOK'
  BY DEF TypeInv, ServerTypeOK, StoreTypeOK, storeVars
<1> QED
  BY <1>1, <1>2 DEF TypeInv, ServerTypeOK

LEMMA InHand ==
  ASSUME TypeInv, NEW c \in Clients
  PROVE  /\ req[c] \in Locals /\ pc[c] \in Labels /\ LocalsFit(pc[c], req[c])
         /\ pc[c] \in {"get", "lookup", "copy", "put", "done", "write", "merge",
                       "compare", "insert", "delete"} => req[c].key \in Keys
         /\ pc[c] \in {"put", "done"} => req[c].snap \in Snapshot
         /\ pc[c] \in {"route", "report", "grow"} => req[c].shards \in 1 .. MaxShards
<1>1. req[c] \in Locals /\ pc[c] \in Labels /\ LocalsFit(pc[c], req[c])
  BY DEF TypeInv, ServerTypeOK
<1> QED
  BY <1>1, StoreAssumption DEF LocalsFit, Locals

LEMMA IdleTypeInv ==
  ASSUME TypeInv, NEW c \in Clients, Goto(c, "idle", Idle),
         ManagerOK', StoreTypeOK', leaked' \in BOOLEAN
  PROVE  TypeInv'
<1>1. LocalsFit("idle", Idle)
  BY DEF LocalsFit, Unhooked, Idle
<1> QED
  BY <1>1, IdleType, GotoTypeInv DEF Labels

LEMMA StartTypeInv ==
  ASSUME TypeInv, NEW c \in Clients, NEW k \in Keys,
         StartRead(c, k) \/ (\E op \in Ops : StartUpdate(c, op, k))
  PROVE  TypeInv'
<1>1. k # None
  BY ServerAssumption
<1>2. now \in 0 .. MaxTime /\ ResolveActive \in VersionRefs
  BY KnownRefs, ResolvesKnown, BoundsAssumption DEF TypeInv, ManagerOK, IInv, TypeOK
<1>3. CASE StartRead(c, k)
  <2> DEFINE locals == [Idle EXCEPT !.key = k, !.ver = ResolveActive]
  <2>1. locals \in Locals /\ LocalsFit("get", locals)
    BY <1>1, <1>2, IdleType DEF Locals, LocalsFit, Unhooked, Idle
  <2> QED
    BY <1>3, <2>1, GotoTypeInv, Untouched DEF StartRead, Start, Labels
<1>4. ASSUME NEW op \in Ops, StartUpdate(c, op, k) PROVE TypeInv'
  <2> DEFINE locals == [Idle EXCEPT !.key = k, !.at = IF op = "write" THEN now ELSE ZeroTime]
  <2>1. op \in {"write", "merge", "compare", "delete"}
    BY <1>4 DEF StartUpdate
  <2>2. locals \in Locals /\ LocalsFit(op, locals)
    BY <1>1, <1>2, <2>1, IdleType, BoundsAssumption
       DEF Locals, LocalsFit, Unhooked, Idle, ZeroTime
  <2> QED
    BY <1>4, <2>1, <2>2, GotoTypeInv, Untouched DEF StartUpdate, Start, Labels, LockWaiters
<1> QED
  BY <1>3, <1>4

LEMMA ReadTypeInv ==
  ASSUME TypeInv, NEW c \in Clients,
         \/ GetCached(c) \/ LookupAbsent(c) \/ LookupEntry(c) \/ LookupPanic(c)
         \/ CopyEntry(c) \/ PutCached(c) \/ Respond(c)
  PROVE  TypeInv'
<1> DEFINE r == req[c]
<1>1. r \in Locals /\ LocalsFit(pc[c], r)
  BY InHand
<1>2. CASE GetCached(c)
  <2>1. r.key \in Keys /\ r.ver \in VersionRefs
    BY <1>1, <1>2, InHand DEF GetCached, Locals
  <2>2. CASE CacheHit(r.key, r.ver)
    <3> DEFINE locals == [r EXCEPT !.snap = cache[r.key][r.ver]]
    <3>1. cache[r.key][r.ver] \in Snapshot
      BY <2>1, <2>2 DEF CacheHit, TypeInv, ServerTypeOK, StoreTypeOK
    <3>2. locals \in Locals /\ LocalsFit("done", locals)
      BY <1>1, <1>2, <3>1, StoreAssumption DEF GetCached, Locals, LocalsFit, Unhooked
    <3> QED
      BY <1>2, <2>2, <3>2, GotoTypeInv, Untouched DEF GetCached, Labels
  <2>3. CASE ~CacheHit(r.key, r.ver)
    <3>1. LocalsFit("lookup", r)
      BY <1>1, <1>2 DEF GetCached, LocalsFit
    <3> QED
      BY <1>1, <1>2, <2>3, <3>1, GotoTypeInv, Untouched DEF GetCached, Labels
  <2> QED
    BY <2>2, <2>3
<1>3. CASE LookupAbsent(c)
  <2> DEFINE locals == [r EXCEPT !.snap = EmptySnapshot(r.ver)]
  <2>1. EmptySnapshot(r.ver) \in Snapshot
    BY <1>1 DEF EmptySnapshot, NoFields, Snapshot, FieldMap, Locals
  <2>2. locals \in Locals /\ LocalsFit("put", locals)
    BY <1>1, <1>3, <2>1, StoreAssumption DEF LookupAbsent, Locals, LocalsFit, Unhooked
  <2> QED
    BY <1>3, <2>2, GotoTypeInv, Untouched DEF LookupAbsent, Labels
<1>4. CASE LookupEntry(c)
  <2> DEFINE entry == shards[Route(r.key)][r.key]
             locals == [r EXCEPT !.map = LiveMap(entry.fields), !.ids = {entry.version},
                                 !.home = Route(r.key)]
  <2>1. r.key \in Keys /\ Route(r.key) < shardLen
    BY <1>4, InHand DEF LookupEntry
  <2>2. Route(r.key) \in ShardIDs
    BY <2>1, RouteFacts DEF TypeInv, ServerTypeOK
  <2>3. entry \in Entry
    BY <1>4, <2>1, <2>2 DEF LookupEntry, TypeInv, ServerTypeOK, StoreTypeOK
  <2>4. LiveMap(entry.fields) \in FieldHistory /\ {entry.version} \in SUBSET VersionRefs
    BY <2>3, LiveMapType DEF Entry
  <2>5. LiveMap(entry.fields) # None
    BY <2>4, ServerAssumption
  <2>6. pc[c] = "lookup" /\ Goto(c, "copy", locals) /\ UNCHANGED <<versionVars, storeVars, leaked>>
    BY <1>4 DEF LookupEntry
  <2> HIDE DEF entry
  <2>7. locals \in Locals /\ LocalsFit("copy", locals)
    BY <1>1, <2>2, <2>4, <2>5, <2>6 DEF Locals, LocalsFit, Unhooked
  <2> QED
    BY <2>6, <2>7, GotoTypeInv, Untouched DEF Labels
<1>5. CASE LookupPanic(c)
  BY <1>5, IdleTypeInv, Untouched DEF LookupPanic
<1>6. CASE CopyEntry(c)
  <2>1. PICK id \in r.ids, fields \in FieldMap :
          Goto(c, "put", [r EXCEPT !.snap = [fields  |-> Filtered(fields, r.ver),
                                             version |-> id],
                                   !.map = None, !.former = {}, !.ids = {},
                                   !.home = Detached, !.merged = FALSE])
    BY <1>6 DEF CopyEntry
  <2> DEFINE snap == [fields |-> Filtered(fields, r.ver), version |-> id]
             locals == [r EXCEPT !.snap = snap, !.map = None, !.former = {}, !.ids = {},
                                 !.home = Detached, !.merged = FALSE]
  <2>2. snap \in Snapshot
    BY <1>1, FilteredType DEF Snapshot, Locals
  <2>3. pc[c] = "copy" /\ UNCHANGED <<versionVars, storeVars, leaked>>
    BY <1>6 DEF CopyEntry
  <2> HIDE DEF snap
  <2>4. locals \in Locals /\ LocalsFit("put", locals)
    BY <1>1, <2>2, <2>3, StoreAssumption DEF Locals, LocalsFit, Unhooked
  <2>5. Goto(c, "put", locals)
    BY <2>1 DEF snap
  <2> QED
    BY <2>3, <2>4, <2>5, GotoTypeInv, Untouched DEF Labels
<1>7. CASE PutCached(c)
  <2> DEFINE locals == [r EXCEPT !.raced = FALSE]
  <2>1. r.key \in Keys /\ r.ver \in VersionRefs /\ r.snap \in Snapshot
    BY <1>1, <1>7, InHand DEF PutCached, Locals
  <2>2. StoreTypeOK'
    BY <1>7, <2>1, CachePutStep DEF PutCached, TypeInv, ServerTypeOK
  <2>3. locals \in Locals /\ LocalsFit("done", locals)
    BY <1>1, <1>7 DEF PutCached, Locals, LocalsFit, Unhooked
  <2> QED
    BY <1>7, <2>2, <2>3, GotoTypeInv, Untouched DEF PutCached, Labels
<1>8. CASE Respond(c)
  BY <1>8, IdleTypeInv, Untouched DEF Respond
<1> QED
  BY <1>2, <1>3, <1>4, <1>5, <1>6, <1>7, <1>8

LEMMA AbortTypeInv ==
  ASSUME TypeInv, NEW c \in Clients, AbortCopy(c)
  PROVE  TypeInv'
<1>1. LocalsFit("aborted", Idle)
  BY DEF LocalsFit, Unhooked, Idle
<1> QED
  BY <1>1, IdleType, Untouched DEF AbortCopy, TypeInv, ServerTypeOK, Labels

(* Each writing handler puts one entry for its key, or is refused and      *)
(* changes nothing.                                                        *)
LEMMA UpdateStep ==
  ASSUME TypeInv, NEW c \in Clients, Write(c) \/ Merge(c) \/ Compare(c) \/ Insert(c) \/ Remove(c)
  PROVE  /\ req[c].key \in Keys
         /\ pc[c] \in {"write", "merge", "compare", "insert", "delete"}
         /\ \/ Goto(c, "idle", Idle) /\ UNCHANGED <<versionVars, storeVars, leaked>>
            \/ EndUpdate(c) /\ \E e \in Entry \cup {None} : PutEntry(req[c].key, e)
<1> DEFINE k == req[c].key
<1>1. /\ pc[c] \in {"write", "merge", "compare", "insert", "delete"}
      /\ k \in Keys /\ req[c].at \in 0 .. MaxTime
  BY InHand DEF Write, Merge, Compare, Insert, Remove, Locals
<1>2. now \in 0 .. MaxTime /\ Live(k) \in Entry \cup {None}
  BY <1>1, LiveType, BoundsAssumption DEF TypeInv, ServerTypeOK, ManagerOK, IInv, TypeOK
<1>3. Payloads \subseteq FieldMap /\ WriteRefs \subseteq VersionRefs
  BY ServerAssumption
<1>4. CASE Write(c)
  BY <1>1, <1>3, <1>4 DEF Write, WriteAt, Entry
<1>5. CASE Merge(c)
  <2>1. PICK fields \in Payloads, window \in SUBSET Fields, v \in WriteRefs :
          PutEntry(k, Merged(Live(k), fields, window, v))
    BY <1>5 DEF Merge, MergeWrite
  <2>2. Merged(Live(k), fields, window, v) \in Entry
    BY <1>2, <1>3, MergedType
  <2> QED
    BY <1>1, <1>5, <2>1, <2>2 DEF Merge
<1>6. CASE Compare(c)
  <2>1. PICK fields \in Payloads, v \in WriteRefs \cap VersionIDs :
          /\ CompareAndWrite(k, fields, v)
          /\ IF IsStale(k, v)
             THEN Goto(c, "idle", Idle) /\ UNCHANGED <<versionVars, leaked>>
             ELSE EndUpdate(c)
    BY <1>6 DEF Compare
  <2>2. [fields |-> fields, version |-> v, at |-> now] \in Entry
    BY <1>2, <1>3 DEF Entry
  <2> QED
    BY <1>1, <2>1, <2>2 DEF CompareAndWrite
<1>7. CASE Insert(c)
  <2>1. PICK fields \in Payloads, v \in WriteRefs \cap VersionIDs : InsertEntry(k, fields, v)
    BY <1>7 DEF Insert
  <2>2. [fields |-> fields, version |-> v, at |-> now] \in Entry
    BY <1>2, <1>3 DEF Entry
  <2> QED
    BY <1>1, <1>7, <2>1, <2>2 DEF Insert, InsertEntry
<1>8. CASE Remove(c)
  BY <1>1, <1>8 DEF Remove, Delete
<1> QED
  BY <1>4, <1>5, <1>6, <1>7, <1>8

LEMMA EndUpdateTypeInv ==
  ASSUME TypeInv, NEW c \in Clients, NEW k \in Keys, k = req[c].key,
         NEW e \in Entry \cup {None}, PutEntry(k, e), EndUpdate(c)
  PROVE  TypeInv'
<1>1. /\ StoreTypeOK' /\ Live(k)' \in Entry \cup {None} /\ HomeShard(k)' = HomeShard(k)
      /\ HomeShard(k) \in ShardIDs
  BY PutEntryStep, RouteFacts DEF TypeInv, ServerTypeOK
<1>2. /\ pc' = [pc EXCEPT ![c] = "idle"] /\ pc \in [Clients -> Labels]
      /\ req' = [q \in Clients |-> IF q = c THEN Idle ELSE Touched(q, k, pc[c])]
      /\ ManagerOK' /\ leaked' \in BOOLEAN
  BY Untouched DEF EndUpdate, TypeInv, ServerTypeOK
<1>3. LocalsFit("idle", Idle) /\ Idle \in Locals
  BY IdleType DEF LocalsFit, Unhooked, Idle
<1>4. ASSUME NEW q \in Clients PROVE req'[q] \in Locals /\ LocalsFit(pc'[q], req'[q])
  <2>1. CASE q = c
    BY <1>2, <1>3, <2>1
  <2>2. CASE q # c
    <3> DEFINE t == Touched(q, k, pc[c])
    <3>1. /\ t \in Locals /\ SameRequest(t, req[q])
          /\ t = req[q] \/ (InFlight(q) /\ req[q].key = k /\ t.raced)
          /\ pc[q] # "copy" => SameHook(t, req[q])
          /\ pc[q] = "copy" => t.map # None /\ t.ids # {}
      BY <1>1, TouchedStep
    <3>2. req'[q] = t /\ pc'[q] = pc[q] /\ LocalsFit(pc[q], req[q])
      BY <1>2, <2>2, InHand
    <3> HIDE DEF t
    <3>3. LocalsFit(pc[q], t)
      BY <3>1, <3>2 DEF LocalsFit, SameRequest, SameHook, Unhooked
    <3> QED
      BY <3>1, <3>2, <3>3
  <2> QED
    BY <2>1, <2>2
<1>5. pc' \in [Clients -> Labels]
  BY <1>2 DEF Labels
<1>6. req' \in [Clients -> Locals]
  BY <1>2, <1>4
<1> QED
  BY <1>1, <1>2, <1>4, <1>5, <1>6 DEF TypeInv, ServerTypeOK

LEMMA UpdateTypeInv ==
  ASSUME TypeInv, NEW c \in Clients, Write(c) \/ Merge(c) \/ Compare(c) \/ Insert(c) \/ Remove(c)
  PROVE  TypeInv'
<1>1. CASE Goto(c, "idle", Idle) /\ UNCHANGED <<versionVars, storeVars, leaked>>
  BY <1>1, IdleTypeInv, Untouched
<1>2. CASE EndUpdate(c) /\ \E e \in Entry \cup {None} : PutEntry(req[c].key, e)
  BY <1>2, UpdateStep, EndUpdateTypeInv
<1> QED
  BY <1>1, <1>2, UpdateStep

LEMMA FindNothingTypeInv ==
  ASSUME TypeInv, NEW c \in Clients, FindNothing(c)
  PROVE  TypeInv'
<1>1. req[c] \in Locals /\ LocalsFit("insert", req[c])
  BY InHand DEF FindNothing, LocalsFit
<1>2. UNCHANGED <<versionVars, storeVars, leaked>> /\ Goto(c, "insert", req[c])
  BY DEF FindNothing, CompareAbsent
<1> QED
  BY <1>1, <1>2, GotoTypeInv, Untouched DEF Labels

(* Version switches and creations are steps of the manager.                *)
LEMMA SwitchStep ==
  ASSUME NEW c \in Clients, NEW id \in VersionIDs, Switch(c, id)
  PROVE  [Next]_versionVars
BY DEF Switch, Next

LEMMA DraftStep ==
  ASSUME NEW t \in Tables, Draftsman(t)
  PROVE  [Next]_versionVars
BY DEF Draftsman, Next

LEMMA SwitchTypeInv ==
  ASSUME TypeInv, NEW c \in Clients,
         (\E id \in VersionIDs : Switch(c, id)) \/ Flush(c)
  PROVE  TypeInv'
<1>1. CASE \E id \in VersionIDs : Switch(c, id)
  <2>1. ManagerOK'
    BY <1>1, SwitchStep, ManagerStep DEF TypeInv
  <2>2. LocalsFit("flush", Idle)
    BY DEF LocalsFit, Unhooked, Idle
  <2> QED
    BY <1>1, <2>1, <2>2, IdleType, GotoTypeInv, Untouched DEF Switch, Start, Labels
<1>2. CASE Flush(c)
  <2>1. StoreTypeOK'
    BY <1>2, ClearCacheStep DEF Flush, TypeInv, ServerTypeOK
  <2> QED
    BY <1>2, <2>1, IdleTypeInv, Untouched DEF Flush
<1> QED
  BY <1>1, <1>2

LEMMA ReroutedStep ==
  ASSUME TypeInv, NEW q \in Clients, NEW t, t = Rerouted(q)
  PROVE  /\ t \in Locals /\ SameRequest(t, req[q]) /\ SameHook(t, req[q])
         /\ t = req[q] \/ (InFlight(q) /\ t.raced)
         /\ LocalsFit(pc[q], t)
<1>1. req[q] \in Locals /\ LocalsFit(pc[q], req[q])
  BY InHand
<1>2. CASE ~InFlight(q)
  BY <1>1, <1>2 DEF Rerouted, SameRequest, SameHook
<1>3. CASE InFlight(q)
  <2> DEFINE r == req[q]
  <2>1. t = [r EXCEPT !.raced = TRUE]
    BY <1>3 DEF Rerouted
  <2> HIDE DEF r
  <2>2. t \in Locals /\ SameRequest(t, r) /\ SameHook(t, r) /\ t.raced
    BY <1>1, <2>1 DEF r, Locals, SameRequest, SameHook
  <2>3. LocalsFit(pc[q], t)
    BY <1>1, <2>2 DEF r, LocalsFit, SameRequest, SameHook, Unhooked
  <2> QED
    BY <1>3, <2>2, <2>3 DEF r
<1> QED
  BY <1>2, <1>3

LEMMA ExpandTypeInv ==
  ASSUME TypeInv, NEW c \in Clients,
         \/ \E n \in 1 .. MaxShards : StartExpand(c, n)
         \/ ExpandRouter(c) \/ RefuseShrink(c) \/ ReportExpansion(c) \/ ExpandStore(c)
  PROVE  TypeInv'
<1> DEFINE r == req[c]
<1>1. r \in Locals /\ LocalsFit(pc[c], r)
  BY InHand
<1>2. StoreTypeOK /\ routerShards \in 0 .. MaxShards
  BY StoreAssumption DEF TypeInv, ServerTypeOK, StoreTypeOK
<1>3. ASSUME NEW n \in 1 .. MaxShards, StartExpand(c, n) PROVE TypeInv'
  <2> DEFINE locals == [Idle EXCEPT !.shards = n, !.before = routerShards]
  <2>1. n \in 0 .. MaxShards /\ n # 0
    BY StoreAssumption
  <2>2. locals \in Locals
    BY <1>2, <2>1, IdleType DEF Locals, Idle
  <2>3. LocalsFit("route", locals)
    BY <2>1 DEF LocalsFit, Unhooked, Idle
  <2> QED
    BY <1>3, <2>2, <2>3, GotoTypeInv, Untouched DEF StartExpand, Start, Labels
<1>4. CASE ExpandRouter(c)
  <2>1. /\ pc[c] = "route" /\ pc' = [pc EXCEPT ![c] = "report"] /\ leaked' = leaked
        /\ req' = [q \in Clients |-> Rerouted(q)] /\ GrowRouter(r.shards) /\ ManagerOK'
    BY <1>4, Untouched DEF ExpandRouter
  <2>2. StoreTypeOK'
    BY <1>2, <2>1, InHand, GrowRouterStep
  <2>3. \A q \in Clients : req'[q] \in Locals /\ LocalsFit(pc[q], req'[q])
    BY <2>1, ReroutedStep
  <2>4. LocalsFit("report", req'[c])
    BY <2>1, <2>3 DEF LocalsFit
  <2>5. pc' \in [Clients -> Labels] /\ \A q \in Clients : LocalsFit(pc'[q], req'[q])
    BY <2>1, <2>3, <2>4 DEF TypeInv, ServerTypeOK, Labels
  <2>6. req' \in [Clients -> Locals]
    BY <2>1, <2>3
  <2> QED
    BY <2>1, <2>2, <2>5, <2>6 DEF TypeInv, ServerTypeOK
<1>5. CASE RefuseShrink(c)
  BY <1>5, IdleTypeInv, Untouched DEF RefuseShrink
<1>6. CASE ReportExpansion(c)
  <2>1. CASE Goto(c, "idle", Idle)
    BY <1>6, <2>1, IdleTypeInv, Untouched DEF ReportExpansion
  <2>2. CASE Goto(c, "grow", r)
    <3>1. LocalsFit("grow", r)
      BY <1>1, <1>6 DEF ReportExpansion, LocalsFit
    <3> QED
      BY <1>1, <1>6, <2>2, <3>1, GotoTypeInv, Untouched
         DEF ReportExpansion, Labels, LockWaiters
  <2> QED
    BY <1>6, <2>1, <2>2 DEF ReportExpansion
<1>7. CASE ExpandStore(c)
  <2>1. /\ pc[c] = "grow" /\ pc' = [pc EXCEPT ![c] = "idle"] /\ leaked' = leaked
        /\ req' = [q \in Clients |-> IF q = c THEN Idle ELSE Rerouted(q)]
        /\ GrowShards(r.shards) /\ ManagerOK'
    BY <1>7, Untouched DEF ExpandStore
  <2>2. StoreTypeOK'
    BY <1>2, <2>1, InHand, GrowShardsStep
  <2>3. LocalsFit("idle", Idle) /\ Idle \in Locals
    BY IdleType DEF LocalsFit, Unhooked, Idle
  <2>4. \A q \in Clients : req'[q] \in Locals /\ LocalsFit(pc'[q], req'[q])
    BY <2>1, <2>3, ReroutedStep DEF TypeInv, ServerTypeOK
  <2>5. pc' \in [Clients -> Labels]
    BY <2>1 DEF TypeInv, ServerTypeOK, Labels
  <2>6. req' \in [Clients -> Locals]
    BY <2>1, <2>4
  <2> QED
    BY <2>1, <2>2, <2>4, <2>5, <2>6 DEF TypeInv, ServerTypeOK
<1> QED
  BY <1>3, <1>4, <1>5, <1>6, <1>7

LEMMA ServerInitTypeInv == ServerInit => TypeInv
<1> SUFFICES ASSUME ServerInit PROVE TypeInv
  OBVIOUS
<1>1. LocalsFit("idle", Idle) /\ Idle \in Locals
  BY IdleType DEF LocalsFit, Unhooked, Idle
<1>2. pc = [c \in Clients |-> "idle"] /\ req = [c \in Clients |-> Idle] /\ leaked = FALSE
  BY DEF ServerInit
<1>3. ManagerOK /\ StoreTypeOK
  BY BootOK DEF ServerInit
<1> QED
  BY <1>1, <1>2, <1>3 DEF TypeInv, ServerTypeOK, Labels

LEMMA ServerNextTypeInv == TypeInv /\ [ServerNext]_vars => TypeInv'
<1> SUFFICES ASSUME TypeInv, [ServerNext]_vars PROVE TypeInv'
  OBVIOUS
<1>1. ASSUME NEW c \in Clients, Request(c) PROVE TypeInv'
  <2>1. ASSUME NEW k \in KeysOf[c],
               StartRead(c, k) \/ \E op \in Ops : StartUpdate(c, op, k)
        PROVE  TypeInv'
    BY <2>1, ServerAssumption, StartTypeInv
  <2>2. CASE \E id \in VersionIDs : Switch(c, id)
    BY <2>2, SwitchTypeInv
  <2>3. CASE \E n \in 1 .. MaxShards : StartExpand(c, n)
    BY <2>3, ExpandTypeInv
  <2> QED
    BY <1>1, <2>1, <2>2, <2>3 DEF Request
<1>2. ASSUME NEW c \in Clients, Handle(c) PROVE TypeInv'
  BY <1>2, ReadTypeInv, AbortTypeInv, UpdateTypeInv, FindNothingTypeInv, SwitchTypeInv,
     ExpandTypeInv DEF Handle
<1>3. ASSUME NEW t \in Tables, Draftsman(t) PROVE TypeInv'
  <2>1. ManagerOK'
    BY <1>3, DraftStep, ManagerStep DEF TypeInv
  <2> QED
    BY <1>3, <2>1, Untouched DEF Draftsman, TypeInv, ServerTypeOK
<1>4. CASE Clock
  <2>1. ManagerOK'
    BY <1>4, ManagerStep DEF Clock, Next, TypeInv
  <2> QED
    BY <1>4, <2>1, Untouched DEF Clock, TypeInv, ServerTypeOK
<1>5. CASE UNCHANGED vars
  BY <1>5, Untouched DEF vars, TypeInv, ServerTypeOK
<1> QED
  BY <1>1, <1>2, <1>3, <1>4, <1>5 DEF ServerNext

LEMMA AlwaysTypeInv == ServerSpec => []TypeInv
BY ServerInitTypeInv, ServerNextTypeInv, PTL DEF ServerSpec

(* Types of the whole server, with what each handler has in hand between   *)
(* its steps: whatever updates, expansions and version switches happen     *)
(* while a read holds no lock, it copies from the entry it looked up, puts *)
(* the snapshot it copied and answers with it.                             *)
THEOREM ServerTypeCorrect == ServerSpec => []ServerTypeOK
<1>1. TypeInv => ServerTypeOK
  BY DEF TypeInv
<1> QED
  BY <1>1, AlwaysTypeInv, PTL

(* The manager keeps its promises in the running server, which starts from *)
(* main's two versions and flushes the cache between a switch and the next *)
(* request: parents stay in their table, the pointer never selects a draft *)
(* or a rolled-back version.                                               *)
THEOREM ManagerInServer == ServerSpec => [](LineageOK /\ ActiveSelectable /\ PublishedIsActive)
<1>1. TypeInv => LineageOK /\ ActiveSelectable /\ PublishedIsActive
  BY DEF TypeInv, ManagerOK, IInv
<1> QED
  BY <1>1, AlwaysTypeInv, PTL

-----------------------------------------------------------------------------
(* Layouts: "a reader never sees columns that did not exist at that        *)
(* version"                                                                *)

(* The versions reads resolve are known, and a known version keeps its     *)
(* layout; so what was filtered once stays filtered.                       *)
FilterInv ==
  /\ \A k \in Keys, v \in VersionRefs :
       CacheHit(k, v) => Known(v) /\ ShowsOnly(cache[k][v], v)
  /\ \A c \in Clients : /\ Known(req[c].ver)
                        /\ req[c].snap # None => ShowsOnly(req[c].snap, req[c].ver)

LEMMA ServerManagerStep ==
  ASSUME [ServerNext]_vars
  PROVE  [Next]_versionVars
<1>1. ASSUME NEW c \in Clients, Request(c) PROVE [Next]_versionVars
  BY <1>1, SwitchStep DEF Request, StartRead, StartUpdate, StartExpand
<1>2. ASSUME NEW c \in Clients, Handle(c) PROVE UNCHANGED versionVars
  <2>1. ASSUME Write(c) \/ Merge(c) \/ Compare(c) \/ Insert(c) \/ Remove(c) PROVE UNCHANGED versionVars
    BY <2>1 DEF Write, Merge, Compare, Insert, Remove, EndUpdate
  <2> QED
    BY <1>2, <2>1 DEF Handle, FindNothing, GetCached, LookupAbsent, LookupEntry, LookupPanic, CopyEntry,
         AbortCopy, PutCached, Respond, Flush, ExpandRouter, RefuseShrink, ReportExpansion,
         ExpandStore
<1>3. ASSUME NEW t \in Tables, Draftsman(t) PROVE [Next]_versionVars
  BY <1>3, DraftStep
<1>4. CASE Clock \/ UNCHANGED vars
  BY <1>4 DEF Clock, Next, vars
<1> QED
  BY <1>1, <1>2, <1>3, <1>4 DEF ServerNext

(* Where the snapshot of a cache cell comes from.                          *)
LEMMA CacheStep ==
  ASSUME TypeInv, [ServerNext]_vars, NEW k \in Keys, NEW v \in VersionRefs
  PROVE  \/ cache'[k][v] \in {None, cache[k][v]}
         \/ \E c \in Clients : /\ PutCached(c) /\ req[c].key = k /\ req[c].ver = v
                               /\ cache'[k][v] = req[c].snap
<1> DEFINE Goal == \/ cache'[k][v] \in {None, cache[k][v]}
                   \/ \E c \in Clients : /\ PutCached(c) /\ req[c].key = k /\ req[c].ver = v
                                         /\ cache'[k][v] = req[c].snap
<1>1. StoreTypeOK
  BY DEF TypeInv, ServerTypeOK
<1>2. ASSUME NEW c \in Clients, Write(c) \/ Merge(c) \/ Compare(c) \/ Insert(c) \/ Remove(c) PROVE Goal
  <2>1. CASE UNCHANGED storeVars
    BY <2>1 DEF storeVars
  <2>2. ASSUME NEW e \in Entry \cup {None}, PutEntry(req[c].key, e) PROVE Goal
    <3>1. req[c].key \in Keys
      BY <1>2, UpdateStep
    <3>2. cache'[k] \in {EmptyCacheLine, cache[k]}
      BY <1>1, <2>2, <3>1, PutEntryStep
    <3> QED
      BY <3>2 DEF EmptyCacheLine
  <2> QED
    BY <1>2, <2>1, <2>2, UpdateStep
<1>3. ASSUME NEW c \in Clients, PutCached(c) PROVE Goal
  <2>1. req[c].key \in Keys /\ req[c].ver \in VersionRefs /\ req[c].snap \in Snapshot
    BY <1>3, InHand DEF PutCached, Locals
  <2>2. cache'[k][v] = IF k = req[c].key /\ v = req[c].ver THEN req[c].snap ELSE cache[k][v]
    BY <1>1, <1>3, <2>1, CachePutStep DEF PutCached
  <2> QED
    BY <1>3, <2>2
<1>4. ASSUME NEW c \in Clients, Flush(c) PROVE Goal
  BY <1>1, <1>4, ClearCacheStep DEF Flush, EmptyCacheLine
<1>5. ASSUME NEW c \in Clients, ExpandRouter(c) \/ ExpandStore(c) PROVE cache' = cache
  BY <1>5 DEF ExpandRouter, ExpandStore, GrowRouter, GrowShards
<1>6. ASSUME NEW c \in Clients, Handle(c) PROVE Goal
  BY <1>2, <1>3, <1>4, <1>5, <1>6 DEF Handle, GetCached, LookupAbsent, LookupEntry, LookupPanic,
     CopyEntry, AbortCopy, Respond, FindNothing, CompareAbsent, RefuseShrink, ReportExpansion,
     storeVars
<1>7. ASSUME NEW c \in Clients, Request(c) PROVE cache' = cache
  BY <1>7 DEF Request, StartRead, StartUpdate, StartExpand, Switch, storeVars
<1>8. CASE Clock \/ UNCHANGED vars \/ \E t \in Tables : Draftsman(t)
  BY <1>8 DEF Clock, Draftsman, vars, storeVars
<1> QED
  BY <1>6, <1>7, <1>8 DEF ServerNext

(* What the steps of one handler are to another: nothing but a mark on a   *)
(* read that is overtaken, unless they abort the process.  A read without  *)
(* the mark still has its entry where it found it.                         *)
Overlooked(q) ==
  /\ pc'[q] = pc[q] /\ SameRequest(req'[q], req[q])
  /\ req'[q] = req[q] \/ (InFlight(q) /\ req'[q].raced)
  /\ \A k \in Keys : InFlight(q) /\ req[q].key = k /\ ~req'[q].raced => Undisturbed(k)

LEMMA BystanderStep ==
  ASSUME TypeInv, NEW c \in Clients, Request(c) \/ Handle(c), NEW q \in Clients \ {c}
  PROVE  Overlooked(q) \/ (AbortCopy(c) /\ pc'[q] = "aborted" /\ req'[q] = Idle)
<1>1. /\ pc \in [Clients -> Labels] /\ req \in [Clients -> Locals] /\ StoreTypeOK
  BY DEF TypeInv, ServerTypeOK
<1>2. ASSUME UNCHANGED <<routerShards, shardLen, shards>>, pc'[q] = pc[q], req'[q] = req[q]
      PROVE  Overlooked(q)
  BY <1>2 DEF Overlooked, SameRequest, Undisturbed, Live, HomeShard, Route
<1>3. CASE Request(c)
  <2>1. UNCHANGED storeVars
    BY <1>3 DEF Request, StartRead, StartUpdate, StartExpand, Switch
  <2>2. \E label, locals : Goto(c, label, locals)
    BY <1>3 DEF Request, StartRead, StartUpdate, StartExpand, Switch, Start
  <2> QED
    BY <1>1, <1>2, <2>1, <2>2 DEF Goto, storeVars
<1>4. CASE \/ GetCached(c) \/ LookupAbsent(c) \/ LookupEntry(c) \/ LookupPanic(c)
           \/ CopyEntry(c) \/ PutCached(c) \/ Respond(c) \/ FindNothing(c) \/ Flush(c)
           \/ RefuseShrink(c) \/ ReportExpansion(c)
  <2>1. UNCHANGED <<routerShards, shardLen, shards>>
    BY <1>4 DEF GetCached, LookupAbsent, LookupEntry, LookupPanic, CopyEntry, PutCached, Respond,
                FindNothing, CompareAbsent, Flush, RefuseShrink, ReportExpansion, storeVars,
                CachePut, ClearCache
  <2>2. \E label, locals : Goto(c, label, locals)
    BY <1>4 DEF GetCached, LookupAbsent, LookupEntry, LookupPanic, CopyEntry, PutCached, Respond,
                FindNothing, Flush, RefuseShrink, ReportExpansion
  <2> QED
    BY <1>1, <1>2, <2>1, <2>2 DEF Goto
<1>5. CASE Write(c) \/ Merge(c) \/ Compare(c) \/ Insert(c) \/ Remove(c)
  <2>1. CASE Goto(c, "idle", Idle) /\ UNCHANGED <<versionVars, storeVars, leaked>>
    BY <1>1, <1>2, <2>1 DEF Goto, storeVars
  <2>2. ASSUME EndUpdate(c), NEW e \in Entry \cup {None}, NEW k \in Keys, k = req[c].key,
               PutEntry(k, e)
        PROVE  Overlooked(q)
    <3>1. /\ \A j \in Keys : HomeShard(j)' = HomeShard(j)
          /\ Live(k)' = e
          /\ \A j \in Keys \ {k} : Live(j)' = Live(j)
          /\ HomeShard(k) \in ShardIDs
      BY <1>1, <2>2, PutEntryStep, RouteFacts
    <3> DEFINE t == Touched(q, k, pc[c])
    <3>2. pc'[q] = pc[q] /\ req'[q] = t
      BY <1>1, <2>2 DEF EndUpdate
    <3>3. /\ SameRequest(t, req[q])
          /\ t = req[q] \/ (InFlight(q) /\ req[q].key = k /\ t.raced)
      BY <3>1, TouchedStep
    <3>4. InFlight(q) /\ req[q].key = k => t.raced
      <4> HAVE InFlight(q) /\ req[q].key = k
      <4> DEFINE r == req[q]
                 marked == [r EXCEPT !.raced = TRUE]
      <4>1. r \in Locals
        BY InHand
      <4> HIDE DEF r
      <4>2. marked.raced
        BY <4>1 DEF Locals
      <4>3. \/ t = marked \/ (\E x : t = [marked EXCEPT !.home = x])
            \/ \E x, y, z : t = [marked EXCEPT !.map = x, !.merged = y, !.ids = z]
            \/ \E x, y, z : t = [marked EXCEPT !.map = x, !.former = y, !.ids = z]
        BY DEF Touched, r
      <4> QED
        BY <4>1, <4>2, <4>3 DEF Locals
    <3> HIDE DEF t
    <3> QED
      BY <3>1, <3>2, <3>3, <3>4 DEF Overlooked, Undisturbed
  <2> QED
    BY <1>5, <2>1, <2>2, UpdateStep
<1>6. CASE ExpandRouter(c) \/ ExpandStore(c)
  <2>1. pc'[q] = pc[q] /\ req'[q] = Rerouted(q)
    BY <1>1, <1>6 DEF ExpandRouter, ExpandStore
  <2>2. /\ SameRequest(req'[q], req[q])
        /\ req'[q] = req[q] \/ (InFlight(q) /\ req'[q].raced)
    BY <2>1, ReroutedStep
  <2>3. InFlight(q) => req'[q].raced
    BY <1>1, <2>1 DEF Rerouted, Locals
  <2> QED
    BY <2>1, <2>2, <2>3 DEF Overlooked
<1>7. CASE AbortCopy(c)
  BY <1>7 DEF AbortCopy
<1> QED
  BY <1>3, <1>4, <1>5, <1>6, <1>7 DEF Handle

(* Where the version and the snapshot of a handler come from.              *)
LEMMA SnapshotStep ==
  ASSUME TypeInv, [ServerNext]_vars, NEW c \in Clients
  PROVE  \/ req'[c].ver = req[c].ver /\ req'[c].snap = req[c].snap
         \/ req'[c].ver \in {Nil, ResolveActive} /\ req'[c].snap = None
         \/ /\ req'[c].ver = req[c].ver
            /\ \/ \E k \in Keys : CacheHit(k, req[c].ver) /\ req'[c].snap = cache[k][req[c].ver]
               \/ req'[c].snap = EmptySnapshot(req[c].ver)
               \/ \E fields \in FieldMap, id \in VersionRefs :
                    req'[c].snap = [fields |-> Filtered(fields, req[c].ver), version |-> id]
<1> DEFINE r == req[c]
           Goal == \/ req'[c].ver = r.ver /\ req'[c].snap = r.snap
                   \/ req'[c].ver \in {Nil, ResolveActive} /\ req'[c].snap = None
                   \/ /\ req'[c].ver = r.ver
                      /\ \/ \E k \in Keys : CacheHit(k, r.ver) /\ req'[c].snap = cache[k][r.ver]
                         \/ req'[c].snap = EmptySnapshot(r.ver)
                         \/ \E fields \in FieldMap, id \in VersionRefs :
                              req'[c].snap = [fields |-> Filtered(fields, r.ver), version |-> id]
<1>1. req \in [Clients -> Locals] /\ r \in Locals
  BY DEF TypeInv, ServerTypeOK
<1>8. r \in Locals
  BY <1>1
<1>2. Idle.ver = Nil /\ Idle.snap = None
  BY DEF Idle
<1>3. ASSUME req'[c] \in {r, Idle} PROVE Goal
  BY <1>2, <1>3
<1>4. ASSUME NEW q \in Clients \ {c}, Request(q) \/ Handle(q) PROVE Goal
  <2>1. CASE Overlooked(c)
    BY <2>1 DEF Overlooked, SameRequest
  <2>2. CASE req'[c] = Idle
    BY <1>3, <2>2
  <2> QED
    BY <1>4, <2>1, <2>2, BystanderStep
<1>5. CASE Request(c)
  <2>1. ASSUME NEW k \in KeysOf[c], StartRead(c, k) PROVE Goal
    BY <1>1, <2>1 DEF StartRead, Start, Goto, Idle
  <2>2. ASSUME NEW k \in KeysOf[c], NEW op \in Ops, StartUpdate(c, op, k) PROVE Goal
    BY <1>1, <2>2 DEF StartUpdate, Start, Goto, Idle
  <2>3. ASSUME NEW n \in 1 .. MaxShards, StartExpand(c, n) PROVE Goal
    BY <1>1, <2>3 DEF StartExpand, Start, Goto, Idle
  <2>4. CASE \E id \in VersionIDs : Switch(c, id)
    BY <1>1, <1>3, <2>4 DEF Switch, Start, Goto
  <2> QED
    BY <1>5, <2>1, <2>2, <2>3, <2>4 DEF Request
<1>6. CASE Handle(c)
  <2>1. CASE \/ LookupPanic(c) \/ AbortCopy(c) \/ Respond(c) \/ FindNothing(c) \/ Flush(c)
             \/ RefuseShrink(c)
    BY <1>1, <1>3, <2>1
       DEF LookupPanic, AbortCopy, Respond, FindNothing, Flush, RefuseShrink, Goto
  <2>2. CASE GetCached(c)
    <3>1. r.key \in Keys
      BY <2>2, InHand DEF GetCached
    <3>2. CASE CacheHit(r.key, r.ver)
      <4>1. req'[c] = [r EXCEPT !.snap = cache[r.key][r.ver]]
        BY <1>1, <2>2, <3>2 DEF GetCached, Goto
      <4> HIDE DEF r
      <4>2. req'[c].ver = r.ver /\ req'[c].snap = cache[r.key][r.ver]
        BY <1>8, <4>1 DEF Locals
      <4> QED
        BY <3>1, <3>2, <4>2 DEF r
    <3>3. CASE ~CacheHit(r.key, r.ver)
      BY <1>1, <1>3, <2>2, <3>3 DEF GetCached, Goto
    <3> QED
      BY <3>2, <3>3
  <2>3. CASE LookupAbsent(c)
    <3>1. req'[c] = [r EXCEPT !.snap = EmptySnapshot(r.ver)]
      BY <1>1, <2>3 DEF LookupAbsent, Goto
    <3> HIDE DEF r
    <3>2. req'[c].ver = r.ver /\ req'[c].snap = EmptySnapshot(r.ver)
      BY <1>8, <3>1 DEF Locals
    <3> QED
      BY <3>2 DEF r
  <2>4. CASE LookupEntry(c)
    <3>1. \E map, ids, home : req'[c] = [r EXCEPT !.map = map, !.ids = ids, !.home = home]
      BY <1>1, <2>4 DEF LookupEntry, Goto
    <3> HIDE DEF r
    <3>2. req'[c].ver = r.ver /\ req'[c].snap = r.snap
      BY <1>8, <3>1 DEF Locals
    <3> QED
      BY <3>2 DEF r
  <2>5. CASE CopyEntry(c)
    <3>1. PICK fields \in FieldMap, id \in VersionRefs :
            req'[c] = [r EXCEPT !.snap = [fields  |-> Filtered(fields, r.ver), version |-> id],
                                !.map = None, !.former = {}, !.ids = {},
                                !.home = Detached, !.merged = FALSE]
      BY <1>1, <2>5 DEF CopyEntry, Goto, Locals
    <3> HIDE DEF r
    <3>2. /\ req'[c].ver = r.ver
          /\ req'[c].snap = [fields |-> Filtered(fields, r.ver), version |-> id]
      BY <1>8, <3>1 DEF Locals
    <3> QED
      BY <3>2 DEF r
  <2>6. CASE PutCached(c)
    <3>1. req'[c] = [r EXCEPT !.raced = FALSE]
      BY <1>1, <2>6 DEF PutCached, Goto
    <3> HIDE DEF r
    <3>2. req'[c].ver = r.ver /\ req'[c].snap = r.snap
      BY <1>8, <3>1 DEF Locals
    <3> QED
      BY <3>2 DEF r
  <2>7. CASE Write(c) \/ Merge(c) \/ Compare(c) \/ Insert(c) \/ Remove(c)
    <3>1. Goto(c, "idle", Idle) \/ EndUpdate(c)
      BY <2>7, UpdateStep
    <3> QED
      BY <1>1, <1>3, <3>1 DEF Goto, EndUpdate
  <2>8. CASE ExpandRouter(c)
    <3>1. SameRequest(req'[c], r)
      BY <1>1, <2>8, ReroutedStep DEF ExpandRouter
    <3> QED
      BY <3>1 DEF SameRequest
  <2>9. CASE ReportExpansion(c) \/ ExpandStore(c)
    BY <1>1, <1>3, <2>9 DEF ReportExpansion, ExpandStore, Goto
  <2> QED
    BY <1>6, <2>1, <2>2, <2>3, <2>4, <2>5, <2>6, <2>7, <2>8, <2>9 DEF Handle
<1>7. CASE Clock \/ UNCHANGED vars \/ \E t \in Tables : Draftsman(t)
  BY <1>7 DEF Clock, Draftsman, vars
<1> QED
  BY <1>4, <1>5, <1>6, <1>7 DEF ServerNext

(* A version that is known shows the same fields after any step.           *)
LEMMA ShowsOnlyKept ==
  ASSUME TypeInv, [ServerNext]_vars, NEW v, Known(v), NEW snap, ShowsOnly(snap, v)
  PROVE  Known(v)' /\ \A f \in Fields \ Layout(v)' : snap.fields[f] = NoValue
BY ServerManagerStep, LayoutKept DEF TypeInv, ShowsOnly

LEMMA FilterInit == ServerInit => FilterInv
<1> SUFFICES ASSUME ServerInit PROVE FilterInv
  OBVIOUS
<1>1. \A k \in Keys, v \in VersionRefs : ~CacheHit(k, v)
  BY DEF ServerInit, Boot, StoreInit, EmptyCacheLine, CacheHit
<1>2. \A c \in Clients : req[c].ver = Nil /\ req[c].snap = None
  BY DEF ServerInit, Idle
<1> QED
  BY <1>1, <1>2 DEF FilterInv, Known

LEMMA FilterNext == TypeInv /\ FilterInv /\ [ServerNext]_vars => FilterInv'
<1> SUFFICES ASSUME TypeInv, FilterInv, [ServerNext]_vars PROVE FilterInv'
  OBVIOUS
<1>1. ASSUME NEW k \in Keys, NEW v \in VersionRefs, CacheHit(k, v)'
      PROVE  (Known(v) /\ ShowsOnly(cache[k][v], v))'
  <2>1. cache'[k][v] # None
    BY <1>1 DEF CacheHit
  <2> DEFINE snap == cache'[k][v]
  <2>2. ASSUME Known(v), ShowsOnly(snap, v) PROVE (Known(v) /\ ShowsOnly(cache[k][v], v))'
    <3> HIDE DEF snap
    <3>1. Known(v)' /\ \A f \in Fields \ Layout(v)' : snap.fields[f] = NoValue
      BY <2>2, ShowsOnlyKept
    <3> QED
      BY <3>1 DEF ShowsOnly, snap
  <2>3. CASE snap = cache[k][v]
    BY <2>1, <2>2, <2>3 DEF FilterInv, CacheHit
  <2>4. ASSUME NEW c \in Clients, PutCached(c), req[c].ver = v, snap = req[c].snap
        PROVE  (Known(v) /\ ShowsOnly(cache[k][v], v))'
    BY <2>1, <2>2, <2>4 DEF FilterInv
  <2> QED
    BY <2>1, <2>3, <2>4, CacheStep
<1>2. ASSUME NEW c \in Clients
      PROVE  (Known(req[c].ver) /\ (req[c].snap # None => ShowsOnly(req[c].snap, req[c].ver)))'
  <2> DEFINE v == req[c].ver
             snap == req'[c].snap
  <2>1. Known(v) /\ v \in VersionRefs /\ Known(Nil) /\ Known(ResolveActive)
    BY KnownRefs, ResolvesKnown DEF FilterInv, TypeInv, Known
  <2>2. ASSUME NEW u, Known(u), req'[c].ver = u,
               snap = None \/ ShowsOnly(snap, u)
        PROVE  (Known(req[c].ver) /\ (req[c].snap # None => ShowsOnly(req[c].snap, req[c].ver)))'
    <3>1. Known(u)'
      BY <2>2, ServerManagerStep, LayoutKept DEF TypeInv
    <3>2. snap # None => \A f \in Fields \ Layout(u)' : snap.fields[f] = NoValue
      <4> HIDE DEF snap
      <4> QED
        BY <2>2, ShowsOnlyKept
    <3> QED
      BY <2>2, <3>1, <3>2 DEF ShowsOnly, Layout, Known
  <2>3. CASE req'[c].ver = v /\ snap = req[c].snap
    BY <2>1, <2>2, <2>3 DEF FilterInv
  <2>4. CASE req'[c].ver \in {Nil, ResolveActive} /\ snap = None
    BY <2>1, <2>2, <2>4
  <2>5. ASSUME req'[c].ver = v, NEW k \in Keys, CacheHit(k, v), snap = cache[k][v]
        PROVE  ShowsOnly(snap, v)
    BY <2>1, <2>5 DEF FilterInv
  <2>6. ASSUME req'[c].ver = v, snap = EmptySnapshot(v) PROVE ShowsOnly(snap, v)
    BY <2>6 DEF EmptySnapshot, NoFields, ShowsOnly
  <2>7. ASSUME req'[c].ver = v, NEW fields \in FieldMap, NEW id \in VersionRefs,
               snap = [fields |-> Filtered(fields, v), version |-> id]
        PROVE  ShowsOnly(snap, v)
    <3>1. snap.fields = Filtered(fields, v)
      BY <2>7
    <3> QED
      BY <3>1, FilteredType DEF ShowsOnly
  <2> QED
    BY <2>1, <2>2, <2>3, <2>4, <2>5, <2>6, <2>7, SnapshotStep
<1> QED
  BY <1>1, <1>2 DEF FilterInv

(* "a reader never sees columns that did not exist at that version"        *)
(* (entrySnapshot), for any keys, clients and schemas: nothing in the      *)
(* cache and nothing on its way to a client has a field outside the layout *)
(* of the version it was read under, whatever is published, rolled back,   *)
(* created, written or expanded between the resolution and the reply.      *)
THEOREM ReadsAreFiltered == ServerSpec => []FilteredReads
<1>1. TypeInv /\ FilterInv => FilteredReads
  BY DEF FilterInv, FilteredReads
<1>2. ServerSpec => []FilterInv
  BY FilterInit, FilterNext, AlwaysTypeInv, PTL DEF ServerSpec
<1> QED
  BY <1>1, <1>2, AlwaysTypeInv, PTL

-----------------------------------------------------------------------------
(* Shard counts *)

Expanding(c) == pc[c] \in {"report", "grow"}

(* While the store is behind the router, an expansion that knows it has    *)
(* changed the count is on its way to bring the store up to exactly that   *)
(* count - unless the process was aborted meanwhile.                       *)
ExpandInv ==
  /\ shardLen <= routerShards
  /\ leaked => shardLen < routerShards
  /\ \A c \in Clients : /\ pc[c] = "route" => req[c].before <= routerShards
                        /\ Expanding(c) => req[c].shards <= routerShards
  /\ shardLen < routerShards =>
       \E c \in Clients : CatchingUp(c) \/ pc[c] = "aborted"

LEMMA CountsStep ==
  ASSUME TypeInv, [ServerNext]_vars
  PROVE  \/ UNCHANGED <<routerShards, shardLen>>
         \/ \E c \in Clients : ExpandRouter(c) \/ ExpandStore(c)
<1>1. ASSUME NEW c \in Clients, Request(c) PROVE UNCHANGED storeVars
  BY <1>1 DEF Request, StartRead, StartUpdate, StartExpand, Switch
<1>2. ASSUME NEW c \in Clients, Write(c) \/ Merge(c) \/ Compare(c) \/ Insert(c) \/ Remove(c)
      PROVE  UNCHANGED <<routerShards, shardLen>>
  BY <1>2, UpdateStep DEF PutEntry, storeVars
<1>3. ASSUME NEW c \in Clients, Handle(c), ~ExpandRouter(c), ~ExpandStore(c)
      PROVE  UNCHANGED <<routerShards, shardLen>>
  BY <1>2, <1>3 DEF Handle, GetCached, LookupAbsent, LookupEntry, LookupPanic, CopyEntry,
     AbortCopy, PutCached, CachePut, Respond, FindNothing, CompareAbsent, Flush, ClearCache,
     RefuseShrink, ReportExpansion, storeVars
<1>4. CASE Clock \/ UNCHANGED vars \/ \E t \in Tables : Draftsman(t)
  BY <1>4 DEF Clock, Draftsman, vars, storeVars
<1> QED
  BY <1>1, <1>3, <1>4 DEF ServerNext, storeVars

LEMMA LeakStep ==
  ASSUME TypeInv, [ServerNext]_vars
  PROVE  leaked' = leaked \/ \E c \in Clients : LookupPanic(c)
<1>1. ASSUME NEW c \in Clients, Request(c) PROVE leaked' = leaked
  BY <1>1 DEF Request, StartRead, StartUpdate, StartExpand, Switch
<1>2. ASSUME NEW c \in Clients, Write(c) \/ Merge(c) \/ Compare(c) \/ Insert(c) \/ Remove(c)
      PROVE  leaked' = leaked
  BY <1>2, UpdateStep DEF EndUpdate
<1>3. ASSUME NEW c \in Clients, Handle(c), ~LookupPanic(c) PROVE leaked' = leaked
  BY <1>2, <1>3 DEF Handle, GetCached, LookupAbsent, LookupEntry, CopyEntry, AbortCopy,
     PutCached, Respond, FindNothing, Flush, ExpandRouter, RefuseShrink, ReportExpansion,
     ExpandStore
<1>4. CASE Clock \/ UNCHANGED vars \/ \E t \in Tables : Draftsman(t)
  BY <1>4 DEF Clock, Draftsman, vars
<1> QED
  BY <1>1, <1>3, <1>4 DEF ServerNext

(* What a step means to one handler, as far as expansions go.              *)
LEMMA ExpanderStep ==
  ASSUME TypeInv, [ServerNext]_vars, NEW c \in Clients
  PROVE  \/ pc'[c] = pc[c] /\ req'[c].shards = req[c].shards /\ req'[c].before = req[c].before
         \/ /\ pc[c] \notin {"route", "report", "grow", "aborted"}
            /\ pc'[c] \notin {"route", "report", "grow"}
         \/ pc'[c] = "aborted"
         \/ \E n \in 1 .. MaxShards : StartExpand(c, n)
         \/ ExpandRouter(c) \/ RefuseShrink(c) \/ ReportExpansion(c) \/ ExpandStore(c)
<1> DEFINE Goal ==
         \/ pc'[c] = pc[c] /\ req'[c].shards = req[c].shards /\ req'[c].before = req[c].before
         \/ /\ pc[c] \notin {"route", "report", "grow", "aborted"}
            /\ pc'[c] \notin {"route", "report", "grow"}
         \/ pc'[c] = "aborted"
         \/ \E n \in 1 .. MaxShards : StartExpand(c, n)
         \/ ExpandRouter(c) \/ RefuseShrink(c) \/ ReportExpansion(c) \/ ExpandStore(c)
<1>1. pc \in [Clients -> Labels]
  BY DEF TypeInv, ServerTypeOK
<1>2. ASSUME NEW q \in Clients \ {c}, Request(q) \/ Handle(q) PROVE Goal
  <2>1. CASE Overlooked(c)
    BY <2>1 DEF Overlooked, SameRequest
  <2>2. CASE pc'[c] = "aborted"
    BY <2>2
  <2> QED
    BY <1>2, <2>1, <2>2, BystanderStep
<1>3. ASSUME Request(c), \A n \in 1 .. MaxShards : ~StartExpand(c, n)
      PROVE  pc[c] = "idle" /\ pc'[c] \notin {"route", "report", "grow"}
  BY <1>1, <1>3 DEF Request, StartRead, StartUpdate, Switch, Start, Goto
<1>4. ASSUME Write(c) \/ Merge(c) \/ Compare(c) \/ Insert(c) \/ Remove(c)
      PROVE  pc[c] \notin {"route", "report", "grow", "aborted"} /\ pc'[c] = "idle"
  BY <1>1, <1>4, UpdateStep DEF Goto, EndUpdate
<1>5. ASSUME Handle(c), ~AbortCopy(c), ~ExpandRouter(c), ~RefuseShrink(c), ~ReportExpansion(c),
             ~ExpandStore(c)
      PROVE  /\ pc[c] \notin {"route", "report", "grow", "aborted"}
             /\ pc'[c] \notin {"route", "report", "grow"}
  <2>1. CASE Write(c) \/ Merge(c) \/ Compare(c) \/ Insert(c) \/ Remove(c)
    BY <1>4, <2>1
  <2>2. CASE GetCached(c) \/ LookupAbsent(c) \/ LookupEntry(c) \/ LookupPanic(c)
    BY <1>1, <2>2 DEF GetCached, LookupAbsent, LookupEntry, LookupPanic, Goto
  <2>3. CASE CopyEntry(c) \/ PutCached(c) \/ Respond(c) \/ FindNothing(c) \/ Flush(c)
    BY <1>1, <2>3 DEF CopyEntry, PutCached, Respond, FindNothing, Flush, Goto
  <2> QED
    BY <1>5, <2>1, <2>2, <2>3 DEF Handle
<1>6. CASE AbortCopy(c)
  BY <1>6 DEF AbortCopy
<1>7. CASE Clock \/ UNCHANGED vars \/ \E t \in Tables : Draftsman(t)
  BY <1>7 DEF Clock, Draftsman, vars
<1> QED
  BY <1>2, <1>3, <1>5, <1>6, <1>7 DEF ServerNext

LEMMA ExpandInit == ServerInit => ExpandInv
<1> SUFFICES ASSUME ServerInit PROVE ExpandInv
  OBVIOUS
<1>1. routerShards = InitShards /\ shardLen = InitShards /\ leaked = FALSE
  BY DEF ServerInit, Boot, StoreInit
<1>2. \A c \in Clients : pc[c] = "idle"
  BY DEF ServerInit
<1>3. InitShards \in Nat
  BY StoreAssumption
<1> QED
  BY <1>1, <1>2, <1>3 DEF ExpandInv, Expanding

LEMMA ExpandNext == TypeInv /\ ExpandInv /\ [ServerNext]_vars => ExpandInv'
<1> SUFFICES ASSUME TypeInv, ExpandInv, [ServerNext]_vars PROVE ExpandInv'
  OBVIOUS
<1>1. /\ StoreTypeOK /\ pc \in [Clients -> Labels] /\ req \in [Clients -> Locals]
      /\ routerShards \in Nat /\ shardLen \in Nat /\ MaxShards \in Nat
  BY StoreAssumption DEF TypeInv, ServerTypeOK, StoreTypeOK
<1>2. \A c \in Clients : req[c].shards \in Nat /\ req[c].before \in Nat
  BY <1>1 DEF Locals
<1>3. CASE UNCHANGED <<routerShards, shardLen>>
  <2>1. ASSUME NEW c \in Clients
        PROVE  /\ pc'[c] = "route" => req'[c].before <= routerShards
               /\ Expanding(c)' => req'[c].shards <= routerShards
               /\ CatchingUp(c) /\ shardLen < routerShards
                    => CatchingUp(c)' \/ pc'[c] = "aborted"
               /\ pc[c] = "aborted" => pc'[c] = "aborted"
    <3>1. CASE pc'[c] = pc[c] /\ req'[c].shards = req[c].shards /\ req'[c].before = req[c].before
      BY <1>3, <3>1 DEF ExpandInv, Expanding, CatchingUp
    <3>2. CASE /\ pc[c] \notin {"route", "report", "grow", "aborted"}
               /\ pc'[c] \notin {"route", "report", "grow"}
      BY <3>2 DEF Expanding, CatchingUp
    <3>3. CASE pc'[c] = "aborted"
      BY <3>3 DEF Expanding, CatchingUp
    <3>4. ASSUME NEW n \in 1 .. MaxShards, StartExpand(c, n)
          PROVE  /\ pc[c] = "idle" /\ pc'[c] = "route" /\ req'[c].before = routerShards
      BY <1>1, <3>4 DEF StartExpand, Start, Goto, Idle
    <3>5. CASE ExpandRouter(c)
      <4>1. /\ pc[c] = "route" /\ pc'[c] = "report" /\ req'[c].shards = req[c].shards
            /\ routerShards' = req[c].shards
        BY <1>1, <3>5, ReroutedStep DEF ExpandRouter, SameRequest, GrowRouter
      <4> QED
        BY <1>1, <1>2, <1>3, <4>1 DEF Expanding, CatchingUp
    <3>6. CASE RefuseShrink(c)
      BY <1>1, <3>6 DEF RefuseShrink, Goto, Expanding, CatchingUp
    <3>7. CASE ReportExpansion(c)
      <4>1. CASE routerShards <= req[c].before
        BY <1>1, <1>2, <3>7, <4>1 DEF ReportExpansion, Goto, Expanding, CatchingUp
      <4>2. CASE ~(routerShards <= req[c].before)
        <5>1. pc[c] = "report" /\ pc'[c] = "grow" /\ req'[c] = req[c]
          BY <1>1, <3>7, <4>2 DEF ReportExpansion, Goto
        <5> QED
          BY <1>3, <5>1 DEF ExpandInv, Expanding, CatchingUp
      <4> QED
        BY <4>1, <4>2
    <3>8. CASE ExpandStore(c)
      <4>1. pc[c] = "grow" /\ pc'[c] = "idle" /\ req[c].shards \in 1 .. MaxShards
        BY <1>1, <3>8, InHand DEF ExpandStore
      <4>2. shardLen' = IF req[c].shards <= shardLen THEN shardLen ELSE req[c].shards
        BY <3>8 DEF ExpandStore, GrowShards, NewShardLen
      <4>3. ~(CatchingUp(c) /\ shardLen < routerShards)
        BY <1>1, <1>2, <1>3, <4>2 DEF CatchingUp
      <4> QED
        BY <4>1, <4>3 DEF Expanding
    <3>9. CASE \E n \in 1 .. MaxShards : StartExpand(c, n)
      BY <1>1, <3>4, <3>9 DEF Expanding, CatchingUp
    <3> QED
      BY <3>1, <3>2, <3>3, <3>5, <3>6, <3>7, <3>8, <3>9, ExpanderStep
  <2>2. leaked' => shardLen < routerShards
    <3>1. ASSUME NEW c \in Clients, LookupPanic(c) PROVE shardLen < routerShards
      <4>1. req[c].key \in Keys /\ Route(req[c].key) >= shardLen
        BY <3>1, InHand DEF LookupPanic
      <4>2. Route(req[c].key) \in Nat /\ Route(req[c].key) < routerShards
        BY <1>1, <4>1, RouteFacts
      <4> QED
        BY <1>1, <4>1, <4>2
    <3> QED
      BY <3>1, LeakStep DEF ExpandInv
  <2> QED
    BY <1>3, <2>1, <2>2 DEF ExpandInv
<1>4. ASSUME NEW c \in Clients, ExpandRouter(c) PROVE ExpandInv'
  <2> DEFINE n == req[c].shards
  <2>1. /\ pc[c] = "route" /\ pc' = [pc EXCEPT ![c] = "report"] /\ leaked' = leaked
        /\ n >= routerShards /\ routerShards' = n /\ shardLen' = shardLen
        /\ \A q \in Clients : req'[q].shards = req[q].shards /\ req'[q].before = req[q].before
    BY <1>4, ReroutedStep DEF ExpandRouter, GrowRouter, SameRequest
  <2>2. n \in Nat /\ req[c].before <= routerShards
    BY <1>2, <2>1 DEF ExpandInv
  <2>3. pc'[c] = "report" /\ \A q \in Clients \ {c} : pc'[q] = pc[q]
    BY <1>1, <2>1
  <2>4. \A q \in Clients : /\ pc'[q] = "route" => req'[q].before <= routerShards'
                           /\ Expanding(q)' => req'[q].shards <= routerShards'
    BY <1>1, <1>2, <2>1, <2>2, <2>3 DEF ExpandInv, Expanding
  <2>5. CASE n = routerShards
    <3>1. \A q \in Clients : pc[q] = "aborted" \/ CatchingUp(q)
                               => pc'[q] = "aborted" \/ CatchingUp(q)'
      BY <2>1, <2>3, <2>5 DEF CatchingUp, Expanding
    <3> QED
      BY <1>1, <2>1, <2>4, <2>5, <3>1 DEF ExpandInv
  <2>6. CASE n # routerShards
    <3>4. n >= routerShards /\ shardLen <= routerShards /\ req[c].before \in Nat
      BY <1>2, <2>1 DEF ExpandInv
    <3>1. shardLen < n /\ req[c].before < n
      BY <1>1, <2>2, <2>6, <3>4
    <3>2. CatchingUp(c)'
      BY <2>1, <2>3, <3>1 DEF CatchingUp, Expanding
    <3>3. shardLen' < routerShards' /\ shardLen' <= routerShards'
      BY <1>1, <2>1, <2>2, <3>1
    <3> QED
      BY <2>4, <3>2, <3>3 DEF ExpandInv
  <2> QED
    BY <2>5, <2>6
<1>5. ASSUME NEW c \in Clients, ExpandStore(c) PROVE ExpandInv'
  <2> DEFINE n == req[c].shards
  <2>1. /\ pc[c] = "grow" /\ pc' = [pc EXCEPT ![c] = "idle"] /\ leaked' = leaked /\ ~leaked
        /\ routerShards' = routerShards
        /\ shardLen' = IF n <= shardLen THEN shardLen ELSE n
        /\ \A q \in Clients \ {c} : /\ req'[q].shards = req[q].shards
                                    /\ req'[q].before = req[q].before
    BY <1>5, ReroutedStep
       DEF ExpandStore, GrowShards, NewShardLen, SameRequest, CanLock
  <2>2. n \in Nat /\ n <= routerShards
    BY <1>2, <2>1 DEF ExpandInv, Expanding
  <2>3. pc'[c] = "idle" /\ \A q \in Clients \ {c} : pc'[q] = pc[q]
    BY <1>1, <2>1
  <2>4. shardLen' <= routerShards'
    BY <1>1, <2>1, <2>2 DEF ExpandInv
  <2>5. \A q \in Clients : /\ pc'[q] = "route" => req'[q].before <= routerShards'
                           /\ Expanding(q)' => req'[q].shards <= routerShards'
    BY <2>1, <2>3 DEF ExpandInv, Expanding
  <2>6. ASSUME shardLen' < routerShards'
        PROVE  \E q \in Clients : pc'[q] = "aborted" \/ CatchingUp(q)'
    <3>1. shardLen < routerShards /\ n # routerShards
      BY <1>1, <2>1, <2>2, <2>6
    <3>2. PICK q \in Clients : pc[q] = "aborted" \/ CatchingUp(q)
      BY <3>1 DEF ExpandInv
    <3>3. q # c
      BY <2>1, <3>1, <3>2 DEF CatchingUp
    <3> QED
      BY <2>1, <2>3, <3>2, <3>3 DEF CatchingUp, Expanding
  <2> QED
    BY <2>1, <2>4, <2>5, <2>6 DEF ExpandInv
<1> QED
  BY <1>3, <1>4, <1>5, CountsStep

LEMMA AlwaysExpandInv == ServerSpec => []ExpandInv
BY ExpandInit, ExpandNext, AlwaysTypeInv, PTL DEF ServerSpec

(* Concurrent expansions to different counts, each of them two steps on    *)
(* two locks, never leave the store ahead of the router, and leave it      *)
(* behind only while some expansion between its steps carries exactly the  *)
(* router's count and has seen it change, or the process was aborted.      *)
THEOREM ShardCountsAgree == ServerSpec => []ShardsMatchRouter
<1>1. TypeInv /\ ExpandInv => ShardsMatchRouter
  <2> SUFFICES ASSUME TypeInv, ExpandInv PROVE ShardsMatchRouter
    OBVIOUS
  <2> QED
    BY DEF ExpandInv, ShardsMatchRouter
<1> QED
  BY <1>1, AlwaysTypeInv, AlwaysExpandInv, PTL

(* Only a read that falls into the gap of an expansion panics with the     *)
(* store's read lock held, and that expansion can then never finish.       *)
THEOREM LeaksOnlyInTheGap == ServerSpec => []LeakMeansHalfExpanded
<1>1. ExpandInv => LeakMeansHalfExpanded
  BY DEF ExpandInv, LeakMeansHalfExpanded
<1> QED
  BY <1>1, AlwaysExpandInv, PTL

(* "Old shards keep their data": no step of any expansion drops or alters  *)
(* an entry or shrinks the store.                                          *)
THEOREM NoEntryLost == ServerSpec => ExpansionKeepsData
<1> DEFINE Changed == <<routerShards, shardLen>>' # <<routerShards, shardLen>>
           Kept == /\ shardLen' >= shardLen
                   /\ \A i \in 0 .. shardLen - 1 : shards'[i] = shards[i]
<1>1. ASSUME TypeInv, [ServerNext]_vars, Changed PROVE Kept
  <2>1. shardLen \in Nat /\ StoreTypeOK
    BY <1>1, StoreAssumption DEF TypeInv, ServerTypeOK, StoreTypeOK
  <2>2. PICK c \in Clients : ExpandRouter(c) \/ ExpandStore(c)
    BY <1>1, CountsStep
  <2>3. CASE ExpandRouter(c)
    BY <2>1, <2>3 DEF ExpandRouter, GrowRouter
  <2>4. CASE ExpandStore(c)
    <3>1. req[c].shards \in 1 .. MaxShards /\ GrowShards(req[c].shards)
      BY <1>1, <2>4, InHand DEF ExpandStore
    <3>2. req[c].shards \in Nat
      BY <3>1, StoreAssumption
    <3> QED
      BY <2>1, <3>1, <3>2, GrowShardsStep
  <2> QED
    BY <2>2, <2>3, <2>4
<1>2. TypeInv /\ [ServerNext]_vars => [Changed => Kept]_vars
  BY <1>1
<1> QED
  BY <1>2, AlwaysTypeInv, PTL DEF ServerSpec, ExpansionKeepsData

-----------------------------------------------------------------------------
(* Cache coherence *)

(* A read that was not overtaken since its lookup still sees what it       *)
(* looked up: what it is about to copy, or has copied, is what the store   *)
(* holds now.                                                              *)
FreshCopy(r, entry) ==
  /\ entry # None
  /\ r.map = LiveMap(entry.fields) /\ r.former = {} /\ r.ids = {entry.version}

FreshInv ==
  \A c \in Clients, k \in Keys :
    req[c].key = k /\ ~req[c].raced =>
      /\ pc[c] = "copy" => FreshCopy(req[c], Live(k))
      /\ pc[c] = "put" => req[c].snap = View(Live(k), req[c].ver)

(* The live entry of a key changes with the shard counts, or by an update  *)
(* that empties the key's cache line under the same lock.                  *)
LEMMA LiveStep ==
  ASSUME TypeInv, [ServerNext]_vars, NEW k \in Keys
  PROVE  \/ Live(k)' = Live(k) /\ HomeShard(k)' = HomeShard(k)
         \/ /\ Live(k)' \in Entry \cup {None} /\ cache'[k] = EmptyCacheLine
            /\ \A j \in Keys \ {k} : Live(j)' = Live(j)
            /\ \E c \in Clients : req[c].key = k /\ EndUpdate(c)
                                  /\ pc[c] \in {"write", "merge", "compare", "insert", "delete"}
         \/ \E c \in Clients : ExpandRouter(c) \/ ExpandStore(c)
<1> DEFINE Same == Live(k)' = Live(k) /\ HomeShard(k)' = HomeShard(k)
<1>1. StoreTypeOK
  BY DEF TypeInv, ServerTypeOK
<1>2. ASSUME UNCHANGED <<routerShards, shardLen, shards>> PROVE Same
  BY <1>2 DEF Live, HomeShard, Route
<1>3. ASSUME NEW c \in Clients, Request(c) PROVE Same
  BY <1>2, <1>3 DEF Request, StartRead, StartUpdate, StartExpand, Switch, storeVars
<1>4. ASSUME NEW c \in Clients, Write(c) \/ Merge(c) \/ Compare(c) \/ Insert(c) \/ Remove(c)
      PROVE  \/ Same
             \/ /\ Live(k)' \in Entry \cup {None} /\ cache'[k] = EmptyCacheLine
                /\ \A j \in Keys \ {k} : Live(j)' = Live(j)
                /\ req[c].key = k /\ EndUpdate(c)
                /\ pc[c] \in {"write", "merge", "compare", "insert", "delete"}
  <2>1. CASE UNCHANGED storeVars
    BY <1>2, <2>1 DEF storeVars
  <2>2. ASSUME NEW j \in Keys, NEW e \in Entry \cup {None}, PutEntry(j, e)
        PROVE  /\ Live(j)' = e /\ cache'[j] = EmptyCacheLine
               /\ \A i \in Keys : HomeShard(i)' = HomeShard(i)
               /\ \A i \in Keys \ {j} : Live(i)' = Live(i)
    BY <1>1, <2>2, PutEntryStep
  <2>3. ASSUME EndUpdate(c), NEW e \in Entry \cup {None}, PutEntry(req[c].key, e)
        PROVE  \/ Same
               \/ /\ Live(k)' \in Entry \cup {None} /\ cache'[k] = EmptyCacheLine
                  /\ \A j \in Keys \ {k} : Live(j)' = Live(j)
                  /\ req[c].key = k /\ EndUpdate(c)
                  /\ pc[c] \in {"write", "merge", "compare", "insert", "delete"}
    <3>1. req[c].key \in Keys /\ pc[c] \in {"write", "merge", "compare", "insert", "delete"}
      BY <1>4, UpdateStep
    <3>2. PICK j \in Keys : j = req[c].key
      BY <3>1
    <3>3. PutEntry(j, e)
      BY <2>3, <3>2
    <3>4. /\ Live(j)' = e /\ cache'[j] = EmptyCacheLine
          /\ \A i \in Keys : HomeShard(i)' = HomeShard(i)
          /\ \A i \in Keys \ {j} : Live(i)' = Live(i)
      BY <2>2, <3>3
    <3> QED
      BY <2>3, <3>1, <3>2, <3>4
  <2> QED
    BY <1>4, <2>1, <2>3, UpdateStep
<1>5. ASSUME NEW c \in Clients,
             \/ GetCached(c) \/ LookupAbsent(c) \/ LookupEntry(c) \/ LookupPanic(c)
             \/ CopyEntry(c) \/ AbortCopy(c) \/ PutCached(c) \/ Respond(c) \/ FindNothing(c)
             \/ Flush(c) \/ RefuseShrink(c) \/ ReportExpansion(c)
      PROVE  Same
  <2>1. UNCHANGED <<routerShards, shardLen, shards>>
    BY <1>5 DEF GetCached, LookupAbsent, LookupEntry, LookupPanic, CopyEntry, AbortCopy, PutCached,
            Respond, FindNothing, CompareAbsent, Flush, RefuseShrink, ReportExpansion, storeVars,
            CachePut, ClearCache
  <2> QED
    BY <1>2, <2>1
<1>6. CASE Clock \/ UNCHANGED vars \/ \E t \in Tables : Draftsman(t)
  BY <1>2, <1>6 DEF Clock, Draftsman, vars, storeVars
<1>7. ASSUME NEW c \in Clients, Handle(c)
      PROVE  \/ Same \/ ExpandRouter(c) \/ ExpandStore(c)
             \/ Write(c) \/ Merge(c) \/ Compare(c) \/ Insert(c) \/ Remove(c)
  BY <1>5, <1>7 DEF Handle
<1>8. CASE \E c \in Clients : Handle(c)
  BY <1>4, <1>7, <1>8
<1>9. CASE \E c \in Clients : Request(c)
  BY <1>3, <1>9
<1> QED
  BY <1>6, <1>8, <1>9 DEF ServerNext

LEMMA ViewKept ==
  ASSUME TypeInv, [ServerNext]_vars, NEW k \in Keys, NEW v, Known(v), Live(k)' = Live(k)
  PROVE  View(Live(k), v)' = View(Live(k), v)
<1>1. Layout(v)' = Layout(v)
  BY ServerManagerStep, LayoutKept DEF TypeInv
<1> QED
  BY <1>1 DEF View, EmptySnapshot, Filtered

LEMMA InFlightByRead ==
  ASSUME TypeInv, NEW c \in Clients, Request(c) \/ Handle(c), InFlight(c)'
  PROVE  LookupAbsent(c) \/ LookupEntry(c) \/ CopyEntry(c)
<1>1. pc \in [Clients -> Labels]
  BY DEF TypeInv, ServerTypeOK
<1>2. ASSUME Request(c) PROVE FALSE
  BY <1>1, <1>2 DEF Request, StartRead, StartUpdate, StartExpand, Switch, Start, Goto, InFlight
<1>3. ASSUME Write(c) \/ Merge(c) \/ Compare(c) \/ Insert(c) \/ Remove(c) PROVE FALSE
  BY <1>1, <1>3, UpdateStep DEF EndUpdate, Goto, InFlight
<1>4. ASSUME \/ GetCached(c) \/ LookupPanic(c) \/ AbortCopy(c) \/ PutCached(c) \/ Respond(c)
             \/ FindNothing(c) \/ Flush(c) \/ ExpandRouter(c) \/ RefuseShrink(c)
             \/ ReportExpansion(c) \/ ExpandStore(c)
      PROVE  FALSE
  BY <1>1, <1>4 DEF GetCached, LookupPanic, AbortCopy, PutCached, Respond, FindNothing, Flush,
                    ExpandRouter, RefuseShrink, ReportExpansion, ExpandStore, Goto, InFlight
<1> QED
  BY <1>2, <1>3, <1>4 DEF Handle

(* Copying an entry that nothing was merged into gives its fields.         *)
LEMMA CopyOfLiveMap ==
  ASSUME NEW fields \in FieldMap, NEW g \in FieldMap,
         \A f \in Fields : g[f] \in LiveMap(fields)[f]
  PROVE  g = fields
BY DEF LiveMap, FieldMap

LEMMA FreshByRead ==
  ASSUME TypeInv, FreshInv, NEW c \in Clients,
         LookupAbsent(c) \/ LookupEntry(c) \/ CopyEntry(c),
         NEW k \in Keys, req'[c].key = k, ~req'[c].raced
  PROVE  /\ pc'[c] = "copy" => FreshCopy(req'[c], Live(k))
         /\ pc'[c] = "put" => req'[c].snap = View(Live(k), req'[c].ver)
<1> DEFINE r == req[c]
           t == req'[c]
<1>1. /\ pc \in [Clients -> Labels] /\ req \in [Clients -> Locals] /\ StoreTypeOK
  BY DEF TypeInv, ServerTypeOK
<1>2. r \in Locals
  BY <1>1
<1>3. CASE LookupAbsent(c)
  <2>1. pc'[c] = "put" /\ t = [r EXCEPT !.snap = EmptySnapshot(r.ver)]
    BY <1>1, <1>3 DEF LookupAbsent, Goto
  <2> HIDE DEF r, t
  <2>2. t.key = r.key /\ t.ver = r.ver /\ t.snap = EmptySnapshot(r.ver)
    BY <1>2, <2>1 DEF Locals
  <2>3. r.key = k
    BY <2>2 DEF t
  <2>4. Route(k) < shardLen /\ shards[Route(k)][k] = None
    BY <1>3, <2>3 DEF LookupAbsent, r
  <2>5. Live(k) = None
    BY <2>4 DEF Live, HomeShard
  <2> QED
    BY <2>1, <2>2, <2>5 DEF View, t
<1>4. CASE LookupEntry(c)
  <2> DEFINE entry == shards[Route(r.key)][r.key]
  <2>1. /\ pc'[c] = "copy" /\ pc[c] = "lookup"
        /\ t = [r EXCEPT !.map = LiveMap(entry.fields), !.ids = {entry.version},
                         !.home = Route(r.key)]
        /\ Route(r.key) < shardLen /\ entry # None
    BY <1>1, <1>4 DEF LookupEntry, Goto
  <2>2. r.former = {}
    BY <2>1, InHand DEF LocalsFit, Unhooked
  <2> HIDE DEF r, t, entry
  <2>3. t.key = r.key /\ t.map = LiveMap(entry.fields) /\ t.former = {} /\ t.ids = {entry.version}
    BY <1>2, <2>1, <2>2 DEF Locals
  <2>4. Live(k) = entry
    BY <2>1, <2>3 DEF Live, HomeShard, entry, t
  <2> QED
    BY <2>1, <2>3, <2>4 DEF FreshCopy, t
<1>5. CASE CopyEntry(c)
  <2>0. PICK map \in r.former \cup {r.map}, id \in r.ids :
          \E fields \in {g \in FieldMap : \A f \in Fields : g[f] \in map[f]} :
            Goto(c, "put", [r EXCEPT !.snap = [fields  |-> Filtered(fields, r.ver),
                                               version |-> id],
                                     !.map = None, !.former = {}, !.ids = {},
                                     !.home = Detached, !.merged = FALSE])
    BY <1>5 DEF CopyEntry
  <2>1. PICK fields \in FieldMap :
          /\ \A f \in Fields : fields[f] \in map[f]
          /\ t = [r EXCEPT !.snap = [fields  |-> Filtered(fields, r.ver), version |-> id],
                           !.map = None, !.former = {}, !.ids = {},
                           !.home = Detached, !.merged = FALSE]
    BY <1>1, <2>0 DEF Goto
  <2>2. pc[c] = "copy" /\ pc'[c] = "put"
    BY <1>1, <1>5 DEF CopyEntry, Goto
  <2> HIDE DEF r, t
  <2>3. /\ t.key = r.key /\ t.ver = r.ver /\ t.raced = r.raced
        /\ t.snap = [fields |-> Filtered(fields, r.ver), version |-> id]
    BY <1>2, <2>1 DEF Locals
  <2>4. FreshCopy(r, Live(k))
    BY <2>2, <2>3 DEF FreshInv, r, t
  <2>5. Live(k) \in Entry /\ Live(k).fields \in FieldMap
    BY <1>1, <2>4, LiveType DEF FreshCopy, Entry
  <2>6. map = LiveMap(Live(k).fields) /\ id = Live(k).version
    BY <2>0, <2>4 DEF FreshCopy
  <2>7. fields = Live(k).fields
    BY <2>1, <2>5, <2>6, CopyOfLiveMap
  <2> QED
    BY <2>2, <2>3, <2>4, <2>6, <2>7 DEF FreshCopy, View, t
<1> QED
  BY <1>3, <1>4, <1>5

LEMMA FreshInit == ServerInit => FreshInv
BY DEF ServerInit, FreshInv

LEMMA FreshNext == TypeInv /\ FilterInv /\ FreshInv /\ [ServerNext]_vars => FreshInv'
<1> SUFFICES ASSUME TypeInv, FilterInv, FreshInv, [ServerNext]_vars,
                    NEW c \in Clients, NEW k \in Keys, req'[c].key = k, ~req'[c].raced
             PROVE  /\ pc'[c] = "copy" => FreshCopy(req'[c], Live(k)')
                    /\ pc'[c] = "put" => req'[c].snap = View(Live(k), req[c].ver)'
  BY DEF FreshInv, FreshCopy
<1> DEFINE Goal == /\ pc'[c] = "copy" => FreshCopy(req'[c], Live(k)')
                   /\ pc'[c] = "put" => req'[c].snap = View(Live(k), req[c].ver)'
<1>1. ASSUME Live(k)' = Live(k), NEW v, v = req'[c].ver, Known(v),
             pc'[c] = "copy" => FreshCopy(req'[c], Live(k)),
             pc'[c] = "put" => req'[c].snap = View(Live(k), v)
      PROVE  Goal
  <2>1. View(Live(k), v)' = View(Live(k), v)
    BY <1>1, ViewKept
  <2>2. View(Live(k), v)' = View(Live(k), req[c].ver)'
    BY <1>1 DEF View, EmptySnapshot, Filtered, Layout
  <2> QED
    BY <1>1, <2>1, <2>2
<1>2. CASE Request(c) \/ Handle(c)
  <2>1. CASE ~InFlight(c)'
    BY <2>1 DEF InFlight
  <2>2. CASE InFlight(c)'
    <3>1. LookupAbsent(c) \/ LookupEntry(c) \/ CopyEntry(c)
      BY <1>2, <2>2, InFlightByRead
    <3>2. Live(k)' = Live(k)
      BY <3>1 DEF LookupAbsent, LookupEntry, CopyEntry, storeVars, Live, HomeShard, Route
    <3>3. Known(req'[c].ver)
      <4>1. req'[c].ver \in {req[c].ver, Nil, ResolveActive}
        BY SnapshotStep
      <4> QED
        BY <4>1, ResolvesKnown DEF FilterInv, TypeInv, Known
    <3> QED
      BY <1>1, <3>1, <3>2, <3>3, FreshByRead
  <2> QED
    BY <2>1, <2>2
<1>3. ASSUME NEW q \in Clients \ {c}, Request(q) \/ Handle(q) PROVE Goal
  <2>1. CASE Overlooked(c)
    <3>1. ~InFlight(c) => Goal
      BY <2>1 DEF Overlooked, InFlight
    <3>2. ASSUME InFlight(c) PROVE Goal
      <4>1. req'[c] = req[c] /\ pc'[c] = pc[c] /\ Live(k)' = Live(k)
        BY <2>1, <3>2 DEF Overlooked, Undisturbed
      <4> QED
        BY <1>1, <4>1 DEF FreshInv, FilterInv
    <3> QED
      BY <3>1, <3>2
  <2>2. CASE pc'[c] = "aborted"
    BY <2>2
  <2> QED
    BY <1>3, <2>1, <2>2, BystanderStep
<1>4. CASE Clock \/ UNCHANGED vars \/ \E t \in Tables : Draftsman(t)
  <2>1. req'[c] = req[c] /\ pc'[c] = pc[c] /\ Live(k)' = Live(k)
    BY <1>4 DEF Clock, Draftsman, vars, storeVars, Live, HomeShard, Route
  <2> QED
    BY <1>1, <2>1 DEF FreshInv, FilterInv
<1> QED
  BY <1>2, <1>3, <1>4 DEF ServerNext

LEMMA AlwaysFreshInv == ServerSpec => [](FilterInv /\ FreshInv)
BY FilterInit, FilterNext, FreshInit, FreshNext, AlwaysTypeInv, PTL DEF ServerSpec

LEMMA SpoiledStep ==
  ASSUME TypeInv, FilterInv, FreshInv, [ServerNext]_vars,
         NEW k \in Keys, NEW v \in VersionRefs, ~Stale(k, v), Stale(k, v)',
         UNCHANGED <<routerShards, shardLen>>
  PROVE  \E c \in Clients : /\ pc[c] = "put" /\ pc'[c] = "done"
                            /\ req[c].raced /\ req[c].key = k /\ req[c].ver = v
<1> DEFINE Raced == \E c \in Clients : /\ pc[c] = "put" /\ pc'[c] = "done"
                                       /\ req[c].raced /\ req[c].key = k /\ req[c].ver = v
<1>1. cache'[k][v] # None /\ cache'[k][v] # View(Live(k), v)'
  BY DEF Stale, CacheHit
<1>2. CASE cache'[k][v] = cache[k][v]
  <2>1. Known(v) /\ cache[k][v] = View(Live(k), v)
    BY <1>1, <1>2 DEF Stale, CacheHit, FilterInv
  <2>2. Live(k)' # Live(k)
    BY <1>1, <1>2, <2>1, ViewKept
  <2>3. cache'[k] # EmptyCacheLine
    BY <1>1 DEF EmptyCacheLine
  <2>4. PICK c \in Clients : ExpandRouter(c) \/ ExpandStore(c)
    BY <2>2, <2>3, LiveStep
  <2>5. shardLen' = shardLen /\ routerShards' = routerShards
    OBVIOUS
  <2>6. CASE ExpandRouter(c)
    BY <2>2, <2>5, <2>6 DEF ExpandRouter, GrowRouter, Live, HomeShard, Route
  <2>7. CASE ExpandStore(c)
    <3>1. StoreTypeOK /\ req[c].shards \in 1 .. MaxShards /\ GrowShards(req[c].shards)
      BY <2>7, InHand DEF ExpandStore, TypeInv, ServerTypeOK
    <3>2. \A i \in 0 .. shardLen - 1 : shards'[i] = shards[i]
      BY <3>1, GrowShardsStep
    <3>3. HomeShard(k) \in 0 .. shardLen - 1
      BY <3>1, RouteFacts, StoreAssumption DEF StoreTypeOK, ShardIDs
    <3>4. HomeShard(k)' = HomeShard(k)
      BY <2>5 DEF HomeShard, Route
    <3> QED
      BY <2>2, <3>2, <3>3, <3>4 DEF Live
  <2> QED
    BY <2>4, <2>6, <2>7
<1>3. ASSUME NEW c \in Clients, PutCached(c), req[c].key = k, req[c].ver = v,
             cache'[k][v] = req[c].snap
      PROVE  Raced
  <2>1. pc[c] = "put" /\ pc'[c] = "done"
    BY <1>3 DEF PutCached, Goto, TypeInv, ServerTypeOK
  <2>2. Live(k)' = Live(k) /\ Known(v)
    BY <1>3 DEF PutCached, CachePut, Live, HomeShard, Route, FilterInv
  <2>3. View(Live(k), v)' = View(Live(k), v)
    BY <2>2, ViewKept
  <2>4. req[c].raced
    BY <1>1, <1>3, <2>1, <2>3 DEF FreshInv
  <2> QED
    BY <1>3, <2>1, <2>4
<1>4. cache'[k][v] = cache[k][v]
      \/ \E c \in Clients : /\ PutCached(c) /\ req[c].key = k /\ req[c].ver = v
                            /\ cache'[k][v] = req[c].snap
  BY <1>1, CacheStep
<1> QED
  BY <1>2, <1>3, <1>4

(* A cached read that is not stale becomes stale only in the step in which *)
(* a reader that was overtaken puts what it found before, or in a step     *)
(* that changes the router's or the store's shard count: writes and        *)
(* deletes empty the cache line they outdate under the same lock, and no   *)
(* publish, rollback or creation changes what a cached version shows.      *)
THEOREM OnlyRacesStale == ServerSpec => StaleOnlyByRace
<1> DEFINE Spoiled ==
             \A k \in Keys, v \in VersionRefs :
               (~Stale(k, v) /\ Stale(k, v)') =>
                  \/ \E c \in Clients : /\ pc[c] = "put" /\ pc'[c] = "done"
                                        /\ req[c].raced /\ req[c].key = k /\ req[c].ver = v
                  \/ <<routerShards, shardLen>>' # <<routerShards, shardLen>>
<1>1. TypeInv /\ FilterInv /\ FreshInv /\ [ServerNext]_vars => [Spoiled]_vars
  BY SpoiledStep
<1> QED
  BY <1>1, AlwaysTypeInv, AlwaysFreshInv, PTL DEF ServerSpec, StaleOnlyByRace
=============================================================================
