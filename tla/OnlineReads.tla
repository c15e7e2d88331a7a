---------------------------- MODULE OnlineReads -----------------------------
(***************************************************************************)
(* The running server: HTTP handlers, one goroutine per request, that read *)
(* and update the store, switch versions and expand the shards, all at the *)
(* same time.  A client is one such goroutine; pc says which lock it takes *)
(* or which unlocked work it does next.                                    *)
(*                                                                         *)
(* A read crosses four locks and holds none of them in between: it         *)
(* resolves the active version (Manager.mu), asks the cache (ReadCache.mu),*)
(* looks the entry up (Store.mu, shared), copies the entry WITHOUT a lock  *)
(* and puts the copy into the cache (ReadCache.mu).                        *)
(***************************************************************************)
EXTENDS Store

CONSTANTS
  Clients,      \* goroutines serving requests
  Ops,          \* the kinds of requests they are sent
  KeysOf,       \* KeysOf[c]: the keys named in the requests c is sent
  Payloads,     \* the field maps they write
  WriteRefs     \* the version ids they write under

(* The field maps an unlocked reader may meet: what each field has been.    *)
FieldHistory == [Fields -> (SUBSET (Values \cup {NoValue})) \ {{}}]

ASSUME ServerAssumption ==
  /\ None \notin Clients \cup Keys \cup FieldHistory
  /\ KeysOf \in [Clients -> SUBSET Keys]
  /\ Payloads \subseteq FieldMap
  /\ WriteRefs \subseteq VersionRefs

VARIABLES
  pc,      \* what each client does next
  req,     \* the locals of its handler
  leaked   \* a handler panicked and never released its read lock on Store.mu

vars == <<versionVars, storeVars, pc, req, leaked>>

Detached == MaxShards  \* not a shard: the entry was deleted from its map

(* key, ver: what is read or written; snap: the snapshot to put and reply; *)
(* map, former, ids: what the entry the handler points to has had since    *)
(* the lookup, namely its field map, the maps it had before that one, and  *)
(* its version ids; home: the shard holding that entry; merged: its map    *)
(* was assigned to in place; at: the time Write took before it got the     *)
(* lock; shards, before: an expansion's target and the count it started    *)
(* from.  raced is a history variable: the key's entry was rewritten,      *)
(* removed or re-routed since the lookup.                                  *)
Idle == [key |-> None, ver |-> Nil, snap |-> None, map |-> None, former |-> {},
         ids |-> {}, home |-> Detached, merged |-> FALSE, raced |-> FALSE,
         at |-> ZeroTime, shards |-> 0, before |-> 0]

(* A field map as an unlocked reader meets it: for each field the values   *)
(* (or absences) it has had since the lookup.                              *)
LiveMap(fields) == [f \in Fields |-> {fields[f]}]

MergedInto(map, fields) == [f \in Fields |-> map[f] \cup {fields[f]}]

LockWaiters == {"write", "merge", "compare", "delete", "grow"}

(* sync.RWMutex: a pending Lock keeps new readers out, so once a read lock *)
(* is never released, the first writer to arrive blocks everyone.  Only    *)
(* CompareAndWrite holds the lock from one step to the next.               *)
LockHeld == \E q \in Clients : pc[q] = "insert"

CanLock  == ~leaked /\ ~LockHeld
CanRLock == ~LockHeld /\ (leaked => \A q \in Clients : pc[q] \notin LockWaiters)

ServerInit ==
  /\ Boot
  /\ pc = [c \in Clients |-> "idle"]
  /\ req = [c \in Clients |-> Idle]
  /\ leaked = FALSE

Goto(c, label, locals) ==
  /\ pc' = [pc EXCEPT ![c] = label]
  /\ req' = [req EXCEPT ![c] = locals]

Start(c, op, label, locals) ==
  /\ op \in Ops
  /\ pc[c] = "idle"
  /\ Goto(c, label, locals)

-----------------------------------------------------------------------------
(* Read and ReadVersion(key, "") *)

StartRead(c, k) ==
  /\ Start(c, "read", "get", [Idle EXCEPT !.key = k, !.ver = ResolveActive])
  /\ UNCHANGED <<versionVars, storeVars, leaked>>

GetCached(c) ==
  LET r == req[c] IN
  /\ pc[c] = "get"
  /\ IF CacheHit(r.key, r.ver)
     THEN Goto(c, "done", [r EXCEPT !.snap = cache[r.key][r.ver]])
     ELSE Goto(c, "lookup", r)
  /\ UNCHANGED <<versionVars, storeVars, leaked>>

LookupAbsent(c) ==
  LET r == req[c] IN
  /\ pc[c] = "lookup" /\ CanRLock
  /\ Route(r.key) < shardLen
  /\ shards[Route(r.key)][r.key] = None
  /\ Goto(c, "put", [r EXCEPT !.snap = EmptySnapshot(r.ver)])
  /\ UNCHANGED <<versionVars, storeVars, leaked>>

LookupEntry(c) ==
  LET r == req[c]
      entry == shards[Route(r.key)][r.key] IN
  /\ pc[c] = "lookup" /\ CanRLock
  /\ Route(r.key) < shardLen
  /\ entry # None
  /\ Goto(c, "copy", [r EXCEPT !.map = LiveMap(entry.fields), !.ids = {entry.version},
                               !.home = Route(r.key)])
  /\ UNCHANGED <<versionVars, storeVars, leaked>>

(* The route is beyond the shard slice: the index panics between RLock and *)
(* RUnlock.  net/http recovers the panic, the read lock is never released. *)
LookupPanic(c) ==
  /\ pc[c] = "lookup" /\ CanRLock
  /\ Route(req[c].key) >= shardLen
  /\ Goto(c, "idle", Idle)
  /\ leaked' = TRUE
  /\ UNCHANGED <<versionVars, storeVars>>

(* entrySnapshot copies the live entry without a lock.  The copy iterates  *)
(* over one map of the entry, in any order: while a merge assigns to that  *)
(* map each field may be read before or after, and so may the version id.  *)
CopyEntry(c) ==
  LET r == req[c] IN
  /\ pc[c] = "copy"
  /\ \E map \in r.former \cup {r.map}, id \in r.ids :
     \E fields \in {g \in FieldMap : \A f \in Fields : g[f] \in map[f]} :
       Goto(c, "put", [r EXCEPT !.snap = [fields  |-> Filtered(fields, r.ver),
                                          version |-> id],
                                !.map = None, !.former = {}, !.ids = {},
                                !.home = Detached, !.merged = FALSE])
  /\ UNCHANGED <<versionVars, storeVars, leaked>>

(* Go's map iteration may notice the assignment and abort the process.     *)
AbortCopy(c) ==
  /\ pc[c] = "copy" /\ req[c].merged
  /\ pc' = [q \in Clients |-> "aborted"]
  /\ req' = [q \in Clients |-> Idle]
  /\ UNCHANGED <<versionVars, storeVars, leaked>>

PutCached(c) ==
  LET r == req[c] IN
  /\ pc[c] = "put"
  /\ CachePut(r.key, r.ver, r.snap)
  /\ Goto(c, "done", [r EXCEPT !.raced = FALSE])
  /\ UNCHANGED <<versionVars, leaked>>

(* The handler writes its response. *)
Respond(c) ==
  /\ pc[c] = "done"
  /\ Goto(c, "idle", Idle)
  /\ UNCHANGED <<versionVars, storeVars, leaked>>

-----------------------------------------------------------------------------
(* Write, MergeWrite, CompareAndWrite and Delete *)

StartUpdate(c, op, k) ==
  /\ op \in {"write", "merge", "compare", "delete"}
  /\ Start(c, op, op, [Idle EXCEPT !.key = k,
                                   !.at = IF op = "write" THEN now ELSE ZeroTime])
  /\ UNCHANGED <<versionVars, storeVars, leaked>>

InFlight(q) == pc[q] \in {"copy", "put"}

(* What an update of key k does to the locals of a handler q that reads k: *)
(* the entry q points to is the one rewritten or removed, unless it was    *)
(* removed before or lies in a shard the key is no longer routed to.  An   *)
(* insertion replaces the entry itself, a merge assigns into its field     *)
(* map, other writes replace that map.                                     *)
Touched(q, k, op) ==
  LET r == req[q]
      entry == shards'[HomeShard(k)][k]
      raced == [r EXCEPT !.raced = TRUE] IN
  IF ~(InFlight(q) /\ r.key = k) THEN r
  ELSE IF r.home # HomeShard(k) THEN raced
  ELSE IF entry = None \/ op = "insert" THEN [raced EXCEPT !.home = Detached]
  ELSE IF op = "merge"
       THEN [raced EXCEPT !.map = MergedInto(@, entry.fields), !.merged = TRUE,
                          !.ids = @ \cup {entry.version}]
       ELSE [raced EXCEPT !.map = LiveMap(entry.fields), !.former = @ \cup {r.map},
                          !.ids = @ \cup {entry.version}]

EndUpdate(c) ==
  /\ pc' = [pc EXCEPT ![c] = "idle"]
  /\ req' = [q \in Clients |-> IF q = c THEN Idle
                              ELSE Touched(q, req[c].key, pc[c])]
  /\ UNCHANGED <<versionVars, leaked>>

Write(c) ==
  /\ pc[c] = "write" /\ CanLock
  /\ \E fields \in Payloads, v \in WriteRefs :
       WriteAt(req[c].key, fields, v, req[c].at)
  /\ EndUpdate(c)

(* A row of an import (module Importer): the columns of the file that the  *)
(* table has.                                                              *)
Merge(c) ==
  /\ pc[c] = "merge" /\ CanLock
  /\ \E fields \in Payloads, window \in SUBSET Fields, v \in WriteRefs :
       MergeWrite(req[c].key, fields, window, v)
  /\ EndUpdate(c)

(* The backfill handler passes a version it found in the manager. *)
Compare(c) ==
  /\ pc[c] = "compare" /\ CanLock
  /\ \E fields \in Payloads, v \in WriteRefs \cap VersionIDs :
       /\ CompareAndWrite(req[c].key, fields, v)
       /\ IF IsStale(req[c].key, v)
          THEN Goto(c, "idle", Idle) /\ UNCHANGED <<versionVars, leaked>>
          ELSE EndUpdate(c)

(* Nothing to compare with: the lock is kept until a new entry is in.      *)
FindNothing(c) ==
  /\ pc[c] = "compare" /\ CanLock
  /\ CompareAbsent(req[c].key)
  /\ Goto(c, "insert", req[c])
  /\ UNCHANGED <<versionVars, leaked>>

Insert(c) ==
  /\ pc[c] = "insert"
  /\ \E fields \in Payloads, v \in WriteRefs \cap VersionIDs :
       InsertEntry(req[c].key, fields, v)
  /\ EndUpdate(c)

Remove(c) ==
  /\ pc[c] = "delete" /\ CanLock
  /\ Delete(req[c].key)
  /\ EndUpdate(c)

-----------------------------------------------------------------------------
(* Version switches: the manager's step, then the cache hooks *)

(* No request creates a version or registers a table; code linked with the *)
(* server may.                                                             *)
Draftsman(t) ==
  /\ \A c \in Clients : pc[c] # "aborted"
  /\ \E fields \in Schemas[t] : Create(t, fields)
  /\ UNCHANGED <<storeVars, pc, req, leaked>>

Switch(c, id) ==
  /\ Start(c, "switch", "flush", Idle)
  /\ Publish(id) \/ Rollback(id)
  /\ UNCHANGED <<storeVars, leaked>>

Flush(c) ==
  /\ pc[c] = "flush"
  /\ ClearCache
  /\ Goto(c, "idle", Idle)
  /\ UNCHANGED <<versionVars, leaked>>

-----------------------------------------------------------------------------
(* Shard expansion: Router.Expand, then Store.ExpandShards *)

StartExpand(c, n) ==
  /\ Start(c, "expand", "route", [Idle EXCEPT !.shards = n, !.before = routerShards])
  /\ UNCHANGED <<versionVars, storeVars, leaked>>

(* Every read in flight may now hold an entry its key is not routed to.    *)
Rerouted(q) == IF InFlight(q) THEN [req[q] EXCEPT !.raced = TRUE] ELSE req[q]

ExpandRouter(c) ==
  /\ pc[c] = "route"
  /\ GrowRouter(req[c].shards)
  /\ pc' = [pc EXCEPT ![c] = "report"]
  /\ req' = [q \in Clients |-> Rerouted(q)]
  /\ UNCHANGED <<versionVars, leaked>>

(* "cannot shrink" *)
RefuseShrink(c) ==
  /\ pc[c] = "route"
  /\ req[c].shards < routerShards
  /\ Goto(c, "idle", Idle)
  /\ UNCHANGED <<versionVars, storeVars, leaked>>

ReportExpansionByTwo(c) ==
  /\ pc[c] = "report"
  /\ IF routerShards <= req[c].before + 1
     THEN Goto(c, "idle", Idle)
     ELSE Goto(c, "grow", req[c])
  /\ UNCHANGED <<versionVars, storeVars, leaked>>

(* Expand reads the count again and fails when nothing changed.            *)
ReportExpansion(c) ==
  /\ pc[c] = "report"
  /\ IF routerShards <= req[c].before
     THEN Goto(c, "idle", Idle)
     ELSE Goto(c, "grow", req[c])
  /\ UNCHANGED <<versionVars, storeVars, leaked>>

ExpandStore(c) ==
  /\ pc[c] = "grow" /\ CanLock
  /\ GrowShards(req[c].shards)
  /\ pc' = [pc EXCEPT ![c] = "idle"]
  /\ req' = [q \in Clients |-> IF q = c THEN Idle ELSE Rerouted(q)]
  /\ UNCHANGED <<versionVars, leaked>>

-----------------------------------------------------------------------------

Clock ==
  /\ Tick
  /\ UNCHANGED <<storeVars, pc, req, leaked>>

Request(c) ==
  \/ \E k \in KeysOf[c] : StartRead(c, k) \/ \E op \in Ops : StartUpdate(c, op, k)
  \/ \E id \in VersionIDs : Switch(c, id)
  \/ \E n \in 1 .. MaxShards : StartExpand(c, n)

(* Once it has a request a handler runs to its end. *)
Handle(c) ==
  \/ GetCached(c) \/ LookupAbsent(c) \/ LookupEntry(c) \/ LookupPanic(c)
  \/ CopyEntry(c) \/ AbortCopy(c) \/ PutCached(c) \/ Respond(c)
  \/ Write(c) \/ Merge(c) \/ Compare(c) \/ FindNothing(c) \/ Insert(c) \/ Remove(c)
  \/ Flush(c)
  \/ ExpandRouter(c) \/ RefuseShrink(c) \/ ReportExpansion(c) \/ ExpandStore(c)

ServerNext ==
  \/ \E c \in Clients : Request(c) \/ Handle(c)
  \/ \E t \in Tables : Draftsman(t)
  \/ Clock

ServerSpec == ServerInit /\ [][ServerNext]_vars

(* The Go scheduler runs every goroutine that can run, and a sync.RWMutex  *)
(* starves nobody: who waits for one that is released again and again gets *)
(* it (strong fairness).  Requests need not come.                          *)
FairServerSpec == ServerSpec /\ \A c \in Clients : SF_vars(Handle(c))

-----------------------------------------------------------------------------
(* Properties *)

Labels == {"idle", "get", "lookup", "copy", "put", "done", "insert", "flush",
           "route", "report", "grow", "aborted"} \cup LockWaiters

(* What a handler has in hand when it is not about to copy an entry.       *)
Unhooked(r) ==
  r.map = None /\ r.former = {} /\ r.ids = {} /\ r.home = Detached /\ ~r.merged

(* The parts of a request's locals that depend on where its handler is: a  *)
(* handler that copies an entry holds one, a handler that puts or replies  *)
(* has a snapshot, an expansion has a target.                              *)
LocalsFit(label, r) ==
  /\ IF label = "copy" THEN r.map # None /\ r.ids # {} ELSE Unhooked(r)
  /\ r.merged \/ r.former # {} => r.raced
  /\ label \in {"put", "done"} <=> r.snap # None
  /\ label \in {"get", "lookup", "copy", "put", "done", "write", "merge", "compare",
               "insert", "delete"} <=> r.key # None
  /\ label \in {"route", "report", "grow"} <=> r.shards # 0

Locals ==
  [key : Keys \cup {None}, ver : VersionRefs, snap : Snapshot \cup {None},
   map : FieldHistory \cup {None}, former : SUBSET FieldHistory,
   ids : SUBSET VersionRefs, home : ShardIDs \cup {Detached}, merged : BOOLEAN,
   raced : BOOLEAN, at : 0 .. MaxTime, shards : 0 .. MaxShards, before : 0 .. MaxShards]

(* Types of the whole server's state, with what each handler has in hand.  *)
ServerTypeOK ==
  /\ StoreTypeOK
  /\ pc \in [Clients -> Labels]
  /\ req \in [Clients -> Locals]
  /\ \A c \in Clients : LocalsFit(pc[c], req[c])
  /\ leaked \in BOOLEAN

ShowsOnly(snap, v) == \A f \in Fields \ Layout(v) : snap.fields[f] = NoValue

(* "a reader never sees columns that did not exist at that version"        *)
(* (entrySnapshot): whatever switches, writes and creations happen between *)
(* the resolution of the version and the reply, neither a cached snapshot  *)
(* nor one on its way to a client has a field outside the version's layout.*)
FilteredReads ==
  /\ \A k \in Keys, v \in VersionRefs : CacheHit(k, v) => ShowsOnly(cache[k][v], v)
  /\ \A c \in Clients : req[c].snap # None => ShowsOnly(req[c].snap, req[c].ver)

(* A cached read goes stale in two ways only: a reader whose key was       *)
(* rewritten, removed or re-routed after its lookup puts what it found     *)
(* then, or an expansion changes a shard count.  No write, delete, publish *)
(* or rollback leaves a stale read behind by itself.                       *)
StaleOnlyByRace ==
  [][\A k \in Keys, v \in VersionRefs :
       (~Stale(k, v) /\ Stale(k, v)') =>
          \/ \E c \in Clients : /\ pc[c] = "put" /\ pc'[c] = "done"
                                /\ req[c].raced /\ req[c].key = k /\ req[c].ver = v
          \/ <<routerShards, shardLen>>' # <<routerShards, shardLen>>]_vars

(* An expansion that has moved the router to the count it has now, and     *)
(* will not take that for a failure.                                       *)
CatchingUp(c) ==
  /\ pc[c] \in {"report", "grow"}
  /\ req[c].shards = routerShards
  /\ req[c].before < routerShards

(* Router and store change their shard counts in two steps of each of      *)
(* several concurrent expansions.  The store is never ahead; when it is    *)
(* behind, some expansion between its two steps will bring it to exactly   *)
(* the router's count, however many others it was overtaken by and         *)
(* whichever of them report a failure - unless the process was aborted.    *)
ShardsMatchRouter ==
  /\ shardLen <= routerShards
  /\ shardLen < routerShards =>
       \E c \in Clients : CatchingUp(c) \/ pc[c] = "aborted"

(* A read lock leaks only inside the gap of an expansion that can then     *)
(* never complete: once expanded, a store has no leaked lock.              *)
LeakMeansHalfExpanded == leaked => shardLen < routerShards

(* "Old shards keep their data" (ExpandShards), also when expansions to    *)
(* different counts overtake each other: no step of an expansion drops or  *)
(* alters an entry, and the store never shrinks.                           *)
ExpansionKeepsData ==
  [][<<routerShards, shardLen>>' # <<routerShards, shardLen>> =>
       /\ shardLen' >= shardLen
       /\ \A i \in 0 .. shardLen - 1 : shards'[i] = shards[i]]_vars

(* "Grows the store's shard slice to match the router" (ExpandShards):     *)
(* however expansions overtake each other and whichever of them fail, the  *)
(* store catches up with the router, beside readers and writers that take  *)
(* its lock again and again; only a read that panics in the gap prevents   *)
(* it.                                                                     *)
ExpansionsCatchUp ==
  shardLen < routerShards ~> (shardLen = routerShards \/ leaked)

-----------------------------------------------------------------------------
(* What the source says of the server and the code does not do *)

(* Read is documented to use the cache "when the entry is unchanged since  *)
(* the last read"; a reader may cache what a write has just replaced.      *)
CacheCoherent == \A k \in Keys, v \in VersionRefs : ~Stale(k, v)

(* The router is documented to make "a write and a read of the same key    *)
(* always agree on the destination shard"; an entry written before an      *)
(* expansion, or in its gap, is not in the shard reads look in.            *)
ReadsFindWrites ==
  \A i \in ShardIDs, k \in Keys : shards[i][k] # None => i = Route(k)

(* ExpandShards is documented to make the shard slice "match the router    *)
(* after a shard expansion"; a read that panics in the gap keeps its read  *)
(* lock and the store's half of the expansion waits forever.               *)
ExpansionCompletes == shardLen < routerShards ~> shardLen = routerShards

-----------------------------------------------------------------------------
(* A read takes effect when it resolves the active version *)

Reading(c) == pc[c] \in {"get", "lookup", "copy", "put", "done"}

ReplyOf(c) ==
  LET r == req[c] IN
  IF ~Reading(c) THEN None
  ELSE [key  |-> r.key,
        ver  |-> r.ver,
        snap |-> IF pc[c] = "done" THEN r.snap ELSE View(Live(r.key), r.ver)]

Atomic == INSTANCE AtomicStore WITH
  content  <- [k \in Keys |-> Live(k)],
  layout   <- [v \in VersionRefs |-> Layout(v)],
  resolved <- ResolveActive,
  reply    <- [c \in Clients |-> ReplyOf(c)]

(* Clients that keep to their own keys get what an atomic store would give *)
(* them, whatever versions are published, rolled back and created while    *)
(* they read: cache and flushes are invisible.                             *)
ImplementsAtomicStore == Atomic!Spec
=============================================================================
