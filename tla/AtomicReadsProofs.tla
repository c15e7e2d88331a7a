------------------------- MODULE AtomicReadsProofs --------------------------
(***************************************************************************)
(* The refinement: handlers that keep to keys of their own, on a server    *)
(* whose shards are not expanded, implement the atomic store.  A read      *)
(* takes effect in the step that resolves the active version; everything   *)
(* it does after that - cache, lookup, copy, put - is invisible, although  *)
(* versions are published, rolled back and created meanwhile.  Without     *)
(* expansions the routes agree for any clients.                            *)
(***************************************************************************)
EXTENDS OnlineReadsProofs

(* Two handlers never work on the same key.                                *)
PrivateKeys == \A c, q \in Clients : c # q => KeysOf[c] \cap KeysOf[q] = {}

NoExpansions == "expand" \notin Ops

(* Without overlapping keys no read is overtaken, so no merge assigns to a *)
(* map that is being copied, and no cached read is ever stale.             *)
PrivateInv ==
  /\ shardLen = routerShards
  /\ \A c \in Clients : /\ pc[c] \notin {"route", "report", "grow"}
                        /\ ~req[c].raced
                        /\ req[c].key # None => req[c].key \in KeysOf[c]
  /\ \A k \in Keys, v \in VersionRefs : ~Stale(k, v)

-----------------------------------------------------------------------------
(* Who overtakes whom *)

LEMMA MarkedBy ==
  ASSUME TypeInv, NEW c \in Clients, Request(c) \/ Handle(c), NEW q \in Clients \ {c},
         req'[q] # req[q]
  PROVE  \/ AbortCopy(c) \/ ExpandRouter(c) \/ ExpandStore(c)
         \/ req[c].key \in Keys /\ req[q].key = req[c].key
<1>1. req \in [Clients -> Locals]
  BY DEF TypeInv, ServerTypeOK
<1>2. ASSUME NEW label, NEW locals, Goto(c, label, locals) PROVE FALSE
  BY <1>1, <1>2 DEF Goto
<1>3. ~Request(c)
  BY <1>2 DEF Request, StartRead, StartUpdate, StartExpand, Switch, Start
<1>4. ASSUME Write(c) \/ Merge(c) \/ Compare(c) \/ Insert(c) \/ Remove(c)
      PROVE  req[c].key \in Keys /\ req[q].key = req[c].key
  <2>1. EndUpdate(c) /\ req[c].key \in Keys
    BY <1>2, <1>4, UpdateStep
  <2> QED
    BY <2>1 DEF EndUpdate, Touched
<1>5. ~(\/ GetCached(c) \/ LookupAbsent(c) \/ LookupEntry(c) \/ LookupPanic(c) \/ CopyEntry(c)
        \/ PutCached(c) \/ Respond(c) \/ FindNothing(c) \/ Flush(c) \/ RefuseShrink(c)
        \/ ReportExpansion(c))
  BY <1>2 DEF FindNothing, GetCached, LookupAbsent, LookupEntry, LookupPanic, CopyEntry, PutCached, Respond,
              Flush, RefuseShrink, ReportExpansion
<1> QED
  BY <1>3, <1>4, <1>5 DEF Handle

(* What a handler's own step does to its key and its mark.                 *)
LEMMA OwnStep ==
  ASSUME TypeInv, NEW c \in Clients, Request(c) \/ Handle(c)
  PROVE  /\ req'[c].key \in {req[c].key, None} \cup KeysOf[c]
         /\ ExpandRouter(c) \/ req'[c].raced \in {req[c].raced, FALSE}
<1> DEFINE r == req[c]
           t == req'[c]
           Goal == t.key \in {r.key, None} \cup KeysOf[c] /\ t.raced \in {r.raced, FALSE}
<1>1. req \in [Clients -> Locals] /\ pc \in [Clients -> Labels]
  BY DEF TypeInv, ServerTypeOK
<1>2. r \in Locals
  BY <1>1
<1>3. t = Idle => Goal
  BY DEF Idle
<1>4. t = r => Goal
  OBVIOUS
<1>5. CASE Request(c)
  <2>1. ASSUME NEW k \in KeysOf[c], StartRead(c, k) PROVE Goal
    BY <1>1, <2>1 DEF StartRead, Start, Goto, Idle
  <2>2. ASSUME NEW k \in KeysOf[c], NEW op \in Ops, StartUpdate(c, op, k) PROVE Goal
    BY <1>1, <2>2 DEF StartUpdate, Start, Goto, Idle
  <2>3. ASSUME NEW n \in 1 .. MaxShards, StartExpand(c, n) PROVE Goal
    BY <1>1, <2>3 DEF StartExpand, Start, Goto, Idle
  <2>4. CASE \E id \in VersionIDs : Switch(c, id)
    BY <1>1, <1>3, <2>4 DEF Switch, Start, Goto
  <2> QED
    BY <1>5, <2>1, <2>2, <2>3, <2>4 DEF Request
<1>6. CASE \/ LookupPanic(c) \/ AbortCopy(c) \/ Respond(c) \/ FindNothing(c) \/ Flush(c)
           \/ RefuseShrink(c) \/ ReportExpansion(c) \/ ExpandStore(c)
  BY <1>1, <1>3, <1>4, <1>6
     DEF LookupPanic, AbortCopy, Respond, FindNothing, Flush, RefuseShrink, ReportExpansion,
         ExpandStore, Goto
<1>7. CASE Write(c) \/ Merge(c) \/ Compare(c) \/ Insert(c) \/ Remove(c)
  <2>1. t = Idle
    BY <1>1, <1>7, UpdateStep DEF EndUpdate, Goto
  <2> QED
    BY <1>3, <2>1
<1>8. CASE GetCached(c) \/ LookupAbsent(c) \/ LookupEntry(c)
  <2>1. \/ t = r \/ (\E x : t = [r EXCEPT !.snap = x])
        \/ \E x, y, z : t = [r EXCEPT !.map = x, !.ids = y, !.home = z]
    <3>1. CASE GetCached(c)
      <4>1. t \in {r, [r EXCEPT !.snap = cache[r.key][r.ver]]}
        BY <1>1, <3>1 DEF GetCached, Goto
      <4> QED
        BY <4>1
    <3>2. CASE LookupAbsent(c)
      <4>1. t = [r EXCEPT !.snap = EmptySnapshot(r.ver)]
        BY <1>1, <3>2 DEF LookupAbsent, Goto
      <4> QED
        BY <4>1
    <3>3. CASE LookupEntry(c)
      <4> DEFINE entry == shards[Route(r.key)][r.key]
      <4>1. t = [r EXCEPT !.map = LiveMap(entry.fields), !.ids = {entry.version},
                          !.home = Route(r.key)]
        BY <1>1, <3>3 DEF LookupEntry, Goto
      <4> QED
        BY <4>1
    <3> QED
      BY <1>8, <3>1, <3>2, <3>3
  <2> HIDE DEF r, t
  <2>2. t.key = r.key /\ t.raced = r.raced
    BY <1>2, <2>1 DEF Locals
  <2> QED
    BY <2>2 DEF r, t
<1>9. CASE CopyEntry(c) \/ PutCached(c)
  <2>1. \/ t = [r EXCEPT !.raced = FALSE]
        \/ \E x : t = [r EXCEPT !.snap = x, !.map = None, !.former = {}, !.ids = {},
                                !.home = Detached, !.merged = FALSE]
    <3>1. CASE PutCached(c)
      BY <1>1, <3>1 DEF PutCached, Goto
    <3>2. CASE CopyEntry(c)
      <4>1. \E snap : Goto(c, "put", [r EXCEPT !.snap = snap, !.map = None, !.former = {},
                                      !.ids = {}, !.home = Detached, !.merged = FALSE])
        BY <3>2 DEF CopyEntry
      <4> QED
        BY <1>1, <4>1 DEF Goto
    <3> QED
      BY <1>9, <3>1, <3>2
  <2> HIDE DEF r, t
  <2>2. t.key = r.key /\ t.raced \in {r.raced, FALSE}
    BY <1>2, <2>1 DEF Locals
  <2> QED
    BY <2>2 DEF r, t
<1>10. CASE ExpandRouter(c)
  <2>1. SameRequest(t, r)
    BY <1>1, <1>10, ReroutedStep DEF ExpandRouter
  <2> QED
    BY <1>10, <2>1 DEF SameRequest
<1> QED
  BY <1>5, <1>6, <1>7, <1>8, <1>9, <1>10 DEF Handle

LEMMA PrivateInit == ServerInit => PrivateInv
<1> SUFFICES ASSUME ServerInit PROVE PrivateInv
  OBVIOUS
<1>1. routerShards = shardLen /\ \A k \in Keys, v \in VersionRefs : cache[k][v] = None
  BY DEF ServerInit, Boot, StoreInit, EmptyCacheLine
<1>2. \A c \in Clients : pc[c] = "idle" /\ req[c].key = None /\ ~req[c].raced
  BY DEF ServerInit, Idle
<1> QED
  BY <1>1, <1>2 DEF PrivateInv, Stale, CacheHit

LEMMA PrivateNext ==
  ASSUME PrivateKeys, NoExpansions,
         TypeInv, FilterInv, FreshInv, PrivateInv, [ServerNext]_vars
  PROVE  PrivateInv'
<1>1. /\ \A c \in Clients : ~ExpandRouter(c) /\ ~ExpandStore(c)
      /\ \A c \in Clients, n \in 1 .. MaxShards : ~StartExpand(c, n)
      /\ \A c \in Clients : ~AbortCopy(c)
  <2>1. \A c \in Clients : ~req[c].merged
    BY InHand DEF PrivateInv, LocalsFit
  <2> QED
    BY <2>1 DEF PrivateInv, NoExpansions, ExpandRouter, ExpandStore, StartExpand, Start, AbortCopy
<1>2. routerShards' = routerShards /\ shardLen' = shardLen
  BY <1>1, CountsStep
<1>3. ASSUME NEW c \in Clients
      PROVE  /\ pc'[c] \notin {"route", "report", "grow"}
             /\ ~req'[c].raced
             /\ req'[c].key # None => req'[c].key \in KeysOf[c]
  <2>1. pc'[c] \notin {"route", "report", "grow"}
    BY <1>1, ExpanderStep DEF PrivateInv, RefuseShrink, ReportExpansion
  <2>2. CASE Request(c) \/ Handle(c)
    <3>1. /\ req'[c].key \in {req[c].key, None} \cup KeysOf[c]
          /\ req'[c].raced \in {req[c].raced, FALSE}
      BY <1>1, <2>2, OwnStep
    <3> QED
      BY <2>1, <3>1 DEF PrivateInv
  <2>3. ASSUME NEW q \in Clients \ {c}, Request(q) \/ Handle(q) PROVE req'[c] = req[c]
    <3>1. \A k \in Keys : k = req[q].key => k \in KeysOf[q]
      BY ServerAssumption DEF PrivateInv
    <3>2. \A k \in Keys : k = req[c].key => k \in KeysOf[c]
      BY ServerAssumption DEF PrivateInv
    <3> QED
      BY <1>1, <2>3, <3>1, <3>2, MarkedBy DEF PrivateKeys
  <2>4. CASE Clock \/ UNCHANGED vars \/ \E t \in Tables : Draftsman(t)
    BY <2>1, <2>4 DEF Clock, Draftsman, vars, PrivateInv
  <2> QED
    BY <2>1, <2>2, <2>3, <2>4 DEF ServerNext, PrivateInv
<1>4. ASSUME NEW k \in Keys, NEW v \in VersionRefs PROVE ~Stale(k, v)'
  BY <1>2, SpoiledStep DEF PrivateInv
<1> QED
  BY <1>2, <1>3, <1>4 DEF PrivateInv

-----------------------------------------------------------------------------
(* The atomic store's variables, as module OnlineReads maps them *)

Content == [k \in Keys |-> Live(k)]

Layouts == [v \in VersionRefs |-> Layout(v)]

Replies == [c \in Clients |-> ReplyOf(c)]

AllInv == TypeInv /\ FilterInv /\ FreshInv /\ PrivateInv

(* Only the update of a key changes its content.                           *)
LEMMA PrivateContent ==
  ASSUME AllInv, [ServerNext]_vars, NEW k \in Keys
  PROVE  \/ Live(k)' = Live(k)
         \/ /\ Live(k)' \in Entry \cup {None}
            /\ \A j \in Keys \ {k} : Live(j)' = Live(j)
            /\ \E c \in Clients : req[c].key = k /\ EndUpdate(c)
                                  /\ pc[c] \in {"write", "merge", "compare", "insert", "delete"}
BY LiveStep DEF AllInv, PrivateInv, ExpandRouter, ExpandStore

(* The reply a handler will give does not change while it works on it.     *)
LEMMA ReplyKept ==
  ASSUME AllInv, [ServerNext]_vars, NEW c \in Clients, NEW k \in Keys, NEW v,
         Reading(c), Reading(c)',
         req[c].key = k, req'[c].key = k, req[c].ver = v, req'[c].ver = v,
         Live(k)' = Live(k),
         \/ pc[c] # "done" /\ pc'[c] # "done"
         \/ pc[c] = "done" /\ pc'[c] = "done" /\ req'[c].snap = req[c].snap
         \/ pc[c] # "done" /\ pc'[c] = "done" /\ req'[c].snap = View(Live(k), v)
  PROVE  ReplyOf(c)' = ReplyOf(c)
<1>1. Known(v)
  BY DEF AllInv, FilterInv
<1>2. View(Live(k), v)' = View(Live(k), v)
  BY <1>1, ViewKept DEF AllInv
<1>3. View(Live(req[c].key), req[c].ver)' = View(Live(k), v)'
  BY DEF View, Live, HomeShard, Route, EmptySnapshot, Filtered, Layout
<1>4. View(Live(req[c].key), req[c].ver) = View(Live(k), v)
  OBVIOUS
<1> QED
  BY <1>2, <1>3, <1>4 DEF ReplyOf

(* Other handlers' replies are out of a handler's reach.                   *)
LEMMA OthersKept ==
  ASSUME PrivateKeys, AllInv, NEW c \in Clients, Request(c) \/ Handle(c),
         NEW q \in Clients \ {c}
  PROVE  ReplyOf(q)' = ReplyOf(q)
<1>1. [ServerNext]_vars
  BY DEF ServerNext
<1>2. ~AbortCopy(c)
  BY InHand DEF AllInv, PrivateInv, LocalsFit, AbortCopy
<1>3. pc'[q] = pc[q] /\ SameRequest(req'[q], req[q])
  BY <1>2, BystanderStep DEF AllInv, Overlooked
<1>4. CASE ~Reading(q)
  BY <1>3, <1>4 DEF Reading, ReplyOf
<1>5. CASE Reading(q)
  <2>1. PICK k \in Keys : req[q].key = k
    BY <1>5, InHand DEF Reading, AllInv
  <2>2. Live(k)' = Live(k)
    <3>1. ASSUME NEW w \in Clients, req[w].key = k, EndUpdate(w),
                 pc[w] \in {"write", "merge", "compare", "insert", "delete"}
          PROVE  FALSE
      <4>1. w # q
        BY <1>5, <3>1 DEF Reading
      <4>2. k \in KeysOf[w] /\ k \in KeysOf[q]
        BY <2>1, <3>1, ServerAssumption DEF AllInv, PrivateInv
      <4> QED
        BY <4>1, <4>2 DEF PrivateKeys
    <3> QED
      BY <1>1, <3>1, PrivateContent
  <2>3. Reading(q)'
    BY <1>3, <1>5 DEF Reading
  <2> QED
    BY <1>1, <1>3, <1>5, <2>1, <2>2, <2>3, ReplyKept DEF SameRequest
<1> QED
  BY <1>4, <1>5

(* Layouts change only by the creation of a version.                       *)
LEMMA LayoutsKept ==
  ASSUME AllInv, [ServerNext]_vars, VersionIDs' = VersionIDs
  PROVE  Layouts' = Layouts
<1>1. ASSUME NEW v \in VersionRefs PROVE Layout(v)' = Layout(v)
  <2>1. CASE Known(v)
    BY <2>1, ServerManagerStep, LayoutKept DEF AllInv, TypeInv
  <2>2. CASE ~Known(v)
    BY <2>2 DEF Known, Layout
  <2> QED
    BY <2>1, <2>2
<1> QED
  BY <1>1 DEF Layouts

-----------------------------------------------------------------------------
(* Steps of the server as steps of the atomic store *)

AtomicStep ==
  Atomic!Next \/ UNCHANGED <<Content, Layouts, ResolveActive, Replies>>

LEMMA QuietRefines ==
  ASSUME PrivateKeys, AllInv, NEW c \in Clients, Request(c) \/ Handle(c),
         UNCHANGED versionVars, \A k \in Keys : Live(k)' = Live(k),
         ReplyOf(c)' = ReplyOf(c)
  PROVE  AtomicStep
<1>1. Content' = Content
  BY DEF Content
<1>2. ResolveActive' = ResolveActive /\ VersionIDs' = VersionIDs
  BY DEF versionVars, ResolveActive, VersionIDs
<1>3. Layouts' = Layouts
  BY <1>2, LayoutsKept DEF ServerNext
<1>4. \A q \in Clients : ReplyOf(q)' = ReplyOf(q)
  BY OthersKept
<1>5. Replies' = Replies
  BY <1>4 DEF Replies
<1> QED
  BY <1>1, <1>2, <1>3, <1>5 DEF AtomicStep

(* Told is what the live entry shows under the version resolved now.       *)
LEMMA AnswerRefines ==
  ASSUME PrivateKeys, AllInv, NEW c \in Clients, NEW k \in KeysOf[c], StartRead(c, k)
  PROVE  AtomicStep
<1> DEFINE v == ResolveActive
<1>1. k \in Keys /\ v \in VersionRefs
  BY ServerAssumption, KnownRefs, ResolvesKnown DEF AllInv, TypeInv
<1>2. /\ pc[c] = "idle" /\ pc'[c] = "get"
      /\ req'[c] = [Idle EXCEPT !.key = k, !.ver = v]
      /\ UNCHANGED <<versionVars, storeVars, leaked>>
  BY DEF StartRead, Start, Goto, AllInv, TypeInv, ServerTypeOK
<1>3. UNCHANGED <<Content, Layouts, ResolveActive>>
  BY <1>2 DEF versionVars, storeVars, Content, Live, HomeShard, Route, Layouts, Layout,
              VersionIDs, ResolveActive
<1>4. ReplyOf(c) = None
  BY <1>2 DEF ReplyOf, Reading
<1>5. ReplyOf(c)' = [key |-> k, ver |-> v, snap |-> View(Live(k), v)]
  <2>1. req'[c].key = k /\ req'[c].ver = v /\ pc'[c] = "get"
    BY <1>2 DEF Idle
  <2>2. View(Live(req[c].key), req[c].ver)' = View(Live(k), v)
    BY <1>2, <2>1 DEF View, EmptySnapshot, Filtered, Layout, VersionIDs, Live, HomeShard, Route,
                      versionVars, storeVars
  <2> QED
    BY <2>1, <2>2 DEF ReplyOf, Reading
<1>6. \A q \in Clients \ {c} : ReplyOf(q)' = ReplyOf(q)
  BY OthersKept DEF Request
<1>7. Replies' = [Replies EXCEPT ![c] = [key |-> k, ver |-> v, snap |-> View(Live(k), v)]]
  BY <1>5, <1>6 DEF Replies
<1>8. Content[k] = Live(k) /\ Layouts[v] = Layout(v) /\ Replies[c] = None
  BY <1>1, <1>4 DEF Content, Layouts, Replies
<1>9. Atomic!Told(k) = [key |-> k, ver |-> v, snap |-> View(Live(k), v)]
  BY <1>1 DEF Atomic!Told, Atomic!Shown, View, EmptySnapshot, NoFields, Filtered
<1>10. Atomic!Answer(c, k)
  BY <1>3, <1>7, <1>8, <1>9 DEF Atomic!Answer, Content, Layouts, Replies
<1> QED
  BY <1>1, <1>10 DEF AtomicStep, Atomic!Next

LEMMA ForgetRefines ==
  ASSUME PrivateKeys, AllInv, NEW c \in Clients, Respond(c)
  PROVE  AtomicStep
<1>1. pc'[c] = "idle" /\ UNCHANGED <<versionVars, storeVars, leaked>>
  BY DEF Respond, Goto, AllInv, TypeInv, ServerTypeOK
<1>2. UNCHANGED <<Content, Layouts, ResolveActive>>
  BY <1>1 DEF versionVars, storeVars, Content, Live, HomeShard, Route, Layouts, Layout,
              VersionIDs, ResolveActive
<1>3. ReplyOf(c)' = None
  BY <1>1 DEF ReplyOf, Reading
<1>4. \A q \in Clients \ {c} : ReplyOf(q)' = ReplyOf(q)
  BY OthersKept DEF Handle
<1>5. Replies' = [Replies EXCEPT ![c] = None]
  BY <1>3, <1>4 DEF Replies
<1>6. Atomic!Forget(c)
  BY <1>2, <1>5 DEF Atomic!Forget, Content, Layouts, Replies
<1> QED
  BY <1>6 DEF AtomicStep, Atomic!Next

LEMMA UpdateRefines ==
  ASSUME PrivateKeys, AllInv, NEW c \in Clients,
         Write(c) \/ Merge(c) \/ Compare(c) \/ Insert(c) \/ Remove(c)
  PROVE  AtomicStep
<1>1. /\ req[c].key \in Keys /\ Handle(c)
      /\ pc[c] \in {"write", "merge", "compare", "insert", "delete"}
      /\ \/ Goto(c, "idle", Idle) /\ UNCHANGED <<versionVars, storeVars, leaked>>
         \/ EndUpdate(c) /\ \E e \in Entry \cup {None} : PutEntry(req[c].key, e)
  BY UpdateStep DEF AllInv, Handle
<1>2. pc'[c] = "idle"
  BY <1>1 DEF Goto, EndUpdate, AllInv, TypeInv, ServerTypeOK
<1>3. ReplyOf(c) = None /\ ReplyOf(c)' = None
  BY <1>1, <1>2 DEF ReplyOf, Reading
<1>4. CASE UNCHANGED <<versionVars, storeVars>>
  <2>1. \A k \in Keys : Live(k)' = Live(k)
    BY <1>4 DEF storeVars, Live, HomeShard, Route
  <2> QED
    BY <1>1, <1>3, <1>4, <2>1, QuietRefines
<1>5. ASSUME EndUpdate(c), NEW e \in Entry \cup {None}, NEW k \in Keys, PutEntry(k, e)
      PROVE  AtomicStep
  <2>1. Live(k)' = e /\ \A j \in Keys \ {k} : Live(j)' = Live(j)
    BY <1>5, PutEntryStep DEF AllInv, TypeInv, ServerTypeOK
  <2>2. Content' = [Content EXCEPT ![k] = e]
    BY <2>1 DEF Content
  <2>3. UNCHANGED <<Layouts, ResolveActive>>
    BY <1>5 DEF EndUpdate, versionVars, Layouts, Layout, VersionIDs, ResolveActive
  <2>4. \A q \in Clients \ {c} : ReplyOf(q)' = ReplyOf(q)
    BY <1>1, OthersKept
  <2>5. Replies' = Replies
    BY <1>3, <2>4 DEF Replies
  <2>6. Atomic!Update(k)
    BY <2>2, <2>3, <2>5 DEF Atomic!Update, Content, Layouts, Replies
  <2> QED
    BY <2>6 DEF AtomicStep, Atomic!Next
<1> QED
  BY <1>1, <1>4, <1>5

LEMMA ResolvesRef == ManagerOK => ResolveActive \in VersionRefs
BY KnownRefs, ResolvesKnown

LEMMA SwitchRefines ==
  ASSUME PrivateKeys, AllInv, NEW c \in Clients, NEW id \in VersionIDs, Switch(c, id)
  PROVE  AtomicStep
<1>1. Request(c) /\ [ServerNext]_vars
  BY DEF Request, ServerNext
<1>2. VersionIDs' = VersionIDs
  BY PublishStep, RollbackStep DEF Switch, AllInv, TypeInv, ManagerOK, IInv
<1>3. ResolveActive' \in VersionRefs
  <2>1. ManagerOK'
    BY SwitchStep, ManagerStep DEF AllInv, TypeInv
  <2>2. ManagerOK' => (ResolveActive \in VersionRefs)'
    BY ResolvesRef, PTL
  <2> QED
    BY <2>1, <2>2 DEF VersionRefs
<1>4. Layouts' = Layouts
  BY <1>1, <1>2, LayoutsKept
<1>5. Content' = Content
  BY DEF Switch, storeVars, Content, Live, HomeShard, Route
<1>6. pc[c] = "idle" /\ pc'[c] = "flush"
  BY DEF Switch, Start, Goto, AllInv, TypeInv, ServerTypeOK
<1>7. \A q \in Clients : ReplyOf(q)' = ReplyOf(q)
  BY <1>1, <1>6, OthersKept DEF ReplyOf, Reading
<1>8. Replies' = Replies
  BY <1>7 DEF Replies
<1>9. Atomic!Resolve
  BY <1>3, <1>4, <1>5, <1>8 DEF Atomic!Resolve, Content, Layouts, Replies
<1> QED
  BY <1>9 DEF AtomicStep, Atomic!Next

(* When nothing but the versions changes, every reply stays.               *)
LEMMA RepliesKept ==
  ASSUME AllInv, [ServerNext]_vars, UNCHANGED <<storeVars, pc, req>>
  PROVE  Replies' = Replies /\ Content' = Content
<1>1. \A k \in Keys : Live(k)' = Live(k)
  BY DEF storeVars, Live, HomeShard, Route
<1>2. ASSUME NEW c \in Clients PROVE ReplyOf(c)' = ReplyOf(c)
  <2>1. CASE ~Reading(c)
    BY <2>1 DEF ReplyOf, Reading
  <2>2. CASE Reading(c)
    <3>1. PICK k \in Keys : req[c].key = k
      BY <2>2, InHand DEF Reading, AllInv
    <3>2. Reading(c)'
      BY <2>2 DEF Reading
    <3> QED
      BY <1>1, <2>2, <3>1, <3>2, ReplyKept
  <2> QED
    BY <2>1, <2>2
<1> QED
  BY <1>1, <1>2 DEF Replies, Content

LEMMA DraftRefines ==
  ASSUME AllInv, NEW t \in Tables, Draftsman(t)
  PROVE  AtomicStep
<1>1. TypeOK /\ Len(versions) \in Nat /\ VersionIDs = 1 .. Len(versions)
  BY VersionsDomain DEF AllInv, TypeInv, ManagerOK, IInv
<1>2. PICK fields \in Schemas[t] : Create(t, fields)
  BY DEF Draftsman
<1>3. PICK n \in VersionRefs : n = Len(versions) + 1
  BY <1>1, <1>2, BoundsAssumption DEF Create, VersionRefs
<1>4. /\ VersionIDs' = 1 .. n
      /\ \A i \in VersionIDs : versions'[i] = versions[i]
      /\ versions'[n].fields = fields
      /\ active' = active
  <2>1. Draft(t, fields).fields = fields
    BY DEF Draft
  <2>2. versions'[n] = Draft(t, fields)
    BY <1>1, <1>2, <1>3, CreateStep
  <2>3. VersionIDs' = 1 .. n /\ \A i \in VersionIDs : versions'[i] = versions[i]
    BY <1>1, <1>2, <1>3, CreateStep
  <2> QED
    BY <1>2, <2>1, <2>2, <2>3 DEF Create
<1>5. fields \in SUBSET Fields
  BY SchemasAssumption
<1>6. active \in 0 .. Len(versions)
  BY <1>1 DEF TypeOK
<1>7. ResolveActive' = ResolveActive /\ ResolveActive # n
  <2>1. active # Nil => versions'[active] = versions[active]
    BY <1>1, <1>4, <1>6 DEF Nil
  <2> QED
    BY <1>1, <1>3, <1>4, <1>6, <2>1 DEF ResolveActive, Nil
<1> DEFINE shown == IF fields # {} THEN fields ELSE Fields
<1>8. Layout(n)' = shown
  BY <1>1, <1>3, <1>4 DEF Layout
<1>9. ASSUME NEW v \in VersionRefs, v # n PROVE Layout(v)' = Layout(v)
  <2>1. v \in Nat
    BY DEF VersionRefs
  <2> QED
    BY <1>1, <1>3, <1>4, <1>9, <2>1 DEF Layout
<1> HIDE DEF shown
<1>10. Layouts' = [Layouts EXCEPT ![n] = shown]
  <2>1. \A v \in VersionRefs : Layout(v)' = IF v = n THEN shown ELSE Layout(v)
    BY <1>8, <1>9
  <2> QED
    BY <2>1 DEF Layouts
<1>11. UNCHANGED <<Replies, Content>>
  BY RepliesKept DEF Draftsman, ServerNext
<1>12. shown \in SUBSET Fields
  BY <1>5 DEF shown
<1>13. Atomic!NewVersion
  BY <1>7, <1>10, <1>11, <1>12 DEF Atomic!NewVersion, Content, Layouts, Replies
<1> QED
  BY <1>13 DEF AtomicStep, Atomic!Next

(* What a read does after it has resolved its version is invisible: a hit  *)
(* is not stale, and what it copies is what it looked up.                  *)
LEMMA ReadRefines ==
  ASSUME PrivateKeys, AllInv, NEW c \in Clients,
         \/ GetCached(c) \/ LookupAbsent(c) \/ LookupEntry(c) \/ CopyEntry(c) \/ PutCached(c)
  PROVE  AtomicStep
<1> DEFINE r == req[c]
           t == req'[c]
<1>1. /\ Handle(c) /\ [ServerNext]_vars /\ UNCHANGED versionVars
      /\ UNCHANGED <<routerShards, shardLen, shards>>
  BY DEF Handle, ServerNext, GetCached, LookupAbsent, LookupEntry, CopyEntry, PutCached, CachePut,
         storeVars
<1>2. /\ req \in [Clients -> Locals] /\ pc \in [Clients -> Labels]
  BY DEF AllInv, TypeInv, ServerTypeOK
<1>3. r \in Locals
  BY <1>2
<1>4. \A j \in Keys : Live(j)' = Live(j)
  BY <1>1 DEF Live, HomeShard, Route
<1>5. Reading(c) /\ pc[c] # "done"
  BY DEF Reading, GetCached, LookupAbsent, LookupEntry, CopyEntry, PutCached
<1>6. PICK k \in Keys : r.key = k
  BY <1>5, InHand DEF Reading, AllInv
<1>7. r.ver \in VersionRefs
  BY <1>3 DEF Locals
<1>8. ASSUME t.key = k, t.ver = r.ver, Reading(c)',
             pc'[c] # "done" \/ t.snap = View(Live(k), r.ver)
      PROVE  AtomicStep
  <2>1. ReplyOf(c)' = ReplyOf(c)
    BY <1>1, <1>4, <1>5, <1>6, <1>8, ReplyKept
  <2> QED
    BY <1>1, <1>4, <2>1, QuietRefines
<1>9. CASE GetCached(c)
  <2>1. CASE CacheHit(r.key, r.ver)
    <3>1. pc'[c] = "done" /\ t = [r EXCEPT !.snap = cache[r.key][r.ver]]
      BY <1>2, <1>9, <2>1 DEF GetCached, Goto
    <3>2. cache[r.key][r.ver] = View(Live(k), r.ver)
      BY <1>6, <1>7, <2>1 DEF AllInv, PrivateInv, Stale
    <3>3. t.key = r.key /\ t.ver = r.ver /\ t.snap = cache[r.key][r.ver]
      <4> HIDE DEF r, t
      <4> QED
        BY <1>3, <3>1 DEF Locals
    <3> QED
      BY <1>6, <1>8, <3>1, <3>2, <3>3 DEF Reading
  <2>2. CASE ~CacheHit(r.key, r.ver)
    <3>1. pc'[c] = "lookup" /\ t = r
      BY <1>2, <1>9, <2>2 DEF GetCached, Goto
    <3> QED
      BY <1>6, <1>8, <3>1 DEF Reading
  <2> QED
    BY <2>1, <2>2
<1>10. CASE LookupAbsent(c)
  <2>1. pc'[c] = "put" /\ t = [r EXCEPT !.snap = EmptySnapshot(r.ver)]
    BY <1>2, <1>10 DEF LookupAbsent, Goto
  <2>2. t.key = r.key /\ t.ver = r.ver
    <3> HIDE DEF r, t
    <3> QED
      BY <1>3, <2>1 DEF Locals
  <2> QED
    BY <1>6, <1>8, <2>1, <2>2 DEF Reading
<1>11. CASE LookupEntry(c)
  <2> DEFINE entry == shards[Route(r.key)][r.key]
  <2>1. /\ pc'[c] = "copy"
        /\ t = [r EXCEPT !.map = LiveMap(entry.fields), !.ids = {entry.version},
                         !.home = Route(r.key)]
    BY <1>2, <1>11 DEF LookupEntry, Goto
  <2>2. t.key = r.key /\ t.ver = r.ver
    <3> HIDE DEF r, t, entry
    <3> QED
      BY <1>3, <2>1 DEF Locals
  <2> QED
    BY <1>6, <1>8, <2>1, <2>2 DEF Reading
<1>12. CASE CopyEntry(c)
  <2>1. PICK snap : Goto(c, "put", [r EXCEPT !.snap = snap, !.map = None, !.former = {},
                                             !.ids = {}, !.home = Detached, !.merged = FALSE])
    BY <1>12 DEF CopyEntry
  <2>2. /\ pc'[c] = "put"
        /\ t = [r EXCEPT !.snap = snap, !.map = None, !.former = {}, !.ids = {},
                         !.home = Detached, !.merged = FALSE]
    BY <1>2, <2>1 DEF Goto
  <2>3. t.key = r.key /\ t.ver = r.ver
    <3> HIDE DEF r, t
    <3> QED
      BY <1>3, <2>2 DEF Locals
  <2> QED
    BY <1>6, <1>8, <2>2, <2>3 DEF Reading
<1>13. CASE PutCached(c)
  <2>1. pc'[c] = "done" /\ t = [r EXCEPT !.raced = FALSE]
    BY <1>2, <1>13 DEF PutCached, Goto
  <2>2. r.snap = View(Live(k), r.ver)
    BY <1>6, <1>13 DEF PutCached, AllInv, FreshInv, PrivateInv
  <2>3. t.key = r.key /\ t.ver = r.ver /\ t.snap = r.snap
    <3> HIDE DEF r, t
    <3> QED
      BY <1>3, <2>1 DEF Locals
  <2> QED
    BY <1>6, <1>8, <2>1, <2>2, <2>3 DEF Reading
<1> QED
  BY <1>9, <1>10, <1>11, <1>12, <1>13

(* Neither the start of an update, nor its finding nothing to compare with,*)
(* nor a flush is visible.                                                 *)
LEMMA StartAndFlushRefine ==
  ASSUME PrivateKeys, AllInv, NEW c \in Clients,
         \/ \E op \in Ops, k \in KeysOf[c] : StartUpdate(c, op, k)
         \/ FindNothing(c) \/ Flush(c)
  PROVE  AtomicStep
<1>1. pc \in [Clients -> Labels]
  BY DEF AllInv, TypeInv, ServerTypeOK
<1>2. Request(c) \/ Handle(c)
  BY DEF Request, Handle
<1>3. /\ UNCHANGED versionVars /\ UNCHANGED <<routerShards, shardLen, shards>>
      /\ ~Reading(c) /\ ~Reading(c)'
  BY <1>1 DEF StartUpdate, Start, FindNothing, CompareAbsent, Flush, ClearCache, Goto, storeVars,
              Reading
<1>4. \A k \in Keys : Live(k)' = Live(k)
  BY <1>3 DEF Live, HomeShard, Route
<1>5. ReplyOf(c)' = ReplyOf(c)
  BY <1>3 DEF ReplyOf
<1> QED
  BY <1>2, <1>3, <1>4, <1>5, QuietRefines

LEMMA StepRefines ==
  ASSUME PrivateKeys, NoExpansions, AllInv, [ServerNext]_vars
  PROVE  AtomicStep
<1>1. ASSUME NEW c \in Clients, Request(c) PROVE AtomicStep
  <2>1. ~\E n \in 1 .. MaxShards : StartExpand(c, n)
    BY DEF NoExpansions, StartExpand, Start
  <2> QED
    BY <1>1, <2>1, AnswerRefines, StartAndFlushRefine, SwitchRefines DEF Request
<1>2. ASSUME NEW c \in Clients, Handle(c) PROVE AtomicStep
  <2>1. ~AbortCopy(c)
    BY InHand DEF AllInv, PrivateInv, LocalsFit, AbortCopy
  <2>2. ~LookupPanic(c)
    <3>1. StoreTypeOK /\ shardLen = routerShards
      BY DEF AllInv, PrivateInv, TypeInv, ServerTypeOK
    <3>2. ASSUME LookupPanic(c) PROVE FALSE
      <4>1. PICK k \in Keys : k = req[c].key
        BY <3>2, InHand DEF LookupPanic, AllInv
      <4>2. Route(k) \in Nat /\ Route(k) < shardLen /\ Route(k) >= shardLen
        BY <3>1, <3>2, <4>1, RouteFacts DEF LookupPanic
      <4>3. shardLen \in Nat
        BY <3>1, StoreAssumption DEF StoreTypeOK
      <4> QED
        BY <4>2, <4>3
    <3> QED
      BY <3>2
  <2>3. ~(ExpandRouter(c) \/ RefuseShrink(c) \/ ReportExpansion(c) \/ ExpandStore(c))
    BY DEF AllInv, PrivateInv, ExpandRouter, RefuseShrink, ReportExpansion, ExpandStore
  <2> QED
    BY <1>2, <2>1, <2>2, <2>3, ReadRefines, ForgetRefines, UpdateRefines, StartAndFlushRefine
       DEF Handle
<1>3. ASSUME NEW t \in Tables, Draftsman(t) PROVE AtomicStep
  BY <1>3, DraftRefines
<1>4. CASE Clock \/ UNCHANGED vars
  <2>1. UNCHANGED <<storeVars, pc, req>> /\ UNCHANGED <<versions, active>>
    BY <1>4 DEF Clock, Tick, vars, versionVars
  <2>2. UNCHANGED <<Layouts, ResolveActive>>
    BY <2>1 DEF Layouts, Layout, VersionIDs, ResolveActive
  <2> QED
    BY <2>1, <2>2, RepliesKept DEF AtomicStep
<1> QED
  BY <1>1, <1>2, <1>3, <1>4 DEF ServerNext

LEMMA InitRefines == ServerInit => Atomic!Init
<1> SUFFICES ASSUME ServerInit PROVE Atomic!Init
  OBVIOUS
<1>1. ManagerOK /\ StoreTypeOK
  BY BootOK DEF ServerInit
<1>2. \A k \in Keys : Live(k) = None
  BY <1>1, RouteFacts DEF Live, ServerInit, Boot, StoreInit
<1>3. ResolveActive \in VersionRefs
  BY <1>1, ResolvesRef
<1>4. ASSUME NEW v \in VersionRefs PROVE Layout(v) \in SUBSET Fields
  BY <1>1, VersionsDomain DEF Layout, ManagerOK, IInv, Version
<1>5. \A c \in Clients : ReplyOf(c) = None
  BY DEF ServerInit, ReplyOf, Reading
<1> QED
  BY <1>2, <1>3, <1>4, <1>5 DEF Atomic!Init

(* Clients that keep to their own keys get from the server what an atomic  *)
(* store would give them, for any number of clients, keys and versions,    *)
(* any hash and any schemas: cache, flushes, lookups and copies outside    *)
(* every lock are invisible, whatever is published, rolled back and        *)
(* created while a read is on its way (Read, ReadVersion, Write,           *)
(* MergeWrite, CompareAndWrite and Delete of internal/store).              *)
THEOREM ReadsAreAtomic ==
  PrivateKeys /\ NoExpansions => (ServerSpec => ImplementsAtomicStore)
<1> SUFFICES ASSUME PrivateKeys, NoExpansions
             PROVE  ServerSpec => ImplementsAtomicStore
  OBVIOUS
<1>1. ServerInit => PrivateInv
  BY PrivateInit
<1>2. TypeInv /\ FilterInv /\ FreshInv /\ PrivateInv /\ [ServerNext]_vars => PrivateInv'
  BY PrivateNext
<1>3. ServerSpec => []AllInv
  BY <1>1, <1>2, AlwaysTypeInv, AlwaysFreshInv, PTL DEF ServerSpec, AllInv
<1>4. AllInv /\ [ServerNext]_vars
        => [Atomic!Next]_<<[k \in Keys |-> Live(k)], [v \in VersionRefs |-> Layout(v)],
                           ResolveActive, [c \in Clients |-> ReplyOf(c)]>>
  BY StepRefines DEF AtomicStep, Content, Layouts, Replies
<1> QED
  BY InitRefines, <1>3, <1>4, PTL DEF ServerSpec, ImplementsAtomicStore, Atomic!Spec

(* For such clients the cache holds what the last read or write of the key *)
(* left in the store: what the comment on Read says of the cache is true   *)
(* as long as no reader is overtaken.                                      *)
THEOREM PrivateCacheIsCoherent ==
  PrivateKeys /\ NoExpansions => (ServerSpec => []CacheCoherent)
<1> SUFFICES ASSUME PrivateKeys, NoExpansions
             PROVE  ServerSpec => []CacheCoherent
  OBVIOUS
<1>1. PrivateInv => CacheCoherent
  BY DEF PrivateInv, CacheCoherent
<1>2. ServerInit => PrivateInv
  BY PrivateInit
<1>3. TypeInv /\ FilterInv /\ FreshInv /\ PrivateInv /\ [ServerNext]_vars => PrivateInv'
  BY PrivateNext
<1> QED
  BY <1>1, <1>2, <1>3, AlwaysTypeInv, AlwaysFreshInv, PTL DEF ServerSpec

-----------------------------------------------------------------------------
(* Reads and writes of a key meet in one shard *)

(* Without expansions nobody moves the routes, and writers do not fall     *)
(* back to the first shard.                                                *)
RouteInv ==
  /\ shardLen = routerShards
  /\ \A c \in Clients : pc[c] \notin {"route", "report", "grow"}
  /\ ReadsFindWrites

LEMMA RouteInit == ServerInit => RouteInv
<1> SUFFICES ASSUME ServerInit PROVE RouteInv
  OBVIOUS
<1>1. /\ routerShards = shardLen
      /\ \A i \in ShardIDs, k \in Keys : shards[i][k] = None
  BY DEF ServerInit, Boot, StoreInit
<1>2. \A c \in Clients : pc[c] = "idle"
  BY DEF ServerInit
<1> QED
  BY <1>1, <1>2 DEF RouteInv, ReadsFindWrites

(* Outside expansions the shards change by the writers' PutEntry.          *)
LEMMA ShardsStep ==
  ASSUME TypeInv, [ServerNext]_vars, \A c \in Clients : ~ExpandStore(c)
  PROVE  \/ shards' = shards
         \/ \E k \in Keys, e \in Entry \cup {None} : PutEntry(k, e)
<1>1. ASSUME NEW c \in Clients, Request(c) PROVE shards' = shards
  BY <1>1 DEF Request, StartRead, StartUpdate, StartExpand, Switch, storeVars
<1>2. ASSUME NEW c \in Clients, Write(c) \/ Merge(c) \/ Compare(c) \/ Insert(c) \/ Remove(c)
      PROVE  \/ shards' = shards
             \/ \E k \in Keys, e \in Entry \cup {None} : PutEntry(k, e)
  <2>1. req[c].key \in Keys
    BY <1>2, UpdateStep
  <2>2. UNCHANGED storeVars \/ \E e \in Entry \cup {None} : PutEntry(req[c].key, e)
    BY <1>2, UpdateStep
  <2> QED
    BY <2>1, <2>2 DEF storeVars
<1>3. ASSUME NEW c \in Clients, Handle(c),
             ~(Write(c) \/ Merge(c) \/ Compare(c) \/ Insert(c) \/ Remove(c))
      PROVE  shards' = shards
  BY <1>3 DEF Handle, GetCached, LookupAbsent, LookupEntry, LookupPanic, CopyEntry, AbortCopy,
     PutCached, CachePut, Respond, FindNothing, CompareAbsent, Flush, ClearCache, ExpandRouter,
     GrowRouter, RefuseShrink, ReportExpansion, storeVars
<1>4. CASE Clock \/ UNCHANGED vars \/ \E t \in Tables : Draftsman(t)
  BY <1>4 DEF Clock, Draftsman, vars, storeVars
<1> QED
  BY <1>1, <1>2, <1>3, <1>4 DEF ServerNext

LEMMA RouteNext ==
  ASSUME NoExpansions, TypeInv, RouteInv, [ServerNext]_vars
  PROVE  RouteInv'
<1>1. /\ \A c \in Clients : ~ExpandRouter(c) /\ ~ExpandStore(c)
      /\ \A c \in Clients, n \in 1 .. MaxShards : ~StartExpand(c, n)
  BY DEF RouteInv, NoExpansions, ExpandRouter, ExpandStore, StartExpand, Start
<1>2. routerShards' = routerShards /\ shardLen' = shardLen
  BY <1>1, CountsStep
<1>3. \A c \in Clients : pc'[c] \notin {"route", "report", "grow"}
  BY <1>1, ExpanderStep DEF RouteInv, RefuseShrink, ReportExpansion
<1>4. ASSUME NEW i \in ShardIDs, NEW j \in Keys, shards'[i][j] # None
      PROVE  i = Route(j)'
  <2>1. Route(j)' = Route(j)
    BY <1>2 DEF Route
  <2>2. CASE shards' = shards
    BY <1>4, <2>1, <2>2 DEF RouteInv, ReadsFindWrites
  <2>3. ASSUME NEW k \in Keys, NEW e \in Entry \cup {None}, PutEntry(k, e)
        PROVE  i = Route(j)
    <3>1. StoreTypeOK
      BY DEF TypeInv, ServerTypeOK
    <3>2. HomeShard(k) = Route(k)
      BY <3>1, RouteFacts DEF RouteInv
    <3>3. i # HomeShard(k) \/ j # k => shards'[i][j] = shards[i][j]
      BY <2>3, <3>1, PutEntryStep
    <3> QED
      BY <1>4, <3>2, <3>3 DEF RouteInv, ReadsFindWrites
  <2> QED
    BY <1>1, <2>1, <2>2, <2>3, ShardsStep
<1> QED
  BY <1>2, <1>3, <1>4 DEF RouteInv, ReadsFindWrites

(* What the comment on the route table says is true of a server that is    *)
(* not expanded, for any hash: every entry is in the shard in which reads  *)
(* and writes of its key look (Router.Route, Store.shard).                 *)
THEOREM RoutesAgreeUnexpanded ==
  NoExpansions => (ServerSpec => []ReadsFindWrites)
<1> SUFFICES ASSUME NoExpansions PROVE ServerSpec => []ReadsFindWrites
  OBVIOUS
<1>1. RouteInv => ReadsFindWrites
  BY DEF RouteInv
<1>2. TypeInv /\ RouteInv /\ [ServerNext]_vars => RouteInv'
  BY RouteNext
<1> QED
  BY <1>1, <1>2, RouteInit, AlwaysTypeInv, PTL DEF ServerSpec
==============================================================================
