---------------------------- MODULE CachedReads -----------------------------
(***************************************************************************)
(* Online reads (Store.Read) as the longer jobs meet them: a reader that   *)
(* misses the cache looks its key up, copies the entry and puts the copy   *)
(* into the cache under a lock of its own, whatever has been written in    *)
(* between.  Resolving the version, looking up and copying are one step    *)
(* here; what may happen between them is the subject of OnlineReads.       *)
(***************************************************************************)
EXTENDS Store

CONSTANT Readers  \* goroutines serving reads

(* A copy on its way into the cache.  raced is history: the key was        *)
(* written, removed or re-routed since the lookup.                         *)
Copy == [key : Keys, ver : VersionRefs, snap : Snapshot, raced : BOOLEAN]

ASSUME ReadersAssumption == None \notin Copy

VARIABLE reading  \* reading[q]: the copy that q is about to put, or None

ReadersInit == reading = [q \in Readers |-> None]

(* What a read that misses the cache finds, with the route inside the      *)
(* shard slice.                                                            *)
Found(k) == View(shards[Route(k)][k], ResolveActive)

(* A hit changes nothing and is left out. *)
CopyMissed(q, k) ==
  /\ reading[q] = None
  /\ ~CacheHit(k, ResolveActive)
  /\ Route(k) < shardLen
  /\ reading' = [reading EXCEPT ![q] = [key |-> k, ver |-> ResolveActive,
                                        snap |-> Found(k), raced |-> FALSE]]
  /\ UNCHANGED storeVars

PutCopy(q) ==
  /\ reading[q] # None
  /\ CachePut(reading[q].key, reading[q].ver, reading[q].snap)
  /\ reading' = [reading EXCEPT ![q] = None]

Overtaken(q, k) == reading[q] # None /\ reading[q].key = k /\ reading[q].raced

(* What other actors do, as the history variable sees it. *)
ObserveReads ==
  LET disturbed == {k \in Keys : ~Undisturbed(k)} IN
  reading' = [q \in Readers |->
                IF reading[q] # None /\ reading[q].key \in disturbed
                THEN [reading[q] EXCEPT !.raced = TRUE] ELSE reading[q]]
=============================================================================
