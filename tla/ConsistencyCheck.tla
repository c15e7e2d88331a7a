-------------------------- MODULE ConsistencyCheck --------------------------
(***************************************************************************)
(* The online/offline consistency check (internal/sync) and the switch     *)
(* events it is cut into windows by (internal/version/events.go).  For     *)
(* each window the check goes through the shards, lists each one's keys,   *)
(* looks each key's write time up and, if it lies in the window, reads the *)
(* key and compares it.  Each of these is a critical section of its own.   *)
(*                                                                         *)
(* The check's own read is one step here; what happens inside a read is    *)
(* the subject of OnlineReads.  It goes through the cache, which online    *)
(* readers fill, too (CachedReads).  One check runs at a time:             *)
(* /api/sync-check is sent by one operator.                                *)
(***************************************************************************)
EXTENDS CachedReads, FiniteSets

CONSTANTS
  Step,     \* the window length of a range without a switch
  Offline,  \* Offline[k]: the field map of k in the offline view
  Text      \* Text[v]: the printed form of a value, or of an absent one

ASSUME CheckAssumption ==
  /\ Step \in Nat \ {0}
  /\ Offline \in [Keys -> FieldMap]
  /\ DOMAIN Text = Values \cup {NoValue}

VARIABLE check  \* the locals of Check and compareWindow

checkVars == <<versionVars, storeVars, check>>

(* windows: [begin, end] in order; window: the one being compared; count:  *)
(* the shard count read for it; keys: what is left of the shard's keys;    *)
(* key: the one found in the window, to be read.                           *)
(* The rest is history: compared[k] counts the comparisons of k; steady[k] *)
(* is the entry of k when the check began, or None if its write time was   *)
(* out of range, an expansion had left another entry of k behind, there    *)
(* was a stale cached read of k or an overtaken reader about to cache one, *)
(* or k was written or re-routed since; switched: a version was published  *)
(* or rolled back since.                                                   *)
NoCheck == [pc |-> "idle", windows |-> << >>, window |-> 0, count |-> 0,
            shard |-> 0, keys |-> {}, key |-> None, diffs |-> {},
            compared |-> [k \in Keys |-> 0], steady |-> [k \in Keys |-> None],
            switched |-> FALSE]

-----------------------------------------------------------------------------
(* Windows *)

(* The versions that are in state published now and were published in      *)
(* [since, until).                                                         *)
Switched(since, until) ==
  {i \in VersionIDs : /\ versions[i].state = "published"
                      /\ versions[i].publishedAt # ZeroTime
                      /\ since <= versions[i].publishedAt
                      /\ versions[i].publishedAt < until}

SwitchedBefore(i, j) ==
  \/ versions[i].publishedAt < versions[j].publishedAt
  \/ versions[i].publishedAt = versions[j].publishedAt /\ i < j

(* Their publish times in order, and "until" itself.                       *)
SwitchEvents(since, until) ==
  LET ids == Switched(since, until)
      ordered == CHOOSE s \in [1 .. Cardinality(ids) -> ids] :
                   \A m, n \in DOMAIN s : m < n => SwitchedBefore(s[m], s[n])
  IN  Append([n \in DOMAIN ordered |-> versions[ordered[n]].publishedAt], until)

(* The last window covers the remainder. *)
Partition(begin, until) ==
  [n \in 1 .. (until - begin + Step - 1) \div Step |->
     [begin |-> begin + (n - 1) * Step,
      end   |-> IF begin + n * Step > until THEN until ELSE begin + n * Step]]

Windows(begin, until) ==
  LET events == SwitchEvents(begin, until)
      bounds == << begin >> \o events IN
  IF Len(events) = 1 THEN Partition(begin, until)
  ELSE [n \in DOMAIN events |-> [begin |-> bounds[n], end |-> bounds[n + 1]]]

InWindowInclusive(at, window) == window.begin <= at /\ at <= window.end

InWindow(at, window) == window.begin <= at /\ at < window.end

-----------------------------------------------------------------------------
(* The check *)

InRange(entry, begin, until) == entry # None /\ begin <= entry.at /\ entry.at < until

(* The key has no other entry, orphaned by an expansion.                   *)
OnlyAtHome(k) == \A i \in ShardIDs : shards[i][k] # None => i = HomeShard(k)

(* A range that is empty is refused. *)
StartCheck(begin, until) ==
  /\ check.pc = "idle"
  /\ begin < until
  /\ check' = [NoCheck EXCEPT
                 !.pc = "count", !.windows = Windows(begin, until), !.window = 1,
                 !.steady = [k \in Keys |->
                   IF /\ InRange(Live(k), begin, until)
                      /\ OnlyAtHome(k) /\ ~Stale(k, ResolveActive)
                      /\ \A q \in Readers : ~Overtaken(q, k)
                   THEN Live(k) ELSE None]]
  /\ UNCHANGED storeVars

CountShards ==
  /\ check.pc = "count"
  /\ check' = [check EXCEPT !.pc = "list", !.count = shardLen, !.shard = 0]
  /\ UNCHANGED storeVars

ListWindowKeys ==
  /\ check.pc = "list"
  /\ check' = [check EXCEPT !.pc = "time", !.keys = ShardKeys(check.shard)]
  /\ UNCHANGED storeVars

(* Keys come in any order; the write time is that of the live entry.       *)
CheckTime(k) ==
  /\ check.pc = "time" /\ k \in check.keys
  /\ check' = IF Live(k) # None /\ InWindow(Live(k).at, check.windows[check.window])
              THEN [check EXCEPT !.pc = "read", !.keys = @ \ {k}, !.key = k]
              ELSE [check EXCEPT !.keys = @ \ {k}]
  /\ UNCHANGED storeVars

(* What ReadVersion(key, "") gives. *)
ReadNow(k) ==
  IF CacheHit(k, ResolveActive) THEN cache[k][ResolveActive]
  ELSE Found(k)

DiffFieldsByValue(k, snap) ==
  {f \in Fields : snap.fields[f] # NoValue /\ snap.fields[f] # Offline[k][f]}

(* Fields are compared by their printed form; a field that only the        *)
(* offline side has is not looked at.                                      *)
DiffFields(k, snap) ==
  {f \in Fields : snap.fields[f] # NoValue /\ Text[snap.fields[f]] # Text[Offline[k][f]]}

(* In the gap of an expansion this read waits; there it may panic instead, *)
(* which is the subject of OnlineReads.                                    *)
CompareKey ==
  LET k == check.key
      snap == ReadNow(k) IN
  /\ check.pc = "read"
  /\ Route(k) < shardLen
  /\ CachePut(k, ResolveActive, snap)
  /\ check' = [check EXCEPT
                 !.pc = "time", !.key = None, !.compared[k] = @ + 1,
                 !.diffs = @ \cup {[key |-> k, field |-> f, window |-> check.window] :
                                     f \in DiffFields(k, snap)}]

NextWindowShard ==
  /\ check.pc = "time" /\ check.keys = {}
  /\ check' =
       IF check.shard + 1 < check.count THEN [check EXCEPT !.pc = "list", !.shard = @ + 1]
       ELSE IF check.window < Len(check.windows)
       THEN [check EXCEPT !.pc = "count", !.window = @ + 1]
       ELSE [check EXCEPT !.pc = "report"]
  /\ UNCHANGED storeVars

Report ==
  /\ check.pc = "report"
  /\ check' = NoCheck
  /\ UNCHANGED storeVars

CheckStep ==
  \/ \E begin, until \in 0 .. MaxTime + 1 : StartCheck(begin, until)
  \/ CountShards \/ ListWindowKeys \/ (\E k \in Keys : CheckTime(k))
  \/ CompareKey \/ NextWindowShard \/ Report

(* What other actors do, as the history variables see it. *)
ObserveCheck(switch) ==
  check' = [check EXCEPT
    !.steady = [k \in Keys |-> IF Undisturbed(k) THEN @[k] ELSE None],
    !.switched = check.pc # "idle" /\ (@ \/ switch)]

-----------------------------------------------------------------------------
(* Properties *)

(* "Splits [begin, until] into contiguous windows ...; a range remainder   *)
(* is never skipped" (Check): an entry written in the range before the     *)
(* check began and left alone since is compared in exactly one window,     *)
(* whatever is published or rolled back meanwhile, wherever its write time *)
(* lies on the bounds and however other keys are re-routed, provided there *)
(* was no other entry of its key, no stale cached read of it and none on   *)
(* its way into the cache when the check began.                            *)
ComparedOnce ==
  check.pc = "report" =>
    \A k \in Keys : check.steady[k] # None => check.compared[k] = 1

(* The check "reports every difference" of the fields online reads show:   *)
(* for an entry left alone, and if no version was switched, exactly one    *)
(* diff per field that differs, and none for a field that does not -       *)
(* whatever online readers put into the cache during the check that are    *)
(* not overtaken.  The check reads through the cache: a stale cell, left   *)
(* by an expansion or by an overtaken reader, or put during the check by a *)
(* reader that was overtaken before it began, does hide differences.       *)
DifferencesReported ==
  (check.pc = "report" /\ ~check.switched) =>
    \A k \in Keys : check.steady[k] # None =>
      LET shown == View(check.steady[k], ResolveActive)
          reported(f) == {d \in check.diffs : d.key = k /\ d.field = f} IN
      \A f \in Fields :
        IF shown.fields[f] # NoValue /\ Text[shown.fields[f]] # Text[Offline[k][f]]
        THEN \E d \in reported(f) : reported(f) = {d}
        ELSE reported(f) = {}
=============================================================================
