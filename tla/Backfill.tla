------------------------------ MODULE Backfill ------------------------------
(***************************************************************************)
(* Backfill tasks (internal/compute) and the registry of committed results *)
(* (internal/store/results.go).  Each request runs in a goroutine of its   *)
(* own and works off its rows key by key.  Asking the registry, reading    *)
(* the entry, writing the result and recording it are four critical        *)
(* sections; requests for the same task may overlap.  A result for which   *)
(* there is no entry yet is written in two steps that hold Store.mu.       *)
(*                                                                         *)
(* No write returns an error, so a Run never leaves its task "partial".    *)
(***************************************************************************)
EXTENDS Store, FiniteSetsExt

CONSTANTS
  Tasks,         \* task ids
  Runners,       \* goroutines serving backfill requests
  Inputs,        \* the sequences of rows [key, fields] they are sent
  BackfillRefs,  \* the version ids they are sent
  KeyRank,       \* KeyRank[k]: the place of k in the order of strings
  IntWidth,      \* how many values the integer type of a counter has
  Weight,        \* Weight[f][v]: length of the name f and of the text of v
  MaxAttempts    \* bound: how many requests are ever sent

(* The integer-typed feature values, up to the choice of a representative  *)
(* modulo 2^64 in the code and modulo IntWidth here.                       *)
Ints == 0 .. IntWidth - 1

RowSeqs == Seq([key : Keys, fields : FieldMap])

Task ==
  [state : {"running", "done"}, total : Nat, processed : Nat, runner : Runners]

ASSUME BackfillAssumption ==
  /\ IntWidth \in Nat \ {0} /\ Ints \subseteq Values
  /\ Inputs \subseteq RowSeqs
  /\ BackfillRefs \subseteq VersionRefs
  /\ KeyRank \in [Keys -> Nat]
  /\ \A j, k \in Keys : KeyRank[j] = KeyRank[k] => j = k
  /\ Weight \in [Fields -> [Values -> Nat]]
  /\ None \notin Tasks \cup Runners \cup Nat \cup Task
  /\ MaxAttempts \in Nat

VARIABLES
  tasks,      \* tasks[t]: Backfill.tasks, and whose record it is
  committed,  \* committed[t][k]: CommittedResults.done, a signature or None
  attempt,    \* attempt[r]: the locals of the Run or Retry call of r
  trail,      \* trail[t]: what really happened to the results of t
  started     \* how many requests have been sent

backfillVars == <<tasks, committed, attempt, trail, started>>

(* left[k]: how often k is still in the plan; result[k]: the field map of  *)
(* the row for k, which writeResult alters in place.  entry and home are   *)
(* history: the entry writeResult has read, and the shard CompareAndWrite  *)
(* found no entry in.                                                      *)
NoAttempt == [pc |-> "idle", retry |-> FALSE, task |-> None, ver |-> Nil,
              rows |-> << >>, left |-> [k \in Keys |-> 0],
              result |-> [k \in Keys |-> NoFields], sig |-> 0, entry |-> None,
              home |-> None]

(* History of a task: last[k] and all[k] are the signature of the last and *)
(* of every result that a Retry wrote; results[k]: the results that any    *)
(* call wrote; overlapped: two retries of the task ran at the same time.   *)
NoTrail == [last |-> [k \in Keys |-> None], all |-> [k \in Keys |-> {}],
            results |-> [k \in Keys |-> {}], overlapped |-> FALSE]

BackfillInit ==
  /\ tasks = [t \in Tasks |-> None]
  /\ committed = [t \in Tasks |-> [k \in Keys |-> None]]
  /\ attempt = [r \in Runners |-> NoAttempt]
  /\ trail = [t \in Tasks |-> NoTrail]
  /\ started = 0

-----------------------------------------------------------------------------
(* Plan, rows and signature *)

Occurrences(rows, k) == Cardinality({i \in DOMAIN rows : rows[i].key = k})

(* BuildPlan keeps repeated keys. *)
BuildPlan(rows) == [k \in Keys |-> Occurrences(rows, k)]

Planned(a) == {k \in Keys : a.left[k] > 0}

NextKey(a) ==
  CHOOSE k \in Planned(a) : \A j \in Planned(a) : KeyRank[k] <= KeyRank[j]

(* The first row for the key: a second one is never looked at. *)
ResultFor(rows, k) ==
  IF Occurrences(rows, k) = 0 THEN NoFields
  ELSE rows[CHOOSE i \in DOMAIN rows :
              rows[i].key = k /\ \A j \in 1 .. i - 1 : rows[j].key # k].fields

Cells(rows) ==
  {c \in (DOMAIN rows) \X Fields : rows[c[1]].fields[c[2]] # NoValue}

(* The sum of some lengths; the task id in front of it tells tasks apart,  *)
(* as committed[t] does here.                                              *)
Signature(rows) ==
  MapThenSumSet(LAMBDA c : Weight[c[2]][rows[c[1]].fields[c[2]]], Cells(rows))

AddedUntyped(old, new) ==
  IF old \in Ints THEN (old + (IF new \in Ints THEN new ELSE 0)) % IntWidth ELSE new

(* Integers are added, and wrap around; any other value replaces the old.  *)
Added(old, new) ==
  IF old \in Ints /\ new \in Ints THEN (old + new) % IntWidth ELSE new

-----------------------------------------------------------------------------
(* Run and Retry *)

Proceed(a) ==
  IF Planned(a) = {} THEN NoAttempt
  ELSE [a EXCEPT !.pc = IF a.retry THEN "check" ELSE "read",
                 !.entry = None, !.home = None]

KeyDone(a) == Proceed([a EXCEPT !.left[NextKey(a)] = @ - 1])

Retrying(r, t) == attempt[r].retry /\ attempt[r].task = t

(* The handler finds the version, decodes the rows and calls Run or Retry. *)
StartAttempt(r, t, retry, rows) ==
  /\ attempt[r].pc = "idle"
  /\ started < MaxAttempts
  /\ \E v \in BackfillRefs \cap VersionIDs :
       attempt' = [attempt EXCEPT ![r] = Proceed(
         [NoAttempt EXCEPT !.retry = retry, !.task = t, !.ver = v, !.rows = rows,
                           !.left = BuildPlan(rows), !.sig = Signature(rows),
                           !.result = [k \in Keys |-> ResultFor(rows, k)]])]
  /\ started' = started + 1
  /\ UNCHANGED <<storeVars, committed>>

StartRun(r, t) ==
  \E rows \in Inputs :
    /\ StartAttempt(r, t, FALSE, rows)
    /\ tasks' = [tasks EXCEPT ![t] = [state |-> "running", total |-> Len(rows),
                                      processed |-> 0, runner |-> r]]
    /\ UNCHANGED trail

StartRetry(r, t) ==
  \E rows \in Inputs :
    /\ StartAttempt(r, t, TRUE, rows)
    /\ trail' = [trail EXCEPT ![t].overlapped = @ \/ \E q \in Runners : Retrying(q, t)]
    /\ UNCHANGED tasks

IsCommitted(a) == committed[a.task][NextKey(a)] = a.sig

CheckCommitted(r) ==
  LET a == attempt[r] IN
  /\ a.pc = "check"
  /\ attempt' = [attempt EXCEPT ![r] =
                   IF IsCommitted(a) THEN KeyDone(a) ELSE [a EXCEPT !.pc = "read"]]
  /\ UNCHANGED <<storeVars, tasks, committed, trail, started>>

(* EntryFor, and the additive update of the row. *)
ReadCurrent(r) ==
  LET a == attempt[r]
      k == NextKey(a) IN
  /\ a.pc = "read"
  /\ attempt' = [attempt EXCEPT ![r] =
       [a EXCEPT !.pc = "write", !.entry = Live(k),
                 !.result[k] = IF Live(k) = None THEN @
                               ELSE [f \in Fields |-> Added(Live(k).fields[f], @[f])]]]
  /\ UNCHANGED <<storeVars, tasks, committed, trail, started>>

CountsForAnyRun(r, t) == TRUE

(* A Run works on its own record, which a later Run of the task replaces.  *)
CountsFor(r, t) == tasks[t].runner = r

Processed(task) ==
  [task EXCEPT !.processed = @ + 1,
               !.state = IF task.processed + 1 >= task.total THEN "done" ELSE @]

RecordAlways(a, written) == a.retry

RecordNothing(a, written) == FALSE

(* A Retry goes on to record its result, if CompareAndWrite has written it. *)
Records(a, written) == a.retry /\ written

(* What a call does with the answer of CompareAndWrite. *)
ResultDone(r, written) ==
  LET a == attempt[r]
      k == NextKey(a) IN
  /\ attempt' = [attempt EXCEPT ![r] =
                   IF Records(a, written) THEN [a EXCEPT !.pc = "mark", !.home = None]
                   ELSE KeyDone(a)]
  /\ tasks' = IF ~a.retry /\ CountsFor(r, a.task)
              THEN [tasks EXCEPT ![a.task] = Processed(@)] ELSE tasks
  /\ trail' = IF ~written THEN trail
              ELSE [trail EXCEPT
                      ![a.task].results[k] = @ \cup {ResultFor(a.rows, k)},
                      ![a.task].last[k] = IF a.retry THEN a.sig ELSE @,
                      ![a.task].all[k]  = IF a.retry THEN @ \cup {a.sig} ELSE @]
  /\ UNCHANGED <<committed, started>>

(* There is an entry: the result is refused or written in place. *)
WriteResult(r) ==
  LET a == attempt[r]
      k == NextKey(a) IN
  /\ a.pc = "write"
  /\ CompareAndWrite(k, a.result[k], a.ver)
  /\ ResultDone(r, ~IsStale(k, a.ver))

(* There is none: Store.mu is kept and the router asked again. *)
FindNothing(r) ==
  LET a == attempt[r]
      k == NextKey(a) IN
  /\ a.pc = "write"
  /\ CompareAbsent(k)
  /\ attempt' = [attempt EXCEPT ![r].pc = "insert", ![r].home = HomeShard(k)]
  /\ UNCHANGED <<tasks, committed, trail, started>>

InsertResult(r) ==
  LET a == attempt[r]
      k == NextKey(a) IN
  /\ a.pc = "insert"
  /\ InsertEntry(k, a.result[k], a.ver)
  /\ ResultDone(r, TRUE)

NeverHeld == TRUE

(* Nobody is between the two steps of an insertion. *)
StoreFree == \A r \in Runners : attempt[r].pc # "insert"

MarkCommitted(r) ==
  LET a == attempt[r] IN
  /\ a.pc = "mark"
  /\ committed' = [committed EXCEPT ![a.task][NextKey(a)] = a.sig]
  /\ attempt' = [attempt EXCEPT ![r] = KeyDone(a)]
  /\ UNCHANGED <<storeVars, tasks, trail, started>>

BackfillStep(r) ==
  \/ \E t \in Tasks : StartRun(r, t) \/ StartRetry(r, t)
  \/ CheckCommitted(r) \/ ReadCurrent(r) \/ WriteResult(r) \/ FindNothing(r)
  \/ InsertResult(r) \/ MarkCommitted(r)

-----------------------------------------------------------------------------
(* Properties *)

Writes(r, k) ==
  /\ attempt[r].pc \in {"write", "insert"}
  /\ attempt'[r].pc \notin {"write", "insert"}
  /\ k = NextKey(attempt[r])
  /\ attempt[r].pc = "write" => ~IsStale(k, attempt[r].ver)

Repeated(a, k) == a.left[k] < Occurrences(a.rows, k)

(* "Accumulates exactly once" (writeResult): a result that is written adds *)
(* each of its integers to what the store holds, and nothing else, if the  *)
(* entry is still the one it read and the request has the key only once so *)
(* far.  Neither other requests nor earlier keys of this one leak into it. *)
ResultsAddUp ==
  [][\A r \in Runners, k \in Keys :
       (Writes(r, k) /\ attempt[r].entry = Live(k) /\ ~Repeated(attempt[r], k)) =>
         LET row == ResultFor(attempt[r].rows, k) IN
         \A f \in Fields : shards'[HomeShard(k)][k].fields[f] =
           IF Live(k) # None /\ Live(k).fields[f] \in Ints /\ row[f] \in Ints
           THEN (Live(k).fields[f] + row[f]) % IntWidth ELSE row[f]
    ]_<<storeVars, backfillVars>>

(* "Stale writes are rejected" (CompareAndWrite): a result that nothing    *)
(* was found to compare with overwrites nothing, unless an expansion       *)
(* re-routed its key before it was inserted - whatever other writers of    *)
(* the key, of newer versions among them, were waiting meanwhile.          *)
InsertsOnlyAbsent ==
  \A r \in Runners :
    LET a == attempt[r] IN
    (a.pc = "insert" /\ a.home = HomeShard(NextKey(a))) => Live(NextKey(a)) = None

(* A retry that is sent again, whole or after any part of it was written   *)
(* or refused, never adds a result twice: what a retry writes has another  *)
(* signature than what the retry before it wrote to that key, unless two   *)
(* retries of the task overlapped.                                         *)
RetriesCountOnce ==
  [][\A r \in Runners, k \in Keys :
       LET a == attempt[r] IN
       (a.retry /\ Writes(r, k) /\ ~trail[a.task].overlapped) =>
         trail[a.task].last[k] # a.sig]_<<storeVars, backfillVars>>

(* What a retry skips was written: a result refused as stale is not taken  *)
(* for committed, however retries of the task overlap.                     *)
CommittedWasWritten ==
  \A t \in Tasks, k \in Keys :
    committed[t][k] # None => committed[t][k] \in trail[t].all[k]

RunOf(t) == attempt[tasks[t].runner]

StillRunning(t) == RunOf(t).task = t /\ ~RunOf(t).retry

(* The places of its plan that a request has not worked off.               *)
Open(a) == UNION {{k} \X (1 .. a.left[k]) : k \in Keys}

OpenOf(t) == IF StillRunning(t) THEN Open(RunOf(t)) ELSE {}

(* A task counts the rows of the run that was started last, also while an  *)
(* earlier run of the task is still working: what it has processed and     *)
(* what that run has left add up, the task is not done while anything is   *)
(* left, and it is done once the last of its rows is processed.  A run of  *)
(* no rows processes none: its task stays running, though nothing is left. *)
TasksSettle ==
  \A t \in Tasks : tasks[t] # None =>
    /\ tasks[t].processed + Cardinality(OpenOf(t)) = tasks[t].total
    /\ tasks[t].state = "done" => OpenOf(t) = {}
    /\ tasks[t].processed > 0 /\ OpenOf(t) = {} => tasks[t].state = "done"

(* "A retry must never write a result that was already committed by an     *)
(* earlier attempt" (Retry): no retry writes a result that a call of the   *)
(* task has written before, when calls of the task do not overlap.         *)
CommittedOnce ==
  [][\A r \in Runners, k \in Keys :
       LET a == attempt[r] IN
       (a.retry /\ Writes(r, k) /\ ~Repeated(a, k)
          /\ \A q \in Runners \ {r} : attempt[q].task # a.task) =>
         ResultFor(a.rows, k) \notin trail[a.task].results[k]
    ]_<<storeVars, backfillVars>>
=============================================================================
