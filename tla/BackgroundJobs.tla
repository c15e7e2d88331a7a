--------------------------- MODULE BackgroundJobs ---------------------------
(***************************************************************************)
(* The server's longer requests - imports, batch rollbacks, backfills, a   *)
(* TTL scan, a consistency check, an expansion - beside each other, online *)
(* reads and writes and version switches on the same store.                *)
(*                                                                         *)
(* Which of them are sent is chosen in the initial state and kept in jobs: *)
(* a mix of jobs that interact is explored without the product of all.     *)
(*                                                                         *)
(* A backfill that inserts a result holds Store.mu from one step to the    *)
(* next (Backfill!FindNothing); the others wait, all but an expansion of   *)
(* the router.  Steps that do not need the lock (on the journal, the       *)
(* registry, the cache or the manager) wait as well: taken before or after *)
(* the two steps they come to the same.                                    *)
(***************************************************************************)
EXTENDS Importer, TTLScanner, Backfill, ConsistencyCheck

CONSTANTS
  Mixes,      \* the sets of jobs that are looked at together
  Rows,       \* the field maps written online
  OnlineRefs, \* the version ids they are written under
  OnlineKeys  \* the keys written and read online

OtherJobs ==
  {"write", "write version", "read", "scan", "check", "expand", "switch", "clock"}

ASSUME JobsAssumption ==
  /\ Mixes \subseteq SUBSET (Batches \cup Runners \cup OtherJobs)
  /\ Rows \subseteq FieldMap
  /\ OnlineRefs \subseteq VersionRefs
  /\ OnlineKeys \subseteq Keys

VARIABLE jobs  \* the jobs of this behaviour

jobVars ==
  <<versionVars, storeVars, importVars, scan, backfillVars, reading, check, jobs>>

JobsInit ==
  /\ Boot
  /\ ImporterInit
  /\ scan = NoScan
  /\ BackfillInit
  /\ ReadersInit
  /\ check = NoCheck
  /\ jobs \in Mixes

(* A job of this behaviour that need not wait for Store.mu. *)
Turn(job) == job \in jobs /\ StoreFree

Observe == ObserveScan /\ ObserveCheck(FALSE) /\ ObserveReads

(* Write takes the time before it takes the lock, and there may be any     *)
(* number of writers: one may have been waiting since any earlier time.    *)
(* The handler passes on the version id of the request, if it has one,     *)
(* which nobody looks up.                                                  *)
OnlineWrite(k, fields) ==
  /\ \E v \in OnlineRefs, at \in 1 .. now :
       /\ Turn(IF v = Nil THEN "write" ELSE "write version")
       /\ WriteAt(k, fields, v, at)
  /\ history' = Written(history, k, None)
  /\ Observe
  /\ UNCHANGED <<versionVars, journal, batches, import, revert, backfillVars, jobs>>

OnlineRead(q) ==
  /\ Turn("read")
  /\ (\E k \in OnlineKeys : CopyMissed(q, k)) \/ PutCopy(q)
  /\ UNCHANGED <<versionVars, importVars, scan, backfillVars, check, jobs>>

RunImport(b) ==
  /\ Turn(b)
  /\ Import(b) \/ Rollbacks(b)
  /\ Observe
  /\ UNCHANGED <<versionVars, backfillVars, jobs>>

RunScan ==
  /\ Turn("scan")
  /\ Scan
  /\ history' = IF scan.pc = "delete" THEN Written(history, scan.key, None) ELSE history
  /\ ObserveCheck(FALSE) /\ ObserveReads
  /\ UNCHANGED <<versionVars, journal, batches, import, revert, backfillVars, jobs>>

RunBackfill(r) ==
  /\ Turn(r) \/ attempt[r].pc = "insert"
  /\ BackfillStep(r)
  /\ history' = IF attempt[r].pc \in {"write", "insert"} /\ shards' # shards
                THEN Written(history, NextKey(attempt[r]), None) ELSE history
  /\ Observe
  /\ UNCHANGED <<versionVars, journal, batches, import, revert, jobs>>

RunCheck ==
  /\ Turn("check")
  /\ CheckStep
  /\ UNCHANGED <<versionVars, importVars, scan, backfillVars, reading, jobs>>

(* The two halves of an expansion; the next one waits for both.  The       *)
(* router has a lock of its own.                                           *)
ExpandRouter(n) ==
  /\ "expand" \in jobs
  /\ shardLen = routerShards
  /\ n > routerShards
  /\ GrowRouter(n)

ExpandStore ==
  /\ Turn("expand")
  /\ shardLen < routerShards
  /\ GrowShards(routerShards)

Expand ==
  /\ (\E n \in 1 .. MaxShards : ExpandRouter(n)) \/ ExpandStore
  /\ history' = Rerouted(history)
  /\ Observe
  /\ UNCHANGED <<versionVars, journal, batches, import, revert, backfillVars, jobs>>

(* A switch flushes the cache in the same step here.                       *)
SwitchVersion ==
  /\ Turn("switch")
  /\ \/ /\ \E t \in Tables : \E fields \in Schemas[t] : Create(t, fields)
        /\ UNCHANGED <<storeVars, reading, check>>
     \/ /\ \E id \in VersionIDs : Publish(id) \/ Rollback(id)
        /\ ClearCache
        /\ ObserveCheck(TRUE) /\ ObserveReads
  /\ UNCHANGED <<importVars, scan, backfillVars, jobs>>

Clock ==
  /\ Turn("clock")
  /\ Tick
  /\ UNCHANGED <<storeVars, importVars, scan, backfillVars, reading, check, jobs>>

JobsNext ==
  \/ \E b \in Batches : RunImport(b)
  \/ RunScan
  \/ \E q \in Readers : OnlineRead(q)
  \/ \E r \in Runners : RunBackfill(r)
  \/ RunCheck
  \/ Expand
  \/ SwitchVersion
  \/ \E k \in OnlineKeys, fields \in Rows : OnlineWrite(k, fields)
  \/ Clock

JobsSpec == JobsInit /\ [][JobsNext]_jobVars
=============================================================================
