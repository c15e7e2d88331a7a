---------------------------- MODULE BackfillProofs ----------------------------
(***************************************************************************)
(* What the steps of a backfill request preserve, for any tasks, runners,  *)
(* rows and values: results add up once, a retry skips what was written    *)
(* and only that.  The lemmas are about one request's step; JobsProofs     *)
(* puts them beside the steps of everybody else.                           *)
(***************************************************************************)
EXTENDS Backfill, StoreProofs, FiniteSetTheorems

Sigs == {Signature(rows) : rows \in Inputs} \cup {0}

Attempt ==
  [pc : {"idle", "check", "read", "write", "insert", "mark"}, retry : BOOLEAN,
   task : Tasks \cup {None}, ver : VersionRefs, rows : RowSeqs,
   left : [Keys -> Nat], result : [Keys -> FieldMap], sig : Sigs,
   entry : Entry \cup {None}, home : ShardIDs \cup {None}]

(* A request that is under way has a task and a key to work on.            *)
AttemptOK(a) ==
  IF a.pc = "idle" THEN ~a.retry
  ELSE /\ a.task \in Tasks
       /\ Planned(a) # {}
       /\ a.pc \in {"check", "mark"} => a.retry

Trail ==
  [last : [Keys -> Sigs \cup {None}], all : [Keys -> SUBSET Sigs],
   results : [Keys -> SUBSET FieldMap], overlapped : BOOLEAN]

BackfillTypeOK ==
  /\ committed \in [Tasks -> [Keys -> Sigs \cup {None}]]
  /\ attempt \in [Runners -> Attempt]
  /\ trail \in [Tasks -> Trail]
  /\ \A r \in Runners : AttemptOK(attempt[r])

(* What writeResult makes of the row for a key when it finds entry there.  *)
Updated(entry, row) ==
  IF entry = None THEN row ELSE [f \in Fields |-> Added(entry.fields[f], row[f])]

(* The result of a key is its row until the key is read, and the update of *)
(* the entry that was read until it is written.                            *)
ResultsOK(a) ==
  a.pc # "idle" => \A k \in Keys :
    /\ a.left[k] <= Occurrences(a.rows, k)
    /\ a.left[k] = Occurrences(a.rows, k) =>
         IF k = NextKey(a) /\ a.pc \in {"write", "insert", "mark"}
         THEN a.pc # "mark" => a.result[k] = Updated(a.entry, ResultFor(a.rows, k))
         ELSE a.result[k] = ResultFor(a.rows, k)

(* A result is in the trail before it is marked as committed.              *)
WrittenOK ==
  /\ CommittedWasWritten
  /\ \A r \in Runners :
       attempt[r].pc = "mark" =>
         attempt[r].sig \in trail[attempt[r].task].all[NextKey(attempt[r])]

(* While retries of a task do not overlap, the registry holds the result   *)
(* that was written last, but for the key that is about to be marked, and  *)
(* a retry only works on results the registry does not hold.               *)
RetriesOK ==
  \A t \in Tasks : ~trail[t].overlapped =>
    /\ \A q, r \in Runners : Retrying(q, t) /\ Retrying(r, t) => q = r
    /\ \A k \in Keys :
         \/ trail[t].last[k] = committed[t][k]
         \/ \E r \in Runners :
              Retrying(r, t) /\ attempt[r].pc = "mark" /\ NextKey(attempt[r]) = k
    /\ \A r \in Runners : Retrying(r, t) =>
         /\ attempt[r].pc \in {"read", "write", "insert"} =>
              committed[t][NextKey(attempt[r])] # attempt[r].sig
         /\ attempt[r].pc = "mark" =>
              trail[t].last[NextKey(attempt[r])] = attempt[r].sig

BackfillInv ==
  /\ BackfillTypeOK
  /\ \A r \in Runners : ResultsOK(attempt[r])
  /\ WrittenOK
  /\ RetriesOK

-----------------------------------------------------------------------------
(* Plan and rows *)

LEMMA NextKeyPlanned ==
  ASSUME NEW a, Planned(a) # {}
  PROVE  NextKey(a) \in Planned(a) /\ NextKey(a) \in Keys
<1> DEFINE S == {KeyRank[k] : k \in Planned(a)}
<1>1. S \subseteq Nat /\ S # {}
  BY BackfillAssumption DEF Planned
<1>2. PICK m \in S : \A n \in S : m <= n
  BY <1>1, LeastNat
<1>3. \E k \in Planned(a) : \A j \in Planned(a) : KeyRank[k] <= KeyRank[j]
  BY <1>2
<1> QED
  BY <1>3 DEF NextKey, Planned

LEMMA SameLeft ==
  ASSUME NEW a, NEW b, a.left = b.left
  PROVE  Planned(a) = Planned(b) /\ NextKey(a) = NextKey(b)
BY DEF NextKey, Planned

LEMMA OccurrencesType ==
  ASSUME NEW rows \in RowSeqs, NEW k
  PROVE  /\ Occurrences(rows, k) \in Nat
         /\ Occurrences(rows, k) # 0 => \E i \in DOMAIN rows : rows[i].key = k
<1> DEFINE S == {i \in DOMAIN rows : rows[i].key = k}
<1>1. DOMAIN rows = 1 .. Len(rows) /\ Len(rows) \in Nat
  BY DEF RowSeqs
<1>2. IsFiniteSet(DOMAIN rows)
  BY <1>1, FS_Interval
<1>3. IsFiniteSet(S)
  BY <1>2, FS_Subset
<1>4. Cardinality(S) \in Nat /\ (S = {} => Cardinality(S) = 0)
  BY <1>3, FS_CardinalityType, FS_EmptySet
<1> QED
  <2>1. Occurrences(rows, k) = Cardinality(S)
    BY DEF Occurrences
  <2> HIDE DEF S
  <2>2. Occurrences(rows, k) # 0 => S # {}
    BY <1>4, <2>1
  <2> QED
    BY <1>4, <2>1, <2>2 DEF S

LEMMA ResultForType ==
  ASSUME NEW rows \in RowSeqs, NEW k
  PROVE  ResultFor(rows, k) \in FieldMap
<1>1. NoFields \in FieldMap
  BY DEF NoFields, FieldMap
<1>2. CASE Occurrences(rows, k) # 0
  <2> DEFINE S == {i \in DOMAIN rows : rows[i].key = k}
             First(i) == rows[i].key = k /\ \A j \in 1 .. i - 1 : rows[j].key # k
  <2>1. DOMAIN rows = 1 .. Len(rows) /\ Len(rows) \in Nat
    BY DEF RowSeqs
  <2>2. S \subseteq Nat /\ S # {}
    BY <1>2, <2>1, OccurrencesType
  <2>3. PICK m \in S : \A n \in S : m <= n
    BY <2>2, LeastNat
  <2>4. First(m)
    <3>1. m \in DOMAIN rows /\ rows[m].key = k
      BY <2>3
    <3>2. \A j \in 1 .. m - 1 : j \in DOMAIN rows /\ ~(m <= j)
      BY <2>1, <3>1
    <3> QED
      BY <2>3, <3>1, <3>2
  <2>5. \E i \in DOMAIN rows : First(i)
    BY <2>4
  <2>6. (CHOOSE i \in DOMAIN rows : First(i)) \in DOMAIN rows
    BY <2>5
  <2>7. \A i \in DOMAIN rows : rows[i].fields \in FieldMap
    <3>1. rows \in Seq([key : Keys, fields : FieldMap])
      BY DEF RowSeqs
    <3>2. \A i \in 1 .. Len(rows) : rows[i] \in [key : Keys, fields : FieldMap]
      BY <3>1, ElementOfSeq
    <3> QED
      BY <2>1, <3>2
  <2> QED
    BY <1>2, <2>6, <2>7 DEF ResultFor
<1> QED
  BY <1>1, <1>2 DEF ResultFor
(* What an additive update makes of a row is a row again: integers stay    *)
(* within their width.                                                     *)
LEMMA AddedType ==
  ASSUME NEW old \in FieldMap, NEW new \in FieldMap
  PROVE  [f \in Fields |-> Added(old[f], new[f])] \in FieldMap
<1> SUFFICES ASSUME NEW f \in Fields
             PROVE  Added(old[f], new[f]) \in Values \cup {NoValue}
  BY DEF FieldMap
<1>1. new[f] \in Values \cup {NoValue}
  BY DEF FieldMap
<1>2. ASSUME NEW x \in Ints, NEW y \in Ints
      PROVE  (x + y) % IntWidth \in Values
  <2>1. IntWidth \in Nat \ {0} /\ x \in Nat /\ y \in Nat /\ Ints \subseteq Values
    BY BackfillAssumption DEF Ints
  <2>2. (x + y) % IntWidth \in 0 .. IntWidth - 1
    BY <2>1
  <2> QED
    BY <2>1, <2>2 DEF Ints
<1> QED
  BY <1>1, <1>2 DEF Added

-----------------------------------------------------------------------------
(* One request *)

LEMMA NoAttemptType == NoAttempt \in Attempt /\ AttemptOK(NoAttempt)
<1>1. << >> \in RowSeqs
  BY DEF RowSeqs
<1>2. NoFields \in FieldMap
  BY DEF NoFields, FieldMap
<1>3. Nil \in VersionRefs
  BY BoundsAssumption DEF Nil, VersionRefs
<1> QED
  BY <1>1, <1>2, <1>3 DEF NoAttempt, Attempt, Sigs, AttemptOK

(* The request goes on with its next key, or is over.                      *)
LEMMA ProceedStep ==
  ASSUME NEW a \in Attempt, a.task \in Tasks
  PROVE  /\ Proceed(a) \in Attempt /\ AttemptOK(Proceed(a))
         /\ \/ Proceed(a) = NoAttempt
            \/ /\ Proceed(a) = [a EXCEPT !.pc = IF a.retry THEN "check" ELSE "read",
                                         !.entry = None, !.home = None]
               /\ Planned(a) # {}
<1>1. CASE Planned(a) = {}
  BY <1>1, NoAttemptType DEF Proceed
<1>2. CASE Planned(a) # {}
  <2> DEFINE b == [a EXCEPT !.pc = IF a.retry THEN "check" ELSE "read",
                        !.entry = None, !.home = None]
  <2>1. Proceed(a) = b
    BY <1>2 DEF Proceed
  <2>2. b \in Attempt /\ b.left = a.left /\ b.task = a.task /\ b.retry = a.retry
        /\ b.pc = IF a.retry THEN "check" ELSE "read"
    BY DEF Attempt
  <2>3. Planned(b) = Planned(a)
    BY <2>2, SameLeft
  <2> QED
    BY <1>2, <2>1, <2>2, <2>3 DEF AttemptOK
<1> QED
  BY <1>1, <1>2

(* One occurrence of the key is done; all others are left as they are.     *)
LEMMA KeyDoneStep ==
  ASSUME NEW a \in Attempt, AttemptOK(a), a.pc # "idle"
  PROVE  /\ KeyDone(a) \in Attempt /\ AttemptOK(KeyDone(a))
         /\ ResultsOK(a) => ResultsOK(KeyDone(a))
         /\ \/ KeyDone(a) = NoAttempt
            \/ /\ KeyDone(a).pc = IF a.retry THEN "check" ELSE "read"
               /\ KeyDone(a).retry = a.retry /\ KeyDone(a).task = a.task
               /\ KeyDone(a).rows = a.rows /\ KeyDone(a).sig = a.sig
               /\ KeyDone(a).result = a.result
               /\ \A k \in Keys : KeyDone(a).left[k] =
                                  IF k = NextKey(a) THEN a.left[k] - 1 ELSE a.left[k]
<1> DEFINE n == NextKey(a)
           b == [a EXCEPT !.left[n] = @ - 1]
<1>0. a.task \in Tasks /\ Planned(a) # {}
  BY DEF AttemptOK
<1>1. n \in Keys /\ a.left[n] \in Nat /\ a.left[n] > 0
  BY <1>0, NextKeyPlanned DEF Planned, Attempt
<1>2. a.left[n] - 1 \in Nat
  BY <1>1
<1> HIDE DEF n
<1>3. /\ b \in Attempt /\ b.task = a.task /\ b.retry = a.retry /\ b.rows = a.rows
      /\ b.sig = a.sig /\ b.result = a.result
      /\ b.left = [a.left EXCEPT ![n] = @ - 1]
  BY <1>1, <1>2 DEF Attempt
<1>4. \A k \in Keys : b.left[k] = IF k = n THEN a.left[k] - 1 ELSE a.left[k]
  BY <1>1, <1>3 DEF Attempt
<1>5. KeyDone(a) = Proceed(b)
  BY DEF KeyDone, n
<1> HIDE DEF b
<1>6. /\ Proceed(b) \in Attempt /\ AttemptOK(Proceed(b))
      /\ \/ Proceed(b) = NoAttempt
         \/ Proceed(b) = [b EXCEPT !.pc = IF b.retry THEN "check" ELSE "read",
                              !.entry = None, !.home = None]
  BY <1>0, <1>3, ProceedStep
<1>7. CASE Proceed(b) = NoAttempt
  BY <1>5, <1>6, <1>7 DEF ResultsOK, NoAttempt
<1>8. CASE Proceed(b) = [b EXCEPT !.pc = IF b.retry THEN "check" ELSE "read",
                              !.entry = None, !.home = None]
  <2> DEFINE d == Proceed(b)
  <2>1. /\ d.pc = (IF a.retry THEN "check" ELSE "read") /\ d.left = b.left
        /\ d.retry = a.retry /\ d.task = a.task /\ d.rows = a.rows /\ d.sig = a.sig
        /\ d.result = a.result
    BY <1>3, <1>8 DEF Attempt
  <2> HIDE DEF d
  <2>2. ASSUME ResultsOK(a), NEW k \in Keys
        PROVE  /\ d.left[k] <= Occurrences(d.rows, k)
               /\ d.left[k] = Occurrences(d.rows, k) => d.result[k] = ResultFor(d.rows, k)
    <3>1. /\ a.left[k] <= Occurrences(a.rows, k)
          /\ a.left[k] = Occurrences(a.rows, k) /\ k # n => a.result[k] = ResultFor(a.rows, k)
      BY <2>2 DEF ResultsOK, n
    <3>2. Occurrences(a.rows, k) \in Nat /\ a.left[k] \in Nat
      BY OccurrencesType DEF Attempt
    <3> QED
      BY <1>1, <1>4, <2>1, <3>1, <3>2
  <2>3. ResultsOK(a) => ResultsOK(d)
    BY <2>1, <2>2 DEF ResultsOK
  <2> QED
    BY <1>4, <1>5, <1>6, <2>1, <2>3 DEF n, d
<1> QED
  BY <1>5, <1>6, <1>7, <1>8

-----------------------------------------------------------------------------
(* The steps *)

(* Only the request that takes a step changes.                             *)
LEMMA OneAttempt ==
  ASSUME BackfillTypeOK, NEW r \in Runners, NEW b \in Attempt, AttemptOK(b),
         attempt' = [attempt EXCEPT ![r] = b]
  PROVE  /\ attempt' \in [Runners -> Attempt]
         /\ \A q \in Runners : AttemptOK(attempt'[q])
         /\ attempt'[r] = b
         /\ \A q \in Runners : q # r => attempt'[q] = attempt[q]
BY DEF BackfillTypeOK

(* A request begins with the rows it was sent, none of them worked on.     *)
LEMMA StartAttemptStep ==
  ASSUME BackfillTypeOK, TypeOK, NEW r \in Runners, NEW t \in Tasks,
         NEW retry \in BOOLEAN, NEW rows \in Inputs, StartAttempt(r, t, retry, rows)
  PROVE  /\ attempt[r].pc = "idle"
         /\ UNCHANGED <<storeVars, committed>>
         /\ \E b \in Attempt :
              /\ attempt' = [attempt EXCEPT ![r] = b]
              /\ AttemptOK(b) /\ ResultsOK(b)
              /\ \/ b = NoAttempt
                 \/ /\ b.pc = IF retry THEN "check" ELSE "read"
                    /\ b.retry = retry /\ b.task = t
<1>1. PICK v \in BackfillRefs \cap VersionIDs :
        attempt' = [attempt EXCEPT ![r] = Proceed(
          [NoAttempt EXCEPT !.retry = retry, !.task = t, !.ver = v, !.rows = rows,
                            !.left = BuildPlan(rows), !.sig = Signature(rows),
                            !.result = [k \in Keys |-> ResultFor(rows, k)]])]
  BY DEF StartAttempt
<1> DEFINE a == [NoAttempt EXCEPT !.retry = retry, !.task = t, !.ver = v, !.rows = rows,
                                  !.left = BuildPlan(rows), !.sig = Signature(rows),
                                  !.result = [k \in Keys |-> ResultFor(rows, k)]]
           b == Proceed(a)
<1>2. rows \in RowSeqs
  BY BackfillAssumption
<1>3. BuildPlan(rows) \in [Keys -> Nat]
      /\ \A k \in Keys : BuildPlan(rows)[k] = Occurrences(rows, k)
  BY <1>2, OccurrencesType DEF BuildPlan
<1>4. [k \in Keys |-> ResultFor(rows, k)] \in [Keys -> FieldMap]
  BY <1>2, ResultForType
<1>5. v \in VersionRefs
  BY BackfillAssumption
<1>6. /\ a \in Attempt /\ a.task = t /\ a.retry = retry /\ a.rows = rows
      /\ a.left = BuildPlan(rows) /\ a.result = [k \in Keys |-> ResultFor(rows, k)]
  BY <1>2, <1>3, <1>4, <1>5, NoAttemptType DEF Attempt, Sigs
<1> HIDE DEF a
<1>7. /\ b \in Attempt /\ AttemptOK(b)
      /\ \/ b = NoAttempt
         \/ b = [a EXCEPT !.pc = IF a.retry THEN "check" ELSE "read",
                        !.entry = None, !.home = None]
  BY <1>6, ProceedStep
<1>8. CASE b = NoAttempt
  BY <1>1, <1>7, <1>8 DEF a, ResultsOK, NoAttempt, StartAttempt
<1>9. CASE b = [a EXCEPT !.pc = IF a.retry THEN "check" ELSE "read",
                        !.entry = None, !.home = None]
  <2>1. /\ b.pc = IF retry THEN "check" ELSE "read"
        /\ b.retry = retry /\ b.task = t /\ b.rows = rows
        /\ b.left = BuildPlan(rows) /\ b.result = [k \in Keys |-> ResultFor(rows, k)]
    BY <1>6, <1>9 DEF Attempt
  <2> HIDE DEF b
  <2>2. ResultsOK(b)
    BY <1>2, <1>3, <2>1, OccurrencesType DEF ResultsOK
  <2> QED
    BY <1>1, <1>7, <2>1, <2>2 DEF a, b, StartAttempt
<1> QED
  BY <1>7, <1>8, <1>9

LEMMA StartRunStep ==
  ASSUME BackfillInv, TypeOK, NEW r \in Runners, NEW t \in Tasks, StartRun(r, t)
  PROVE  BackfillInv' /\ UNCHANGED storeVars
<1>1. PICK rows \in Inputs : StartAttempt(r, t, FALSE, rows) /\ UNCHANGED trail
  BY DEF StartRun
<1>2. /\ attempt[r].pc = "idle" /\ UNCHANGED <<storeVars, committed>>
      /\ \E b \in Attempt :
           /\ attempt' = [attempt EXCEPT ![r] = b]
           /\ AttemptOK(b) /\ ResultsOK(b)
           /\ \/ b = NoAttempt
              \/ b.pc = "read" /\ b.retry = FALSE /\ b.task = t
  <2> DEFINE retry == FALSE
  <2>1. BackfillTypeOK /\ retry \in BOOLEAN /\ StartAttempt(r, t, retry, rows)
    BY <1>1 DEF BackfillInv
  <2>2. retry = FALSE
    OBVIOUS
  <2> HIDE DEF retry
  <2> QED
    BY <2>1, <2>2, StartAttemptStep
<1>3. PICK b \in Attempt :
           /\ attempt' = [attempt EXCEPT ![r] = b]
           /\ AttemptOK(b) /\ ResultsOK(b)
           /\ \/ b = NoAttempt
              \/ b.pc = "read" /\ b.retry = FALSE /\ b.task = t
  BY <1>2
<1>4. ~b.retry /\ b.pc # "mark" /\ ~attempt[r].retry
  BY <1>2, <1>3 DEF NoAttempt, BackfillInv, BackfillTypeOK, AttemptOK
<1>5. /\ attempt' \in [Runners -> Attempt]
      /\ \A q \in Runners : AttemptOK(attempt'[q])
      /\ attempt'[r] = b
      /\ \A q \in Runners : q # r => attempt'[q] = attempt[q]
  BY <1>3, OneAttempt DEF BackfillInv
<1>6. BackfillTypeOK'
  BY <1>1, <1>2, <1>5 DEF BackfillInv, BackfillTypeOK
<1>7. \A q \in Runners : ResultsOK(attempt'[q])
  BY <1>3, <1>5 DEF BackfillInv
<1>8. WrittenOK'
  BY <1>1, <1>2, <1>4, <1>5 DEF BackfillInv, WrittenOK, CommittedWasWritten
<1>9. RetriesOK'
  <2>1. \A q \in Runners, u \in Tasks : Retrying(q, u)' <=> Retrying(q, u)
    BY <1>4, <1>5 DEF Retrying
  <2>2. \A q \in Runners, u \in Tasks : Retrying(q, u) => attempt'[q] = attempt[q]
    BY <1>4, <1>5 DEF Retrying
  <2> QED
    BY <1>1, <1>2, <2>1, <2>2 DEF BackfillInv, RetriesOK
<1> QED
  BY <1>2, <1>6, <1>7, <1>8, <1>9 DEF BackfillInv

LEMMA StartRetryStep ==
  ASSUME BackfillInv, TypeOK, NEW r \in Runners, NEW t \in Tasks, StartRetry(r, t)
  PROVE  BackfillInv' /\ UNCHANGED storeVars
<1>1. PICK rows \in Inputs : StartAttempt(r, t, TRUE, rows)
  BY DEF StartRetry
<1>2. trail' = [trail EXCEPT ![t].overlapped = @ \/ \E q \in Runners : Retrying(q, t)]
  BY DEF StartRetry
<1>3. /\ attempt[r].pc = "idle" /\ UNCHANGED <<storeVars, committed>>
      /\ \E b \in Attempt :
           /\ attempt' = [attempt EXCEPT ![r] = b]
           /\ AttemptOK(b) /\ ResultsOK(b)
           /\ \/ b = NoAttempt
              \/ b.pc = "check" /\ b.retry = TRUE /\ b.task = t
  <2> DEFINE retry == TRUE
  <2>1. BackfillTypeOK /\ retry \in BOOLEAN /\ StartAttempt(r, t, retry, rows)
    BY <1>1 DEF BackfillInv
  <2>2. retry /\ retry = TRUE
    OBVIOUS
  <2> HIDE DEF retry
  <2>3. /\ attempt[r].pc = "idle" /\ UNCHANGED <<storeVars, committed>>
        /\ \E b \in Attempt :
             /\ attempt' = [attempt EXCEPT ![r] = b]
             /\ AttemptOK(b) /\ ResultsOK(b)
             /\ \/ b = NoAttempt
                \/ /\ b.pc = IF retry THEN "check" ELSE "read"
                   /\ b.retry = retry /\ b.task = t
    BY <2>1, StartAttemptStep
  <2> QED
    BY <2>2, <2>3
<1>4. PICK b \in Attempt :
           /\ attempt' = [attempt EXCEPT ![r] = b]
           /\ AttemptOK(b) /\ ResultsOK(b)
           /\ \/ b = NoAttempt
              \/ b.pc = "check" /\ b.retry = TRUE /\ b.task = t
  BY <1>3
<1>5. b.pc \in {"idle", "check"} /\ (b.retry => b.task = t) /\ ~attempt[r].retry
  BY <1>3, <1>4 DEF NoAttempt, BackfillInv, BackfillTypeOK, AttemptOK
<1>6. /\ attempt' \in [Runners -> Attempt]
      /\ \A q \in Runners : AttemptOK(attempt'[q])
      /\ attempt'[r] = b
      /\ \A q \in Runners : q # r => attempt'[q] = attempt[q]
  BY <1>4, OneAttempt DEF BackfillInv
<1>7. /\ trail' \in [Tasks -> Trail]
      /\ \A u \in Tasks : /\ trail'[u].last = trail[u].last
                          /\ trail'[u].all = trail[u].all
                          /\ trail[u].overlapped => trail'[u].overlapped
      /\ ~trail'[t].overlapped => \A q \in Runners : ~Retrying(q, t)
  BY <1>2 DEF BackfillInv, BackfillTypeOK, Trail
<1>8. BackfillTypeOK'
  BY <1>3, <1>6, <1>7 DEF BackfillInv, BackfillTypeOK
<1>9. \A q \in Runners : ResultsOK(attempt'[q])
  BY <1>4, <1>6 DEF BackfillInv
<1>10. WrittenOK'
  <2>1. \A q \in Runners : attempt'[q].pc = "mark" => q # r /\ attempt[q].task \in Tasks
    BY <1>5, <1>6 DEF BackfillInv, BackfillTypeOK, AttemptOK
  <2> QED
    BY <1>3, <1>6, <1>7, <2>1 DEF BackfillInv, WrittenOK, CommittedWasWritten
<1>11. RetriesOK'
  <2> SUFFICES ASSUME NEW u \in Tasks, ~trail'[u].overlapped
               PROVE  /\ \A q, p \in Runners : Retrying(q, u)' /\ Retrying(p, u)' => q = p
                      /\ \A k \in Keys :
                           \/ trail'[u].last[k] = committed'[u][k]
                           \/ \E q \in Runners : /\ Retrying(q, u)'
                                                 /\ attempt'[q].pc = "mark"
                                                 /\ NextKey(attempt'[q]) = k
                      /\ \A q \in Runners : Retrying(q, u)' =>
                           /\ attempt'[q].pc \in {"read", "write", "insert"} =>
                                committed'[u][NextKey(attempt'[q])] # attempt'[q].sig
                           /\ attempt'[q].pc = "mark" =>
                                trail'[u].last[NextKey(attempt'[q])] = attempt'[q].sig
    BY DEF RetriesOK
  <2>1. CASE u = t
    <3>1. \A q \in Runners : ~Retrying(q, u) /\ (Retrying(q, u)' => q = r)
      BY <1>6, <1>7, <2>1 DEF Retrying
    <3> QED
      BY <1>3, <1>5, <1>6, <1>7, <3>1 DEF BackfillInv, RetriesOK
  <2>2. CASE u # t
    <3>1. \A q \in Runners : /\ Retrying(q, u)' <=> Retrying(q, u)
                             /\ Retrying(q, u) => attempt'[q] = attempt[q]
      BY <1>5, <1>6, <2>2 DEF Retrying
    <3> QED
      BY <1>3, <1>7, <3>1 DEF BackfillInv, RetriesOK
  <2> QED
    BY <2>1, <2>2
<1> QED
  BY <1>3, <1>8, <1>9, <1>10, <1>11 DEF BackfillInv

(* A request that works on a key: the facts every step below starts from.  *)
LEMMA Working ==
  ASSUME BackfillInv, NEW r \in Runners, attempt[r].pc # "idle"
  PROVE  /\ attempt[r] \in Attempt /\ AttemptOK(attempt[r]) /\ ResultsOK(attempt[r])
         /\ attempt[r].task \in Tasks
         /\ NextKey(attempt[r]) \in Keys
         /\ attempt[r].pc \in {"check", "mark"} => attempt[r].retry
BY NextKeyPlanned DEF BackfillInv, BackfillTypeOK, AttemptOK

(* The retries of a task, after a step of r on that task: the condition of *)
(* RetriesOK survives if it does for r and for the key r works on.         *)
LEMMA RetriesStep ==
  ASSUME BackfillInv, NEW r \in Runners, attempt[r].pc # "idle",
         \A q \in Runners : q # r => attempt'[q] = attempt[q],
         attempt'[r].retry => attempt[r].retry /\ attempt'[r].task = attempt[r].task,
         \A t \in Tasks : trail'[t].overlapped = trail[t].overlapped,
         \A t \in Tasks, k \in Keys :
           t # attempt[r].task \/ k # NextKey(attempt[r]) \/ ~attempt[r].retry =>
             /\ trail'[t].last[k] = trail[t].last[k]
             /\ committed'[t][k] = committed[t][k],
         LET a == attempt[r]
             k == NextKey(a)
             b == attempt'[r] IN
         (a.retry /\ ~trail[a.task].overlapped) =>
           /\ \/ trail'[a.task].last[k] = committed'[a.task][k]
              \/ b.retry /\ b.pc = "mark" /\ NextKey(b) = k
           /\ b.pc \in {"read", "write", "insert"} /\ b.retry =>
                committed'[a.task][NextKey(b)] # b.sig
           /\ b.pc = "mark" => trail'[a.task].last[NextKey(b)] = b.sig
  PROVE  RetriesOK'
<1> DEFINE a == attempt[r]
           b == attempt'[r]
           n == NextKey(a)
<1>1. a.task \in Tasks /\ n \in Keys
  BY Working
<1> SUFFICES ASSUME NEW u \in Tasks, ~trail'[u].overlapped
             PROVE  /\ \A q, p \in Runners : Retrying(q, u)' /\ Retrying(p, u)' => q = p
                    /\ \A k \in Keys :
                         \/ trail'[u].last[k] = committed'[u][k]
                         \/ \E q \in Runners : /\ Retrying(q, u)'
                                               /\ attempt'[q].pc = "mark"
                                               /\ NextKey(attempt'[q]) = k
                    /\ \A q \in Runners : Retrying(q, u)' =>
                         /\ attempt'[q].pc \in {"read", "write", "insert"} =>
                              committed'[u][NextKey(attempt'[q])] # attempt'[q].sig
                         /\ attempt'[q].pc = "mark" =>
                              trail'[u].last[NextKey(attempt'[q])] = attempt'[q].sig
  BY DEF RetriesOK
<1>2. ~trail[u].overlapped
  OBVIOUS
<1>3. /\ \A q, p \in Runners : Retrying(q, u) /\ Retrying(p, u) => q = p
      /\ \A k \in Keys :
           \/ trail[u].last[k] = committed[u][k]
           \/ \E q \in Runners :
                Retrying(q, u) /\ attempt[q].pc = "mark" /\ NextKey(attempt[q]) = k
      /\ \A q \in Runners : Retrying(q, u) =>
           /\ attempt[q].pc \in {"read", "write", "insert"} =>
                committed[u][NextKey(attempt[q])] # attempt[q].sig
           /\ attempt[q].pc = "mark" =>
                trail[u].last[NextKey(attempt[q])] = attempt[q].sig
  BY <1>2 DEF BackfillInv, RetriesOK
<1>4. \A q \in Runners : /\ Retrying(q, u)' => Retrying(q, u)
                         /\ q # r /\ Retrying(q, u) => Retrying(q, u)'
  BY DEF Retrying
<1>5. CASE ~Retrying(r, u)
  <2>1. \A k \in Keys : /\ trail'[u].last[k] = trail[u].last[k]
                        /\ committed'[u][k] = committed[u][k]
    BY <1>5 DEF Retrying
  <2>2. \A q \in Runners : Retrying(q, u) =>
          /\ q # r /\ attempt'[q] = attempt[q] /\ Retrying(q, u)'
          /\ NextKey(attempt[q]) \in Keys
    <3> TAKE q \in Runners
    <3> HAVE Retrying(q, u)
    <3>1. attempt[q].pc # "idle"
      BY DEF Retrying, BackfillInv, BackfillTypeOK, AttemptOK
    <3> QED
      BY <1>4, <1>5, <3>1, Working
  <2> QED
    BY <1>3, <1>4, <2>1, <2>2
<1>6. CASE Retrying(r, u)
  <2>1. u = a.task /\ a.retry /\ \A q \in Runners : Retrying(q, u) => q = r
    BY <1>3, <1>6 DEF Retrying
  <2>2. \A k \in Keys \ {n} : /\ trail'[u].last[k] = trail[u].last[k]
                              /\ committed'[u][k] = committed[u][k]
                              /\ trail[u].last[k] = committed[u][k]
    BY <1>3, <2>1
  <2>3. b.retry => Retrying(r, u)'
    BY <2>1 DEF Retrying
  <2>4. \A k \in Keys :
           \/ trail'[u].last[k] = committed'[u][k]
           \/ Retrying(r, u)' /\ b.pc = "mark" /\ NextKey(b) = k
    BY <1>2, <2>1, <2>2, <2>3
  <2>5. Retrying(r, u)' =>
          /\ b.pc \in {"read", "write", "insert"} => committed'[u][NextKey(b)] # b.sig
          /\ b.pc = "mark" => trail'[u].last[NextKey(b)] = b.sig
    BY <1>2, <2>1 DEF Retrying
  <2> QED
    BY <1>4, <2>1, <2>4, <2>5
<1> QED
  BY <1>5, <1>6

(* Between two writes, the registry holds what the retry wrote last.       *)
LEMMA Recorded ==
  ASSUME BackfillInv, NEW r \in Runners, attempt[r].retry,
         attempt[r].pc \notin {"idle", "mark"},
         ~trail[attempt[r].task].overlapped
  PROVE  trail[attempt[r].task].last[NextKey(attempt[r])]
           = committed[attempt[r].task][NextKey(attempt[r])]
<1> DEFINE t == attempt[r].task
           k == NextKey(attempt[r])
<1>1. t \in Tasks /\ k \in Keys /\ Retrying(r, t)
  BY Working DEF Retrying
<1>2. /\ \A q \in Runners : Retrying(q, t) => q = r
      /\ \/ trail[t].last[k] = committed[t][k]
         \/ \E q \in Runners :
              Retrying(q, t) /\ attempt[q].pc = "mark" /\ NextKey(attempt[q]) = k
  BY <1>1 DEF BackfillInv, RetriesOK
<1> QED
  BY <1>2

LEMMA CheckCommittedStep ==
  ASSUME BackfillInv, NEW r \in Runners, CheckCommitted(r)
  PROVE  BackfillInv' /\ UNCHANGED storeVars
<1> DEFINE a == attempt[r]
           n == NextKey(a)
           b == IF IsCommitted(a) THEN KeyDone(a) ELSE [a EXCEPT !.pc = "read"]
<1>1. /\ a.pc = "check" /\ attempt' = [attempt EXCEPT ![r] = b]
      /\ UNCHANGED <<storeVars, committed, trail>>
  BY DEF CheckCommitted
<1>2. /\ a \in Attempt /\ AttemptOK(a) /\ ResultsOK(a) /\ a.task \in Tasks
      /\ n \in Keys /\ a.retry
  BY <1>1, Working
<1>3. /\ b \in Attempt /\ AttemptOK(b) /\ ResultsOK(b)
      /\ b.pc \in {"idle", "check", "read"}
      /\ b.retry => b.task = a.task
      /\ b.retry /\ b.pc = "read" => ~IsCommitted(a) /\ NextKey(b) = n /\ b.sig = a.sig
  <2>1. CASE IsCommitted(a)
    <3>1. b = KeyDone(a)
      BY <2>1
    <3> HIDE DEF b
    <3>2. /\ b \in Attempt /\ AttemptOK(b) /\ ResultsOK(b)
          /\ \/ b = NoAttempt
             \/ b.pc \in {"check", "read"} /\ b.retry = a.retry /\ b.task = a.task
      BY <1>1, <1>2, <3>1, KeyDoneStep
    <3>3. b # NoAttempt => b.pc # "read"
      <4>1. KeyDone(a) = NoAttempt \/ KeyDone(a).pc = IF a.retry THEN "check" ELSE "read"
        BY <1>1, <1>2, KeyDoneStep
      <4> QED
        BY <1>2, <3>1, <4>1
    <3>4. NoAttempt.pc = "idle" /\ ~NoAttempt.retry
      BY DEF NoAttempt
    <3> QED
      BY <1>2, <3>2, <3>3, <3>4
  <2>2. CASE ~IsCommitted(a)
    <3>1. b = [a EXCEPT !.pc = "read"]
      BY <2>2
    <3> HIDE DEF b
    <3>2. /\ b \in Attempt /\ b.pc = "read" /\ b.left = a.left /\ b.task = a.task
          /\ b.retry = a.retry /\ b.rows = a.rows /\ b.result = a.result /\ b.sig = a.sig
      BY <1>2, <3>1 DEF Attempt
    <3>3. Planned(b) = Planned(a) /\ NextKey(b) = n
      BY <3>2, SameLeft
    <3>4. AttemptOK(b)
      BY <1>1, <1>2, <3>2, <3>3 DEF AttemptOK
    <3>5. ResultsOK(b)
      BY <1>1, <1>2, <3>2, <3>3 DEF ResultsOK
    <3> QED
      BY <2>2, <3>2, <3>3, <3>4, <3>5
  <2> QED
    BY <2>1, <2>2
<1> HIDE DEF b
<1>4. /\ attempt' \in [Runners -> Attempt]
      /\ \A q \in Runners : AttemptOK(attempt'[q])
      /\ attempt'[r] = b
      /\ \A q \in Runners : q # r => attempt'[q] = attempt[q]
  BY <1>1, <1>3, OneAttempt DEF BackfillInv
<1>5. BackfillTypeOK'
  BY <1>1, <1>4 DEF BackfillInv, BackfillTypeOK
<1>6. \A q \in Runners : ResultsOK(attempt'[q])
  BY <1>3, <1>4 DEF BackfillInv
<1>7. WrittenOK'
  BY <1>1, <1>3, <1>4 DEF BackfillInv, WrittenOK, CommittedWasWritten
<1>8. RetriesOK'
  <2>1. ~trail[a.task].overlapped => trail[a.task].last[n] = committed[a.task][n]
    BY <1>1, <1>2, Recorded
  <2>2. ~IsCommitted(a) => committed[a.task][n] # a.sig
    BY DEF IsCommitted
  <2> QED
    BY <1>1, <1>2, <1>3, <1>4, <2>1, <2>2, RetriesStep
<1> QED
  BY <1>1, <1>5, <1>6, <1>7, <1>8 DEF BackfillInv

LEMMA ReadCurrentStep ==
  ASSUME BackfillInv, StoreTypeOK, NEW r \in Runners, ReadCurrent(r)
  PROVE  BackfillInv' /\ UNCHANGED storeVars
<1> DEFINE a == attempt[r]
           n == NextKey(a)
           old == a.result[n]
           new == IF Live(n) = None THEN old
                  ELSE [f \in Fields |-> Added(Live(n).fields[f], old[f])]
           b == [a EXCEPT !.pc = "write", !.entry = Live(n), !.result[n] = new]
<1>1. /\ a.pc = "read" /\ attempt' = [attempt EXCEPT ![r] = b]
      /\ UNCHANGED <<storeVars, committed, trail>>
  BY DEF ReadCurrent
<1>2. /\ a \in Attempt /\ AttemptOK(a) /\ ResultsOK(a) /\ a.task \in Tasks /\ n \in Keys
  BY <1>1, Working
<1>3. Live(n) \in Entry \cup {None}
  BY <1>2, LiveType
<1>4. old \in FieldMap /\ new \in FieldMap
  <2>1. old \in FieldMap
    BY <1>2 DEF Attempt
  <2>2. Live(n) # None => Live(n).fields \in FieldMap
    BY <1>3 DEF Entry
  <2> QED
    BY <2>1, <2>2, AddedType
<1>5. new = Updated(Live(n), old)
  BY DEF Updated
<1> HIDE DEF new, old
<1>6. /\ b \in Attempt /\ b.pc = "write" /\ b.left = a.left /\ b.task = a.task
      /\ b.retry = a.retry /\ b.rows = a.rows /\ b.sig = a.sig /\ b.entry = Live(n)
      /\ \A k \in Keys : b.result[k] = IF k = n THEN new ELSE a.result[k]
  <2> HIDE DEF n
  <2>1. [a.result EXCEPT ![n] = new] \in [Keys -> FieldMap]
    BY <1>2, <1>4 DEF Attempt
  <2>2. b = [a EXCEPT !.pc = "write", !.entry = Live(n),
                      !.result = [a.result EXCEPT ![n] = new]]
    BY <1>2 DEF Attempt
  <2> QED
    BY <1>2, <1>3, <2>1, <2>2 DEF Attempt
<1> HIDE DEF b
<1>7. Planned(b) = Planned(a) /\ NextKey(b) = n
  BY <1>6, SameLeft
<1>8. AttemptOK(b)
  BY <1>1, <1>2, <1>6, <1>7 DEF AttemptOK
<1>9. ResultsOK(b)
  <2> SUFFICES ASSUME NEW k \in Keys
               PROVE  /\ b.left[k] <= Occurrences(b.rows, k)
                      /\ b.left[k] = Occurrences(b.rows, k) =>
                           IF k = n THEN b.result[k] = Updated(b.entry, ResultFor(b.rows, k))
                           ELSE b.result[k] = ResultFor(b.rows, k)
    BY <1>6, <1>7 DEF ResultsOK
  <2>1. /\ a.left[k] <= Occurrences(a.rows, k)
        /\ a.left[k] = Occurrences(a.rows, k) => a.result[k] = ResultFor(a.rows, k)
    BY <1>1, <1>2 DEF ResultsOK
  <2>2. CASE k = n
    BY <1>5, <1>6, <2>1, <2>2 DEF old
  <2>3. CASE k # n
    BY <1>6, <2>1, <2>3
  <2> QED
    BY <2>2, <2>3
<1>10. /\ attempt' \in [Runners -> Attempt]
       /\ \A q \in Runners : AttemptOK(attempt'[q])
       /\ attempt'[r] = b
       /\ \A q \in Runners : q # r => attempt'[q] = attempt[q]
  BY <1>1, <1>6, <1>8, OneAttempt DEF BackfillInv, b
<1>11. BackfillTypeOK'
  BY <1>1, <1>10 DEF BackfillInv, BackfillTypeOK
<1>12. \A q \in Runners : ResultsOK(attempt'[q])
  BY <1>9, <1>10 DEF BackfillInv
<1>13. WrittenOK'
  BY <1>1, <1>6, <1>10 DEF BackfillInv, WrittenOK, CommittedWasWritten
<1>14. RetriesOK'
  <2>1. a.retry /\ ~trail[a.task].overlapped =>
          /\ trail[a.task].last[n] = committed[a.task][n]
          /\ committed[a.task][n] # a.sig
    <3> HAVE a.retry /\ ~trail[a.task].overlapped
    <3>1. trail[a.task].last[n] = committed[a.task][n]
      BY <1>1, Recorded
    <3>2. Retrying(r, a.task)
      BY DEF Retrying
    <3> QED
      BY <1>1, <1>2, <3>1, <3>2 DEF BackfillInv, RetriesOK
  <2> QED
    BY <1>1, <1>2, <1>6, <1>7, <1>10, <2>1, RetriesStep
<1> QED
  BY <1>1, <1>11, <1>12, <1>13, <1>14 DEF BackfillInv

LEMMA MarkCommittedStep ==
  ASSUME BackfillInv, NEW r \in Runners, MarkCommitted(r)
  PROVE  BackfillInv' /\ UNCHANGED storeVars
<1> DEFINE a == attempt[r]
           n == NextKey(a)
           t == a.task
           b == KeyDone(a)
<1>1. /\ a.pc = "mark" /\ attempt' = [attempt EXCEPT ![r] = b]
      /\ committed' = [committed EXCEPT ![t] = [committed[t] EXCEPT ![n] = a.sig]]
      /\ UNCHANGED <<storeVars, trail>>
  BY DEF MarkCommitted
<1>2. /\ a \in Attempt /\ AttemptOK(a) /\ ResultsOK(a) /\ t \in Tasks
      /\ n \in Keys /\ a.retry
  BY <1>1, Working
<1>3. /\ b \in Attempt /\ AttemptOK(b) /\ ResultsOK(b)
      /\ b.pc \in {"idle", "check"}
      /\ b.retry => b.task = t
  <2>1. NoAttempt.pc = "idle" /\ ~NoAttempt.retry
    BY DEF NoAttempt
  <2> QED
    BY <1>1, <1>2, <2>1, KeyDoneStep
<1> HIDE DEF b
<1>4. /\ attempt' \in [Runners -> Attempt]
      /\ \A q \in Runners : AttemptOK(attempt'[q])
      /\ attempt'[r] = b
      /\ \A q \in Runners : q # r => attempt'[q] = attempt[q]
  BY <1>1, <1>3, OneAttempt DEF BackfillInv
<1>5. /\ committed' \in [Tasks -> [Keys -> Sigs \cup {None}]]
      /\ \A u \in Tasks, k \in Keys :
           committed'[u][k] = IF u = t /\ k = n THEN a.sig ELSE committed[u][k]
  <2>1. committed \in [Tasks -> [Keys -> Sigs \cup {None}]] /\ a.sig \in Sigs
    BY <1>2 DEF BackfillInv, BackfillTypeOK, Attempt
  <2> HIDE DEF n, t, a
  <2> QED
    BY <1>1, <1>2, <2>1
<1>6. BackfillTypeOK'
  BY <1>1, <1>4, <1>5 DEF BackfillInv, BackfillTypeOK
<1>7. \A q \in Runners : ResultsOK(attempt'[q])
  BY <1>3, <1>4 DEF BackfillInv
<1>8. WrittenOK'
  <2>1. a.sig \in trail[t].all[n]
    BY <1>1 DEF BackfillInv, WrittenOK
  <2>2. CommittedWasWritten'
    BY <1>1, <1>5, <2>1 DEF BackfillInv, WrittenOK, CommittedWasWritten
  <2>3. \A q \in Runners : attempt'[q].pc = "mark" =>
          attempt'[q].sig \in trail'[attempt'[q].task].all[NextKey(attempt'[q])]
    BY <1>1, <1>3, <1>4 DEF BackfillInv, WrittenOK
  <2> QED
    BY <2>2, <2>3 DEF WrittenOK
<1>9. RetriesOK'
  <2>1. ~trail[t].overlapped => trail[t].last[n] = a.sig
    <3>1. Retrying(r, t)
      BY <1>2 DEF Retrying
    <3> QED
      BY <1>1, <1>2, <3>1 DEF BackfillInv, RetriesOK
  <2> QED
    BY <1>1, <1>2, <1>3, <1>4, <1>5, <2>1, RetriesStep
<1> QED
  BY <1>1, <1>6, <1>7, <1>8, <1>9 DEF BackfillInv

(* A refused result leaves no trace; a written one is in the trail at      *)
(* once, and a retry goes on to mark it.                                   *)
LEMMA ResultDoneStep ==
  ASSUME BackfillInv, NEW r \in Runners, attempt[r].pc \in {"write", "insert"},
         NEW written \in BOOLEAN, ResultDone(r, written)
  PROVE  BackfillInv' /\ NextKey(attempt[r]) \in Keys
<1> DEFINE a == attempt[r]
           n == NextKey(a)
           t == a.task
           refused == ~written
           b == IF a.retry /\ ~refused THEN [a EXCEPT !.pc = "mark", !.home = None]
                ELSE KeyDone(a)
           row == ResultFor(a.rows, n)
           old == trail[t]
           new == [old EXCEPT
                     !.results = [old.results EXCEPT ![n] = @ \cup {row}],
                     !.last = [old.last EXCEPT ![n] = IF a.retry THEN a.sig ELSE @],
                     !.all = [old.all EXCEPT ![n] = IF a.retry THEN @ \cup {a.sig} ELSE @]]
<1>1. /\ a.pc \in {"write", "insert"} /\ attempt' = [attempt EXCEPT ![r] = b]
      /\ UNCHANGED committed
  BY DEF ResultDone, Records
<1>2. /\ a \in Attempt /\ AttemptOK(a) /\ ResultsOK(a) /\ t \in Tasks /\ n \in Keys
  BY <1>1, Working
<1>3. old \in Trail /\ row \in FieldMap /\ trail \in [Tasks -> Trail]
  BY <1>2, ResultForType DEF BackfillInv, BackfillTypeOK, Attempt
<1>4. trail' = IF refused THEN trail ELSE [trail EXCEPT ![t] = new]
  BY <1>2, <1>3 DEF ResultDone, Trail
<1>5. /\ new \in Trail /\ new.overlapped = old.overlapped
      /\ \A k \in Keys :
           /\ new.last[k] = IF k = n /\ a.retry THEN a.sig ELSE old.last[k]
           /\ old.all[k] \subseteq new.all[k]
      /\ a.retry => a.sig \in new.all[n]
  <2>1. a.sig \in Sigs
    BY <1>2 DEF Attempt
  <2> HIDE DEF n, row, old, a
  <2>2. /\ [old.results EXCEPT ![n] = @ \cup {row}] \in [Keys -> SUBSET FieldMap]
        /\ [old.last EXCEPT ![n] = IF a.retry THEN a.sig ELSE @] \in [Keys -> Sigs \cup {None}]
        /\ [old.all EXCEPT ![n] = IF a.retry THEN @ \cup {a.sig} ELSE @] \in [Keys -> SUBSET Sigs]
    BY <1>2, <1>3, <2>1 DEF Trail
  <2>3. /\ new \in Trail /\ new.overlapped = old.overlapped
        /\ new.last = [old.last EXCEPT ![n] = IF a.retry THEN a.sig ELSE @]
        /\ new.all = [old.all EXCEPT ![n] = IF a.retry THEN @ \cup {a.sig} ELSE @]
    BY <1>3, <2>2 DEF Trail
  <2>4. old.last \in [Keys -> Sigs \cup {None}] /\ old.all \in [Keys -> SUBSET Sigs]
    BY <1>3 DEF Trail
  <2> HIDE DEF new
  <2> QED
    BY <1>2, <2>3, <2>4
<1> HIDE DEF new
<1>6. /\ trail' \in [Tasks -> Trail]
      /\ \A u \in Tasks : trail'[u].overlapped = trail[u].overlapped
      /\ \A u \in Tasks, k \in Keys :
           /\ trail'[u].last[k] = IF u = t /\ k = n /\ a.retry /\ ~refused THEN a.sig
                                  ELSE trail[u].last[k]
           /\ trail[u].all[k] \subseteq trail'[u].all[k]
      /\ a.retry /\ ~refused => a.sig \in trail'[t].all[n]
  <2>1. CASE refused
    BY <1>3, <1>4, <2>1
  <2>2. CASE ~refused
    <3>1. trail' \in [Tasks -> Trail]
          /\ \A u \in Tasks : trail'[u] = IF u = t THEN new ELSE trail[u]
      BY <1>2, <1>3, <1>4, <1>5, <2>2
    <3> QED
      BY <1>2, <1>5, <2>2, <3>1
  <2> QED
    BY <2>1, <2>2
<1>7. /\ b \in Attempt /\ AttemptOK(b) /\ ResultsOK(b)
      /\ b.retry => a.retry /\ b.task = t
      /\ b.retry => b.pc \in {"check", "mark"}
      /\ b.pc = "mark" => /\ a.retry /\ ~refused /\ NextKey(b) = n
                          /\ b.sig = a.sig /\ b.task = t
      /\ a.retry /\ ~refused => b.retry /\ b.pc = "mark"
  <2>1. CASE a.retry /\ ~refused
    <3>1. b = [a EXCEPT !.pc = "mark", !.home = None]
      BY <2>1
    <3> HIDE DEF b
    <3>2. /\ b \in Attempt /\ b.pc = "mark" /\ b.left = a.left /\ b.task = a.task
          /\ b.retry = a.retry /\ b.rows = a.rows /\ b.result = a.result /\ b.sig = a.sig
      BY <1>2, <3>1 DEF Attempt
    <3>3. Planned(b) = Planned(a) /\ NextKey(b) = n
      BY <3>2, SameLeft
    <3>4. AttemptOK(b)
      BY <1>1, <1>2, <2>1, <3>2, <3>3 DEF AttemptOK
    <3>5. ResultsOK(b)
      BY <1>1, <1>2, <3>2, <3>3 DEF ResultsOK
    <3> QED
      BY <2>1, <3>2, <3>3, <3>4, <3>5
  <2>2. CASE ~(a.retry /\ ~refused)
    <3>1. b = KeyDone(a)
      BY <2>2
    <3>2. NoAttempt.pc = "idle" /\ ~NoAttempt.retry
      BY DEF NoAttempt
    <3>3. /\ KeyDone(a) \in Attempt /\ AttemptOK(KeyDone(a)) /\ ResultsOK(KeyDone(a))
          /\ \/ KeyDone(a) = NoAttempt
             \/ /\ KeyDone(a).pc = IF a.retry THEN "check" ELSE "read"
                /\ KeyDone(a).retry = a.retry /\ KeyDone(a).task = a.task
      BY <1>1, <1>2, KeyDoneStep
    <3> HIDE DEF b
    <3> QED
      BY <1>2, <2>2, <3>1, <3>2, <3>3
  <2> QED
    BY <2>1, <2>2
<1>8. /\ attempt' \in [Runners -> Attempt]
      /\ \A q \in Runners : AttemptOK(attempt'[q])
      /\ attempt'[r] = b
      /\ \A q \in Runners : q # r => attempt'[q] = attempt[q]
  <2> HIDE DEF b
  <2> QED
    BY <1>1, <1>7, OneAttempt DEF BackfillInv
<1> HIDE DEF b
<1>9. BackfillTypeOK'
  BY <1>1, <1>6, <1>8 DEF BackfillInv, BackfillTypeOK
<1>10. \A q \in Runners : ResultsOK(attempt'[q])
  BY <1>7, <1>8 DEF BackfillInv
<1>11. WrittenOK'
  <2>1. CommittedWasWritten'
    BY <1>1, <1>6 DEF BackfillInv, WrittenOK, CommittedWasWritten
  <2>2. ASSUME NEW q \in Runners, attempt'[q].pc = "mark"
        PROVE  attempt'[q].sig \in trail'[attempt'[q].task].all[NextKey(attempt'[q])]
    <3>1. CASE q = r
      BY <1>6, <1>7, <1>8, <2>2, <3>1
    <3>2. CASE q # r
      <4>1. /\ attempt'[q] = attempt[q] /\ attempt[q].task \in Tasks
            /\ NextKey(attempt[q]) \in Keys
            /\ attempt[q].sig \in trail[attempt[q].task].all[NextKey(attempt[q])]
        BY <1>8, <2>2, <3>2, Working DEF BackfillInv, WrittenOK
      <4> QED
        BY <1>6, <4>1
    <3> QED
      BY <3>1, <3>2
  <2> QED
    BY <2>1, <2>2 DEF WrittenOK
<1>12. RetriesOK'
  <2>1. a.retry /\ ~trail[t].overlapped => trail[t].last[n] = committed[t][n]
    BY <1>1, Recorded
  <2> QED
    BY <1>1, <1>2, <1>6, <1>7, <1>8, <2>1, RetriesStep
<1>13. BackfillInv'
  BY <1>9, <1>10, <1>11, <1>12 DEF BackfillInv
<1> QED
  BY <1>2, <1>13

(* The result that a call puts into the store is the one it has prepared.  *)
LEMMA PreparedResult ==
  ASSUME BackfillInv, TypeOK, NEW r \in Runners, attempt[r].pc # "idle"
  PROVE  LET k == NextKey(attempt[r])
             e == [fields |-> attempt[r].result[k], version |-> attempt[r].ver, at |-> now]
         IN  e \in Entry /\ e.fields = attempt[r].result[k]
BY Working DEF Attempt, Entry, TypeOK

LEMMA WriteResultStep ==
  ASSUME BackfillInv, TypeOK, NEW r \in Runners, WriteResult(r)
  PROVE  /\ BackfillInv'
         /\ NextKey(attempt[r]) \in Keys
         /\ IF IsStale(NextKey(attempt[r]), attempt[r].ver) THEN UNCHANGED storeVars
            ELSE \E e \in Entry : /\ PutEntry(NextKey(attempt[r]), e)
                                  /\ e.fields = attempt[r].result[NextKey(attempt[r])]
<1> DEFINE a == attempt[r]
           n == NextKey(a)
           e == [fields |-> a.result[n], version |-> a.ver, at |-> now]
<1>1. /\ a.pc = "write" /\ CompareAndWrite(n, a.result[n], a.ver)
      /\ ResultDone(r, ~IsStale(n, a.ver))
  BY DEF WriteResult
<1>2. BackfillInv' /\ n \in Keys
  <2> DEFINE written == ~IsStale(n, a.ver)
  <2>1. written \in BOOLEAN /\ ResultDone(r, written)
    BY <1>1 DEF IsStale
  <2> HIDE DEF written
  <2> QED
    BY <1>1, <2>1, ResultDoneStep
<1>3. e \in Entry /\ e.fields = a.result[n]
  BY <1>1, PreparedResult
<1> HIDE DEF e
<1>4. ~IsStale(n, a.ver) => PutEntry(n, e)
  BY <1>1 DEF CompareAndWrite, e
<1>5. IsStale(n, a.ver) => UNCHANGED storeVars
  BY <1>1 DEF CompareAndWrite
<1> QED
  BY <1>2, <1>3, <1>4, <1>5

LEMMA InsertResultStep ==
  ASSUME BackfillInv, TypeOK, NEW r \in Runners, InsertResult(r)
  PROVE  /\ BackfillInv'
         /\ NextKey(attempt[r]) \in Keys
         /\ \E e \in Entry : /\ PutEntry(NextKey(attempt[r]), e)
                             /\ e.fields = attempt[r].result[NextKey(attempt[r])]
<1> DEFINE a == attempt[r]
           n == NextKey(a)
           e == [fields |-> a.result[n], version |-> a.ver, at |-> now]
<1>1. a.pc = "insert" /\ InsertEntry(n, a.result[n], a.ver) /\ ResultDone(r, TRUE)
  BY DEF InsertResult
<1>2. BackfillInv' /\ n \in Keys
  BY <1>1, ResultDoneStep
<1>3. e \in Entry /\ e.fields = a.result[n]
  BY <1>1, PreparedResult
<1>4. PutEntry(n, e)
  BY <1>1 DEF InsertEntry
<1> HIDE DEF e
<1> QED
  BY <1>2, <1>3, <1>4

LEMMA FindNothingStep ==
  ASSUME BackfillInv, StoreTypeOK, NEW r \in Runners, FindNothing(r)
  PROVE  BackfillInv' /\ UNCHANGED storeVars
<1> DEFINE a == attempt[r]
           n == NextKey(a)
           b == [a EXCEPT !.pc = "insert", !.home = HomeShard(n)]
<1>2. /\ a \in Attempt /\ AttemptOK(a) /\ ResultsOK(a) /\ a.task \in Tasks /\ n \in Keys
      /\ a.pc = "write"
  BY Working DEF FindNothing
<1>1. /\ attempt' = [attempt EXCEPT ![r] = b]
      /\ UNCHANGED <<storeVars, committed, trail>>
  <2>1. b = [[a EXCEPT !.pc = "insert"] EXCEPT !.home = HomeShard(n)]
    BY <1>2 DEF Attempt
  <2> QED
    BY <1>2, <2>1 DEF FindNothing, CompareAbsent, BackfillInv, BackfillTypeOK
<1>3. HomeShard(n) \in ShardIDs
  BY <1>2, RouteFacts
<1>4. /\ b \in Attempt /\ b.pc = "insert" /\ b.left = a.left /\ b.task = a.task
      /\ b.retry = a.retry /\ b.rows = a.rows /\ b.sig = a.sig /\ b.entry = a.entry
      /\ b.result = a.result
  BY <1>2, <1>3 DEF Attempt
<1> HIDE DEF b
<1>5. Planned(b) = Planned(a) /\ NextKey(b) = n
  BY <1>4, SameLeft
<1>6. AttemptOK(b) /\ ResultsOK(b)
  BY <1>2, <1>4, <1>5 DEF AttemptOK, ResultsOK
<1>7. /\ attempt' \in [Runners -> Attempt]
      /\ \A q \in Runners : AttemptOK(attempt'[q])
      /\ attempt'[r] = b
      /\ \A q \in Runners : q # r => attempt'[q] = attempt[q]
  BY <1>1, <1>4, <1>6, OneAttempt DEF BackfillInv
<1>8. BackfillTypeOK'
  BY <1>1, <1>7 DEF BackfillInv, BackfillTypeOK
<1>9. \A q \in Runners : ResultsOK(attempt'[q])
  BY <1>6, <1>7 DEF BackfillInv
<1>10. WrittenOK'
  BY <1>1, <1>4, <1>7 DEF BackfillInv, WrittenOK, CommittedWasWritten
<1>11. RetriesOK'
  <2>1. a.retry /\ ~trail[a.task].overlapped =>
          /\ trail[a.task].last[n] = committed[a.task][n]
          /\ committed[a.task][n] # a.sig
    <3> HAVE a.retry /\ ~trail[a.task].overlapped
    <3>1. trail[a.task].last[n] = committed[a.task][n]
      BY <1>2, Recorded
    <3>2. Retrying(r, a.task)
      BY DEF Retrying
    <3> QED
      BY <1>2, <3>1, <3>2 DEF BackfillInv, RetriesOK
  <2> QED
    BY <1>1, <1>2, <1>4, <1>5, <1>7, <2>1, RetriesStep
<1> QED
  BY <1>1, <1>8, <1>9, <1>10, <1>11 DEF BackfillInv

-----------------------------------------------------------------------------
(* The request as a whole *)

LEMMA BackfillInitInv == BackfillInit => BackfillInv
<1> SUFFICES ASSUME BackfillInit PROVE BackfillInv
  OBVIOUS
<1>1. /\ committed = [t \in Tasks |-> [k \in Keys |-> None]]
      /\ attempt = [r \in Runners |-> NoAttempt]
      /\ trail = [t \in Tasks |-> NoTrail]
  BY DEF BackfillInit
<1>2. NoTrail \in Trail /\ \A k \in Keys : NoTrail.last[k] = None
  BY DEF NoTrail, Trail
<1>3. NoAttempt.pc = "idle" /\ ~NoAttempt.retry
  BY DEF NoAttempt
<1>4. BackfillTypeOK
  BY <1>1, <1>2, NoAttemptType DEF BackfillTypeOK
<1>5. \A r \in Runners : ResultsOK(attempt[r])
  BY <1>1, <1>3 DEF ResultsOK
<1>6. WrittenOK
  BY <1>1, <1>3 DEF WrittenOK, CommittedWasWritten
<1>7. RetriesOK
  BY <1>1, <1>2, <1>3 DEF RetriesOK, Retrying
<1> QED
  BY <1>4, <1>5, <1>6, <1>7 DEF BackfillInv

(* A step of a request keeps the invariant and writes at most the key it   *)
(* works on.                                                               *)
LEMMA BackfillStepInv ==
  ASSUME BackfillInv, TypeOK, StoreTypeOK, NEW r \in Runners, BackfillStep(r)
  PROVE  /\ BackfillInv'
         /\ \/ UNCHANGED storeVars
            \/ /\ attempt[r].pc \in {"write", "insert"}
               /\ NextKey(attempt[r]) \in Keys
               /\ \E e \in Entry : PutEntry(NextKey(attempt[r]), e)
<1>1. CASE WriteResult(r)
  <2>1. attempt[r].pc = "write"
    BY <1>1 DEF WriteResult
  <2> QED
    BY <1>1, <2>1, WriteResultStep
<1>2. CASE InsertResult(r)
  <2>1. attempt[r].pc = "insert"
    BY <1>2 DEF InsertResult
  <2> QED
    BY <1>2, <2>1, InsertResultStep
<1> QED
  BY <1>1, <1>2, StartRunStep, StartRetryStep, CheckCommittedStep, ReadCurrentStep,
     FindNothingStep, MarkCommittedStep DEF BackfillStep

(* Only its own step takes a request out of "write" or "insert".           *)
LEMMA OnlyOwnWrite ==
  ASSUME BackfillTypeOK, NEW q \in Runners, BackfillStep(q),
         NEW r \in Runners, attempt[r].pc \in {"write", "insert"},
         attempt'[r].pc \notin {"write", "insert"}
  PROVE  IF attempt[r].pc = "write" THEN WriteResult(r) ELSE InsertResult(r)
<1>1. attempt[r].pc \in {"write", "insert"} /\ attempt'[r] # attempt[r]
  OBVIOUS
<1>2. \A a : attempt' = [attempt EXCEPT ![q] = a] => q = r
  BY <1>1 DEF BackfillTypeOK
<1>3. CASE FindNothing(q)
  <2>1. ASSUME q # r PROVE FALSE
    BY <1>1, <1>3, <2>1 DEF FindNothing, BackfillTypeOK
  <2>2. attempt'[q].pc = "insert"
    BY <1>3 DEF FindNothing, BackfillTypeOK, Attempt
  <2> QED
    BY <1>1, <2>1, <2>2
<1>4. CASE ~FindNothing(q)
  <2>1. q = r
    <3>1. \E a : attempt' = [attempt EXCEPT ![q] = a]
      BY <1>4 DEF BackfillStep, StartRun, StartRetry, StartAttempt, CheckCommitted,
                  ReadCurrent, WriteResult, InsertResult, ResultDone, MarkCommitted
    <3> QED
      BY <1>2, <3>1
  <2> QED
    BY <1>1, <1>4, <2>1 DEF BackfillStep, StartRun, StartRetry, StartAttempt,
         CheckCommitted, ReadCurrent, MarkCommitted, WriteResult, InsertResult
<1> QED
  BY <1>3, <1>4

LEMMA WriteAddsUp ==
  ASSUME BackfillInv, TypeOK, StoreTypeOK, NEW r \in Runners, NEW k \in Keys,
         \/ WriteResult(r) /\ ~IsStale(k, attempt[r].ver)
         \/ InsertResult(r),
         k = NextKey(attempt[r]), attempt[r].entry = Live(k), ~Repeated(attempt[r], k), NEW f \in Fields
  PROVE  LET row == ResultFor(attempt[r].rows, k) IN
         shards'[HomeShard(k)][k].fields[f] =
           IF Live(k) # None /\ Live(k).fields[f] \in Ints /\ row[f] \in Ints
           THEN (Live(k).fields[f] + row[f]) % IntWidth ELSE row[f]
<1> DEFINE a == attempt[r]
           row == ResultFor(a.rows, k)
<1>1. PICK e \in Entry : PutEntry(k, e) /\ e.fields = a.result[k]
  BY WriteResultStep, InsertResultStep
<1>2. shards'[HomeShard(k)][k] = e
  <2>1. Live(k)' = e /\ HomeShard(k)' = HomeShard(k)
    BY <1>1, PutEntryStep
  <2> QED
    BY <2>1 DEF Live
<1>3. a.pc \in {"write", "insert"} /\ ResultsOK(a) /\ a \in Attempt
  <2>1. a.pc \in {"write", "insert"}
    BY DEF WriteResult, InsertResult
  <2> QED
    BY <2>1, Working
<1>4. a.left[k] = Occurrences(a.rows, k)
  <2>1. /\ a.left[k] <= Occurrences(a.rows, k)
        /\ a.left[k] \in Nat /\ Occurrences(a.rows, k) \in Nat
    BY <1>3, OccurrencesType DEF ResultsOK, Attempt
  <2> QED
    BY <2>1 DEF Repeated
<1>5. e.fields = Updated(Live(k), row)
  BY <1>1, <1>3, <1>4 DEF ResultsOK
<1> QED
  BY <1>2, <1>5 DEF Updated, Added

(* At most one request is between the two steps of an insertion, and what  *)
(* it found nothing in still holds nothing.                                *)
HeldInv ==
  /\ \A q, r \in Runners : attempt[q].pc = "insert" /\ attempt[r].pc = "insert" => q = r
  /\ \A r \in Runners : attempt[r].pc = "insert" =>
       shards[attempt[r].home][NextKey(attempt[r])] = None

LEMMA HeldAbsent ==
  ASSUME HeldInv
  PROVE  InsertsOnlyAbsent
BY DEF HeldInv, InsertsOnlyAbsent, Live

LEMMA HeldFree ==
  ASSUME StoreFree, UNCHANGED attempt
  PROVE  HeldInv'
BY DEF StoreFree, HeldInv

(* Only FindNothing takes a request to "insert".                           *)
LEMMA StepEndsElsewhere ==
  ASSUME BackfillInv, TypeOK, NEW r \in Runners, BackfillStep(r), ~FindNothing(r)
  PROVE  attempt'[r].pc # "insert"
<1>1. ASSUME NEW t \in Tasks, StartRun(r, t) \/ StartRetry(r, t) PROVE attempt'[r].pc # "insert"
  <2>1. ASSUME NEW retry \in BOOLEAN, NEW rows \in Inputs, StartAttempt(r, t, retry, rows)
        PROVE  attempt'[r].pc # "insert"
    <3>1. PICK b \in Attempt :
            /\ attempt' = [attempt EXCEPT ![r] = b]
            /\ \/ b = NoAttempt
               \/ /\ b.pc = IF retry THEN "check" ELSE "read"
                  /\ b.retry = retry /\ b.task = t
      BY <2>1, StartAttemptStep DEF BackfillInv
    <3>2. attempt'[r] = b /\ b.pc # "insert"
      BY <3>1 DEF BackfillInv, BackfillTypeOK, NoAttempt
    <3> QED
      BY <3>2
  <2>2. PICK retry \in BOOLEAN, rows \in Inputs : StartAttempt(r, t, retry, rows)
    BY <1>1 DEF StartRun, StartRetry
  <2> QED
    BY <2>1, <2>2
<1>2. ASSUME attempt[r].pc # "idle",
             \/ attempt' = [attempt EXCEPT ![r] = KeyDone(attempt[r])]
             \/ \E b \in Attempt : /\ attempt' = [attempt EXCEPT ![r] = b]
                                  /\ b.pc # "insert"
      PROVE  attempt'[r].pc # "insert"
  <2>1. NoAttempt.pc = "idle"
    BY DEF NoAttempt
  <2>2. KeyDone(attempt[r]).pc # "insert"
    <3>1. \/ KeyDone(attempt[r]) = NoAttempt
          \/ KeyDone(attempt[r]).pc = IF attempt[r].retry THEN "check" ELSE "read"
      BY <1>2, Working, KeyDoneStep
    <3> QED
      BY <2>1, <3>1
  <2> QED
    BY <1>2, <2>2 DEF BackfillInv, BackfillTypeOK
<1>3. CASE CheckCommitted(r)
  <2>1. /\ attempt[r].pc = "check" /\ attempt[r] \in Attempt
        /\ attempt' = [attempt EXCEPT ![r] =
              IF IsCommitted(attempt[r]) THEN KeyDone(attempt[r])
              ELSE [attempt[r] EXCEPT !.pc = "read"]]
    BY <1>3, Working DEF CheckCommitted
  <2>2. /\ [attempt[r] EXCEPT !.pc = "read"] \in Attempt
        /\ [attempt[r] EXCEPT !.pc = "read"].pc = "read"
    BY <2>1 DEF Attempt
  <2> QED
    BY <1>2, <2>1, <2>2
<1>4. CASE ReadCurrent(r)
  <2>1. attempt[r].pc = "read" /\ attempt[r] \in Attempt
    BY <1>4, Working DEF ReadCurrent
  <2>2. attempt'[r].pc = "write"
    BY <1>4, <2>1 DEF ReadCurrent, BackfillInv, BackfillTypeOK, Attempt
  <2> QED
    BY <2>2
<1>5. ASSUME NEW written \in BOOLEAN, attempt[r].pc # "idle", ResultDone(r, written)
      PROVE  attempt'[r].pc # "insert"
  <2>1. /\ attempt[r] \in Attempt
        /\ attempt' = [attempt EXCEPT ![r] =
              IF attempt[r].retry /\ written
              THEN [attempt[r] EXCEPT !.pc = "mark", !.home = None]
              ELSE KeyDone(attempt[r])]
    BY <1>5, Working DEF ResultDone, Records
  <2>2. /\ [attempt[r] EXCEPT !.pc = "mark", !.home = None] \in Attempt
        /\ [attempt[r] EXCEPT !.pc = "mark", !.home = None].pc = "mark"
    BY <2>1 DEF Attempt
  <2> QED
    BY <1>2, <1>5, <2>1, <2>2
<1>6. CASE WriteResult(r)
  <2> DEFINE written == ~IsStale(NextKey(attempt[r]), attempt[r].ver)
  <2>1. attempt[r].pc = "write" /\ written \in BOOLEAN /\ ResultDone(r, written)
    BY <1>6 DEF WriteResult, IsStale
  <2> HIDE DEF written
  <2> QED
    BY <1>5, <2>1
<1>7. CASE InsertResult(r)
  BY <1>5, <1>7 DEF InsertResult
<1>8. CASE MarkCommitted(r)
  BY <1>2, <1>8 DEF MarkCommitted
<1> QED
  BY <1>1, <1>3, <1>4, <1>6, <1>7, <1>8 DEF BackfillStep

(* The steps that may be taken while the lock is held.                     *)
LEMMA HeldStep ==
  ASSUME BackfillInv, TypeOK, HeldInv, NEW r \in Runners, BackfillStep(r),
         StoreFree \/ attempt[r].pc = "insert"
  PROVE  HeldInv'
<1>1. \A q \in Runners : q # r => attempt[q].pc # "insert"
  BY DEF StoreFree, HeldInv
<1>2. CASE FindNothing(r)
  <2>1. /\ attempt[r] \in Attempt /\ attempt \in [Runners -> Attempt]
        /\ NextKey(attempt[r]) \in Keys
    BY <1>2, Working DEF FindNothing, BackfillInv, BackfillTypeOK
  <2>2. /\ attempt'[r].left = attempt[r].left /\ attempt'[r].home = HomeShard(NextKey(attempt[r]))
        /\ \A q \in Runners : q # r => attempt'[q] = attempt[q]
    BY <1>2, <2>1 DEF FindNothing, Attempt
  <2>3. NextKey(attempt'[r]) = NextKey(attempt[r])
    BY <2>2, SameLeft
  <2>4. shards' = shards /\ Live(NextKey(attempt[r])) = None
    BY <1>2 DEF FindNothing, CompareAbsent, storeVars
  <2> QED
    BY <1>1, <2>2, <2>3, <2>4 DEF HeldInv, Live
<1>3. CASE ~FindNothing(r)
  <2>1. \A q \in Runners : q # r => attempt'[q] = attempt[q]
    <3>1. \E b : attempt' = [attempt EXCEPT ![r] = b]
      BY <1>3 DEF BackfillStep, StartRun, StartRetry, StartAttempt, CheckCommitted,
                  ReadCurrent, WriteResult, InsertResult, ResultDone, MarkCommitted
    <3> QED
      BY <3>1 DEF BackfillInv, BackfillTypeOK
  <2>2. attempt'[r].pc # "insert"
    BY <1>3, StepEndsElsewhere
  <2> QED
    BY <1>1, <2>1, <2>2 DEF HeldInv
<1> QED
  BY <1>2, <1>3

LEMMA WriteNotTwice ==
  ASSUME BackfillInv, NEW r \in Runners, attempt[r].pc \in {"write", "insert"},
         attempt[r].retry,
         ~trail[attempt[r].task].overlapped
  PROVE  trail[attempt[r].task].last[NextKey(attempt[r])] # attempt[r].sig
<1>1. attempt[r].task \in Tasks /\ Retrying(r, attempt[r].task)
  BY Working DEF Retrying
<1>2. committed[attempt[r].task][NextKey(attempt[r])] # attempt[r].sig
  BY <1>1 DEF BackfillInv, RetriesOK
<1> QED
  BY <1>2, Recorded

-----------------------------------------------------------------------------
(* The count of a task *)

Settled(t) ==
  /\ IsFiniteSet(OpenOf(t))
  /\ tasks[t].processed + Cardinality(OpenOf(t)) = tasks[t].total
  /\ tasks[t].state = "done" <=> (OpenOf(t) = {} /\ tasks[t].total > 0)

(* A Run under way has a record to count on, its own or that of a later    *)
(* Run; a request that ended works on no task.                             *)
SettleInv ==
  /\ tasks \in [Tasks -> Task \cup {None}]
  /\ \A r \in Runners :
       IF attempt[r].pc = "idle" THEN attempt[r].task = None
       ELSE attempt[r].retry \/ tasks[attempt[r].task] \in Task
  /\ \A t \in Tasks : tasks[t] \in Task => Settled(t)

LEMMA OpenPlaces ==
  ASSUME NEW a, a.left \in [Keys -> Nat]
  PROVE  /\ \A k, n : <<k, n>> \in Open(a) <=> k \in Keys /\ n \in 1 .. a.left[k]
         /\ \A p \in Open(a) : p = <<p[1], p[2]>>
         /\ Open(a) = {} <=> Planned(a) = {}
<1>1. /\ \A k, n : <<k, n>> \in Open(a) <=> k \in Keys /\ n \in 1 .. a.left[k]
      /\ \A p \in Open(a) : p = <<p[1], p[2]>>
  BY DEF Open
<1>2. ASSUME NEW k \in Planned(a) PROVE <<k, 1>> \in Open(a)
  BY <1>1 DEF Planned
<1>3. ASSUME NEW p \in Open(a) PROVE p[1] \in Planned(a)
  <2>1. <<p[1], p[2]>> \in Open(a)
    BY <1>1
  <2>2. p[1] \in Keys /\ p[2] \in 1 .. a.left[p[1]]
    BY <1>1, <2>1
  <2>3. a.left[p[1]] \in Nat
    BY <2>2
  <2>4. a.left[p[1]] > 0
    BY <2>2, <2>3
  <2> QED
    BY <2>2, <2>4 DEF Planned
<1> QED
  BY <1>1, <1>2, <1>3

(* How often a key occurs up to a row grows by one at each of its rows.    *)
RowsTo(rows, k, i) == {j \in 1 .. i : rows[j].key = k}

LEMMA RowsToCount ==
  ASSUME NEW rows \in RowSeqs, NEW k, NEW i \in 1 .. Len(rows)
  PROVE  /\ IsFiniteSet(RowsTo(rows, k, i)) /\ Cardinality(RowsTo(rows, k, i)) \in Nat
         /\ IsFiniteSet(RowsTo(rows, k, i - 1)) /\ Cardinality(RowsTo(rows, k, i - 1)) \in Nat
         /\ Cardinality(RowsTo(rows, k, i)) =
              Cardinality(RowsTo(rows, k, i - 1)) + (IF rows[i].key = k THEN 1 ELSE 0)
<1>1. Len(rows) \in Nat /\ i \in Nat /\ i - 1 \in Nat /\ i \notin 1 .. i - 1
  BY DEF RowSeqs
<1>2. IsFiniteSet(1 .. i - 1)
  BY <1>1, FS_Interval
<1>3. IsFiniteSet(RowsTo(rows, k, i - 1)) /\ i \notin RowsTo(rows, k, i - 1)
  BY <1>1, <1>2, FS_Subset DEF RowsTo
<1>4. RowsTo(rows, k, i) =
        IF rows[i].key = k THEN RowsTo(rows, k, i - 1) \cup {i} ELSE RowsTo(rows, k, i - 1)
  BY <1>1 DEF RowsTo
<1>5. /\ IsFiniteSet(RowsTo(rows, k, i - 1) \cup {i})
      /\ Cardinality(RowsTo(rows, k, i - 1) \cup {i}) = Cardinality(RowsTo(rows, k, i - 1)) + 1
  BY <1>3, FS_AddElement
<1> QED
  BY <1>3, <1>4, <1>5, FS_CardinalityType

LEMMA RowsToGrow ==
  ASSUME NEW rows \in RowSeqs, NEW k,
         NEW i \in 1 .. Len(rows), NEW j \in 1 .. Len(rows), i <= j
  PROVE  Cardinality(RowsTo(rows, k, i)) <= Cardinality(RowsTo(rows, k, j))
<1>1. RowsTo(rows, k, i) \subseteq RowsTo(rows, k, j)
  BY DEF RowsTo, RowSeqs
<1> QED
  BY <1>1, RowsToCount, FS_Subset

(* The plan has one place for each row: the row's key, and how often the   *)
(* key has occurred up to that row.                                        *)
LEMMA PlanCounted ==
  ASSUME NEW rows \in RowSeqs, NEW a, a.left = BuildPlan(rows)
  PROVE  IsFiniteSet(Open(a)) /\ Cardinality(Open(a)) = Len(rows)
<1> DEFINE N == Len(rows)
           C(i, k) == Cardinality(RowsTo(rows, k, i))
           place == [i \in 1 .. N |-> <<rows[i].key, C(i, rows[i].key)>>]
<1>1. N \in Nat /\ DOMAIN rows = 1 .. N /\ \A i \in 1 .. N : rows[i].key \in Keys
  <2>1. /\ N \in Nat /\ DOMAIN rows = 1 .. N
        /\ rows \in Seq([key : Keys, fields : FieldMap])
    BY DEF RowSeqs
  <2>2. \A i \in 1 .. N : rows[i] \in [key : Keys, fields : FieldMap]
    BY <2>1, ElementOfSeq
  <2> QED
    BY <2>1, <2>2
<1>2. a.left \in [Keys -> Nat] /\ \A k \in Keys : a.left[k] = C(N, k)
  <2>1. \A k \in Keys : a.left[k] = Occurrences(rows, k)
    BY DEF BuildPlan
  <2>2. \A k \in Keys : Occurrences(rows, k) = C(N, k)
    BY <1>1 DEF Occurrences, RowsTo
  <2> QED
    BY <2>1, <2>2, OccurrencesType DEF BuildPlan
<1>3. \A k, n : <<k, n>> \in Open(a) <=> k \in Keys /\ n \in 1 .. C(N, k)
  BY <1>2, OpenPlaces
<1>4. /\ \A k, i : i \in 1 .. N =>
           /\ C(i, k) \in Nat /\ C(i - 1, k) \in Nat
           /\ C(i, k) = C(i - 1, k) + (IF rows[i].key = k THEN 1 ELSE 0)
      /\ \A k, i, j : i \in 1 .. N /\ j \in 1 .. N /\ i <= j => C(i, k) <= C(j, k)
  BY RowsToCount, RowsToGrow
<1>5. \A k : C(0, k) = 0
  <2>1. \A k : RowsTo(rows, k, 0) = {}
    BY DEF RowsTo
  <2> QED
    BY <2>1, FS_EmptySet
<1> HIDE DEF C
<1>6. place \in [1 .. N -> Open(a)]
  <2> SUFFICES ASSUME NEW i \in 1 .. N
               PROVE  <<rows[i].key, C(i, rows[i].key)>> \in Open(a)
    OBVIOUS
  <2> DEFINE k == rows[i].key
  <2>1. i <= N /\ N \in 1 .. N /\ k \in Keys
    BY <1>1
  <2>2. C(i, k) \in Nat /\ C(i, k) >= 1 /\ C(N, k) \in Nat /\ C(i, k) <= C(N, k)
    <3>1. C(i, k) \in Nat /\ C(i - 1, k) \in Nat /\ C(i, k) = C(i - 1, k) + 1
      BY <1>4
    <3>2. C(N, k) \in Nat /\ C(i, k) <= C(N, k)
      BY <1>4, <2>1
    <3> QED
      BY <3>1, <3>2
  <2> HIDE DEF k
  <2>3. <<k, C(i, k)>> \in Open(a)
    BY <1>3, <2>1, <2>2
  <2> QED
    BY <2>3 DEF k
<1>7. ASSUME NEW i \in 1 .. N, NEW j \in 1 .. N, i < j PROVE place[i] # place[j]
  <2> DEFINE k == rows[j].key
  <2>1. j - 1 \in 1 .. N /\ i <= j - 1
    BY <1>1, <1>7
  <2>2. C(i, k) <= C(j - 1, k) /\ C(j, k) = C(j - 1, k) + 1
    BY <1>4, <2>1
  <2>3. C(i, k) \in Nat /\ C(j, k) \in Nat /\ C(j - 1, k) \in Nat
    BY <1>4
  <2> QED
    BY <2>2, <2>3
<1>8. ASSUME NEW p \in Open(a) PROVE \E i \in 1 .. N : place[i] = p
  <2> DEFINE k == p[1]
             n == p[2]
             S == {i \in 1 .. N : n <= C(i, k)}
  <2>1. p = <<k, n>> /\ k \in Keys /\ n \in 1 .. C(N, k) /\ n \in Nat
    <3>1. p = <<k, n>> /\ k \in Keys /\ n \in 1 .. C(N, k)
      BY <1>2, <1>3, OpenPlaces
    <3>2. C(N, k) \in Nat
      BY <1>2, <3>1
    <3> HIDE DEF k, n
    <3> QED
      BY <3>1, <3>2
  <2> HIDE DEF k, n
  <2>2. N \in S
    <3>1. N # 0
      BY <1>5, <2>1
    <3> QED
      BY <1>1, <1>4, <2>1, <3>1
  <2>3. PICK i \in S : \A j \in S : i <= j
    <3>1. S \subseteq Nat /\ S # {}
      BY <1>1, <2>2
    <3> HIDE DEF S
    <3> QED
      BY <3>1, LeastNat
  <2>4. C(i - 1, k) < n
    <3>1. CASE i = 1
      BY <1>5, <2>1, <3>1
    <3>2. CASE i # 1
      <4>1. i - 1 \in 1 .. N /\ i - 1 \notin S
        BY <1>1, <2>3, <3>2
      <4>2. C(i - 1, k) \in Nat
        BY <1>4
      <4> QED
        BY <2>1, <4>1, <4>2
    <3> QED
      BY <3>1, <3>2
  <2>5. C(i, k) = n /\ rows[i].key = k
    <3>1. /\ C(i, k) \in Nat /\ C(i - 1, k) \in Nat
          /\ C(i, k) = C(i - 1, k) + (IF rows[i].key = k THEN 1 ELSE 0)
      BY <1>4
    <3>2. n <= C(i, k)
      BY <2>3
    <3> QED
      BY <2>1, <2>4, <3>1, <3>2
  <2> QED
    BY <2>1, <2>3, <2>5
<1> HIDE DEF place
<1>9. place \in Bijection(1 .. N, Open(a))
  <2>1. \A i, j \in 1 .. N : place[i] = place[j] => i = j
    BY <1>1, <1>7
  <2> QED
    BY <1>6, <1>8, <2>1 DEF Bijection, Injection, Surjection, IsInjective
<1>10. IsFiniteSet(1 .. N) /\ Cardinality(1 .. N) = N
  BY <1>1, FS_Interval
<1> QED
  BY <1>9, <1>10, FS_Bijection DEF ExistsBijection

(* One place less when one occurrence of a key is done.                    *)
LEMMA OnePlaceLess ==
  ASSUME NEW a, NEW b, NEW n \in Keys, a.left \in [Keys -> Nat], a.left[n] > 0,
         b.left = [a.left EXCEPT ![n] = @ - 1], IsFiniteSet(Open(a))
  PROVE  /\ IsFiniteSet(Open(b)) /\ Open(a) # {}
         /\ Cardinality(Open(b)) \in Nat
         /\ Cardinality(Open(a)) = Cardinality(Open(b)) + 1
<1> DEFINE last == <<n, a.left[n]>>
<1>1. b.left \in [Keys -> Nat]
      /\ \A k \in Keys : b.left[k] = IF k = n THEN a.left[n] - 1 ELSE a.left[k]
  BY SMTT(30)
<1>2. last \in Open(a)
  BY OpenPlaces
<1>3. Open(b) = Open(a) \ {last}
  <2>1. ASSUME NEW k, NEW m PROVE <<k, m>> \in Open(b) <=> <<k, m>> \in Open(a) \ {last}
    <3>1. <<k, m>> \in Open(b) <=> k \in Keys /\ m \in 1 .. b.left[k]
      BY <1>1, OpenPlaces
    <3>2. <<k, m>> \in Open(a) <=> k \in Keys /\ m \in 1 .. a.left[k]
      BY OpenPlaces
    <3>3. <<k, m>> = last <=> k = n /\ m = a.left[n]
      OBVIOUS
    <3>4. k \in Keys => a.left[k] \in Nat
      OBVIOUS
    <3> HIDE DEF last
    <3> QED
      BY <1>1, <3>1, <3>2, <3>3, <3>4
  <2>2. /\ \A p \in Open(a) : p = <<p[1], p[2]>>
        /\ \A p \in Open(b) : p = <<p[1], p[2]>>
    BY <1>1, OpenPlaces
  <2> HIDE DEF last
  <2> QED
    BY <2>1, <2>2
<1> HIDE DEF last
<1>4. IsFiniteSet(Open(b)) /\ Cardinality(Open(b)) = Cardinality(Open(a)) - 1
  BY <1>2, <1>3, FS_RemoveElement
<1>5. Cardinality(Open(a)) \in Nat /\ Cardinality(Open(b)) \in Nat
  BY <1>4, FS_CardinalityType
<1> QED
  BY <1>2, <1>4, <1>5

(* A request ends when no place is left.                                   *)
LEMMA ProceedPlaces ==
  ASSUME NEW a \in Attempt
  PROVE  IF Open(a) = {} THEN Proceed(a) = NoAttempt
         ELSE /\ Open(Proceed(a)) = Open(a)
              /\ Proceed(a).pc # "idle"
              /\ Proceed(a).retry = a.retry /\ Proceed(a).task = a.task
<1> DEFINE b == [a EXCEPT !.pc = IF a.retry THEN "check" ELSE "read",
                        !.entry = None, !.home = None]
<1>1. Proceed(a) = IF Open(a) = {} THEN NoAttempt ELSE b
  BY OpenPlaces DEF Proceed, Attempt
<1>2. /\ b.left = a.left /\ b.pc # "idle" /\ b.retry = a.retry /\ b.task = a.task
  BY DEF Attempt
<1> QED
  BY <1>1, <1>2 DEF Open

LEMMA KeyDonePlaces ==
  ASSUME NEW a \in Attempt, AttemptOK(a), a.pc # "idle", IsFiniteSet(Open(a))
  PROVE  /\ Open(a) # {}
         /\ \/ /\ KeyDone(a) = NoAttempt /\ Cardinality(Open(a)) = 1
            \/ /\ KeyDone(a).pc # "idle"
               /\ KeyDone(a).retry = a.retry /\ KeyDone(a).task = a.task
               /\ Open(KeyDone(a)) # {} /\ IsFiniteSet(Open(KeyDone(a)))
               /\ Cardinality(Open(KeyDone(a))) \in Nat
               /\ Cardinality(Open(a)) = Cardinality(Open(KeyDone(a))) + 1
<1> DEFINE n == NextKey(a)
           b == [a EXCEPT !.left[n] = @ - 1]
<1>1. n \in Keys /\ a.left[n] \in Nat /\ a.left[n] > 0 /\ a.left \in [Keys -> Nat]
  BY NextKeyPlanned DEF AttemptOK, Planned, Attempt
<1>2. a.left[n] - 1 \in Nat
  BY <1>1
<1>3. KeyDone(a) = Proceed(b)
  BY DEF KeyDone
<1> HIDE DEF n
<1>4. /\ b \in Attempt /\ b.task = a.task /\ b.retry = a.retry
      /\ b.left = [a.left EXCEPT ![n] = @ - 1]
  BY <1>1, <1>2 DEF Attempt
<1> HIDE DEF b
<1>5. /\ IsFiniteSet(Open(b)) /\ Open(a) # {}
      /\ Cardinality(Open(b)) \in Nat
      /\ Cardinality(Open(a)) = Cardinality(Open(b)) + 1
  BY <1>1, <1>4, OnePlaceLess
<1>6. CASE Open(b) = {}
  BY <1>3, <1>4, <1>5, <1>6, ProceedPlaces, FS_EmptySet
<1>7. CASE Open(b) # {}
  BY <1>3, <1>4, <1>5, <1>7, ProceedPlaces
<1> QED
  BY <1>6, <1>7

(* A step of r settles every task if the record and the open places of     *)
(* each are kept, or settled anew.                                         *)
LEMMA SettleStep ==
  ASSUME BackfillInv, SettleInv, NEW r \in Runners, NEW b,
         attempt' = [attempt EXCEPT ![r] = b],
         IF b.pc = "idle" THEN b.task = None ELSE b.retry \/ tasks'[b.task] \in Task,
         tasks' \in [Tasks -> Task \cup {None}],
         \A u \in Tasks : tasks[u] \in Task => tasks'[u] \in Task,
         \A u \in Tasks : tasks'[u] \in Task =>
           \/ tasks'[u] = tasks[u] /\ OpenOf(u)' = OpenOf(u)
           \/ Settled(u)'
  PROVE  SettleInv'
<1>1. attempt \in [Runners -> Attempt] /\ \A q \in Runners : AttemptOK(attempt[q])
  BY DEF BackfillInv, BackfillTypeOK
<1>2. attempt'[r] = b /\ \A q \in Runners : q # r => attempt'[q] = attempt[q]
  BY <1>1
<1>3. ASSUME NEW q \in Runners
      PROVE  IF attempt'[q].pc = "idle" THEN attempt'[q].task = None
             ELSE attempt'[q].retry \/ tasks'[attempt'[q].task] \in Task
  <2>1. attempt[q].pc # "idle" => attempt[q].task \in Tasks
    BY <1>1 DEF AttemptOK
  <2> QED
    BY <1>2, <2>1 DEF SettleInv
<1>4. ASSUME NEW u \in Tasks, tasks'[u] \in Task PROVE Settled(u)'
  <2>1. CASE tasks'[u] = tasks[u] /\ OpenOf(u)' = OpenOf(u)
    <3>1. Settled(u)
      BY <1>4, <2>1 DEF SettleInv
    <3> QED
      BY <2>1, <3>1 DEF Settled
  <2> QED
    BY <1>4, <2>1
<1> QED
  BY <1>3, <1>4 DEF SettleInv

(* The open places of a task depend on the request that counts for it.     *)
LEMMA OpenOfKept ==
  ASSUME BackfillTypeOK, SettleInv, NEW r \in Runners, NEW b,
         attempt' = [attempt EXCEPT ![r] = b],
         NEW u \in Tasks, tasks[u] \in Task, tasks'[u] = tasks[u],
         tasks[u].runner = r =>
           \/ (attempt[r].task # u \/ attempt[r].retry) /\ (b.task # u \/ b.retry)
           \/ /\ b.left = attempt[r].left /\ b.task = attempt[r].task
              /\ b.retry = attempt[r].retry
  PROVE  OpenOf(u)' = OpenOf(u)
<1>1. tasks[u].runner \in Runners
  BY DEF Task
<1>2. attempt'[r] = b /\ \A q \in Runners : q # r => attempt'[q] = attempt[q]
  BY DEF BackfillTypeOK
<1>3. CASE tasks[u].runner # r
  BY <1>1, <1>2, <1>3 DEF OpenOf, StillRunning, RunOf, Open
<1>4. CASE tasks[u].runner = r
  <2>1. RunOf(u) = attempt[r] /\ RunOf(u)' = b
    BY <1>2, <1>4 DEF RunOf
  <2>2. CASE (attempt[r].task # u \/ attempt[r].retry) /\ (b.task # u \/ b.retry)
    BY <2>1, <2>2 DEF OpenOf, StillRunning
  <2>3. CASE /\ b.left = attempt[r].left /\ b.task = attempt[r].task
             /\ b.retry = attempt[r].retry
    BY <2>1, <2>3 DEF OpenOf, StillRunning, Open
  <2> QED
    BY <1>4, <2>2, <2>3
<1> QED
  BY <1>3, <1>4

LEMMA NoAttemptEnds == NoAttempt.pc = "idle" /\ NoAttempt.task = None /\ None \notin Tasks
BY BackfillAssumption DEF NoAttempt

LEMMA SettleInit == BackfillInit => SettleInv
<1> SUFFICES ASSUME BackfillInit PROVE SettleInv
  OBVIOUS
<1>1. /\ \A t \in Tasks : tasks[t] \notin Task
      /\ \A r \in Runners : attempt[r] = NoAttempt
      /\ tasks \in [Tasks -> Task \cup {None}]
  BY BackfillAssumption DEF BackfillInit
<1> QED
  BY <1>1, NoAttemptEnds DEF SettleInv

LEMMA StartRunSettles ==
  ASSUME BackfillInv, SettleInv, NEW r \in Runners, NEW t \in Tasks, StartRun(r, t)
  PROVE  SettleInv'
<1>1. PICK rows \in Inputs :
        /\ StartAttempt(r, t, FALSE, rows)
        /\ tasks' = [tasks EXCEPT ![t] = [state |-> "running", total |-> Len(rows),
                                          processed |-> 0, runner |-> r]]
  BY DEF StartRun
<1> DEFINE new == [state |-> "running", total |-> Len(rows), processed |-> 0, runner |-> r]
<1>2. PICK v \in BackfillRefs \cap VersionIDs :
        attempt' = [attempt EXCEPT ![r] = Proceed(
          [NoAttempt EXCEPT !.retry = FALSE, !.task = t, !.ver = v, !.rows = rows,
                            !.left = BuildPlan(rows), !.sig = Signature(rows),
                            !.result = [k \in Keys |-> ResultFor(rows, k)]])]
  BY <1>1 DEF StartAttempt
<1> DEFINE a == [NoAttempt EXCEPT !.retry = FALSE, !.task = t, !.ver = v, !.rows = rows,
                                  !.left = BuildPlan(rows), !.sig = Signature(rows),
                                  !.result = [k \in Keys |-> ResultFor(rows, k)]]
           b == Proceed(a)
<1>3. rows \in RowSeqs /\ Len(rows) \in Nat
  <2>1. rows \in RowSeqs
    BY BackfillAssumption
  <2> QED
    BY <2>1 DEF RowSeqs
<1>4. BuildPlan(rows) \in [Keys -> Nat]
  BY <1>3, OccurrencesType DEF BuildPlan
<1>5. a \in Attempt /\ a.task = t /\ a.retry = FALSE /\ a.left = BuildPlan(rows)
  <2>1. [k \in Keys |-> ResultFor(rows, k)] \in [Keys -> FieldMap]
    BY <1>3, ResultForType
  <2>2. v \in VersionRefs
    BY BackfillAssumption
  <2> QED
    BY <1>3, <1>4, <2>1, <2>2, NoAttemptType DEF Attempt, Sigs
<1> HIDE DEF a
<1>6. IsFiniteSet(Open(a)) /\ Cardinality(Open(a)) = Len(rows)
  BY <1>3, <1>5, PlanCounted
<1>7. IF Open(a) = {} THEN b = NoAttempt
      ELSE Open(b) = Open(a) /\ b.pc # "idle" /\ b.retry = FALSE /\ b.task = t
  BY <1>5, ProceedPlaces
<1>8. attempt' = [attempt EXCEPT ![r] = b]
  BY <1>2 DEF a
<1> HIDE DEF b
<1>9. attempt'[r] = b /\ BackfillTypeOK
  BY <1>8 DEF BackfillInv, BackfillTypeOK
<1>10. new \in Task /\ new.total = Len(rows) /\ new.processed = 0 /\ new.runner = r
       /\ new.state = "running"
  BY <1>3 DEF Task
<1>11. /\ tasks' \in [Tasks -> Task \cup {None}] /\ tasks'[t] = new
       /\ \A u \in Tasks : u # t => tasks'[u] = tasks[u]
  <2> HIDE DEF new
  <2> QED
    BY <1>1, <1>10 DEF SettleInv, new
<1> HIDE DEF new
<1>12. OpenOf(t)' = Open(a)
  <2>1. OpenOf(t)' = IF b.task = t /\ ~b.retry THEN Open(b) ELSE {}
    BY <1>9, <1>10, <1>11 DEF OpenOf, StillRunning, RunOf, Open
  <2> QED
    BY <1>7, <2>1, NoAttemptEnds
<1>13. Settled(t)'
  <2>1. Open(a) = {} => Len(rows) = 0
    BY <1>6, FS_EmptySet
  <2>2. new.state # "done"
    BY <1>10
  <2> QED
    BY <1>3, <1>6, <1>10, <1>11, <1>12, <2>1, <2>2 DEF Settled
<1>14. ASSUME NEW u \in Tasks, u # t, tasks[u] \in Task
       PROVE  tasks'[u] = tasks[u] /\ OpenOf(u)' = OpenOf(u)
  <2>1. attempt[r].task = None
    BY <1>1 DEF StartAttempt, SettleInv
  <2>2. attempt[r].task # u /\ b.task # u
    BY <1>7, <1>14, <2>1, NoAttemptEnds
  <2>3. tasks'[u] = tasks[u]
    BY <1>11, <1>14
  <2>4. OpenOf(u)' = OpenOf(u)
    BY <1>8, <1>9, <1>14, <2>2, <2>3, OpenOfKept
  <2> QED
    BY <2>3, <2>4
<1>15. IF b.pc = "idle" THEN b.task = None ELSE b.retry \/ tasks'[b.task] \in Task
  BY <1>7, <1>10, <1>11, NoAttemptEnds
<1> QED
  BY <1>8, <1>10, <1>11, <1>13, <1>14, <1>15, SettleStep

LEMMA StartRetrySettles ==
  ASSUME BackfillInv, SettleInv, TypeOK, NEW r \in Runners, NEW t \in Tasks, StartRetry(r, t)
  PROVE  SettleInv'
<1>1. PICK rows \in Inputs : StartAttempt(r, t, TRUE, rows) /\ UNCHANGED tasks
  BY DEF StartRetry
<1>2. /\ attempt[r].pc = "idle"
      /\ \E b \in Attempt :
           /\ attempt' = [attempt EXCEPT ![r] = b]
           /\ b = NoAttempt \/ (b.pc = "check" /\ b.retry = TRUE)
  <2> DEFINE retry == TRUE
  <2>1. BackfillTypeOK /\ retry \in BOOLEAN /\ StartAttempt(r, t, retry, rows)
    BY <1>1 DEF BackfillInv
  <2>2. retry /\ retry = TRUE
    OBVIOUS
  <2> HIDE DEF retry
  <2>3. /\ attempt[r].pc = "idle"
        /\ \E b \in Attempt :
             /\ attempt' = [attempt EXCEPT ![r] = b]
             /\ AttemptOK(b) /\ ResultsOK(b)
             /\ \/ b = NoAttempt
                \/ /\ b.pc = IF retry THEN "check" ELSE "read"
                   /\ b.retry = retry /\ b.task = t
    BY <2>1, StartAttemptStep
  <2> QED
    BY <2>2, <2>3
<1>3. PICK b \in Attempt : /\ attempt' = [attempt EXCEPT ![r] = b]
                           /\ b = NoAttempt \/ (b.pc = "check" /\ b.retry = TRUE)
  BY <1>2
<1>4. IF b.pc = "idle" THEN b.task = None ELSE b.retry
  BY <1>3, NoAttemptEnds
<1>5. attempt[r].task \notin Tasks /\ (b.task \notin Tasks \/ b.retry)
  BY <1>2, <1>3, NoAttemptEnds DEF SettleInv
<1>6. ASSUME NEW u \in Tasks, tasks[u] \in Task PROVE OpenOf(u)' = OpenOf(u)
  <2>1. (attempt[r].task # u \/ attempt[r].retry) /\ (b.task # u \/ b.retry)
    BY <1>5
  <2>2. BackfillTypeOK /\ tasks'[u] = tasks[u]
    BY <1>1 DEF BackfillInv
  <2> QED
    BY <1>3, <1>6, <2>1, <2>2, OpenOfKept
<1> QED
  BY <1>1, <1>3, <1>4, <1>6, SettleStep DEF SettleInv

LEMMA KeyDoneMoves ==
  ASSUME NEW a \in Attempt, AttemptOK(a), a.pc # "idle"
  PROVE  \/ KeyDone(a) = NoAttempt
         \/ /\ KeyDone(a).pc # "idle"
            /\ KeyDone(a).retry = a.retry /\ KeyDone(a).task = a.task
<1>1. CASE KeyDone(a) = NoAttempt
  BY <1>1
<1>2. CASE KeyDone(a) # NoAttempt
  <2>1. /\ KeyDone(a).pc = (IF a.retry THEN "check" ELSE "read")
        /\ KeyDone(a).retry = a.retry /\ KeyDone(a).task = a.task
    BY <1>2, KeyDoneStep
  <2> QED
    BY <2>1
<1> QED
  BY <1>1, <1>2

(* A step that leaves the tasks alone, of a retry or of a request that     *)
(* keeps its plan.                                                         *)
LEMMA QuietSettles ==
  ASSUME BackfillInv, SettleInv, NEW r \in Runners, attempt[r].pc # "idle", NEW b,
         attempt' = [attempt EXCEPT ![r] = b], UNCHANGED tasks,
         \/ attempt[r].retry /\ (b = NoAttempt \/ (b.pc # "idle" /\ b.retry = TRUE))
         \/ /\ b.pc # "idle" /\ b.left = attempt[r].left /\ b.task = attempt[r].task
            /\ b.retry = attempt[r].retry
  PROVE  SettleInv'
<1>1. IF b.pc = "idle" THEN b.task = None ELSE b.retry \/ tasks'[b.task] \in Task
  BY NoAttemptEnds DEF SettleInv
<1>2. ASSUME NEW u \in Tasks, tasks[u] \in Task PROVE OpenOf(u)' = OpenOf(u)
  <2>1. \/ (attempt[r].task # u \/ attempt[r].retry) /\ (b.task # u \/ b.retry)
        \/ /\ b.left = attempt[r].left /\ b.task = attempt[r].task
           /\ b.retry = attempt[r].retry
    BY NoAttemptEnds
  <2>2. BackfillTypeOK /\ tasks'[u] = tasks[u]
    BY DEF BackfillInv
  <2> QED
    BY <1>2, <2>1, <2>2, OpenOfKept
<1> QED
  BY <1>1, <1>2, SettleStep DEF SettleInv

LEMMA CheckCommittedSettles ==
  ASSUME BackfillInv, SettleInv, NEW r \in Runners, CheckCommitted(r)
  PROVE  SettleInv'
<1> DEFINE a == attempt[r]
           b == IF IsCommitted(a) THEN KeyDone(a) ELSE [a EXCEPT !.pc = "read"]
<1>1. a.pc = "check" /\ attempt' = [attempt EXCEPT ![r] = b] /\ UNCHANGED tasks
  BY DEF CheckCommitted
<1>2. a \in Attempt /\ AttemptOK(a) /\ a.retry
  BY <1>1, Working
<1>3. b = NoAttempt \/ (b.pc # "idle" /\ b.retry = TRUE)
  <2>1. KeyDone(a) = NoAttempt \/ (KeyDone(a).pc # "idle" /\ KeyDone(a).retry = TRUE)
    BY <1>1, <1>2, KeyDoneMoves DEF Attempt
  <2>2. [a EXCEPT !.pc = "read"].pc = "read" /\ [a EXCEPT !.pc = "read"].retry = TRUE
    BY <1>2 DEF Attempt
  <2> QED
    BY <2>1, <2>2
<1> HIDE DEF b
<1> QED
  BY <1>1, <1>2, <1>3, QuietSettles

LEMMA ReadCurrentSettles ==
  ASSUME BackfillInv, SettleInv, NEW r \in Runners, ReadCurrent(r)
  PROVE  SettleInv'
<1> DEFINE a == attempt[r]
           n == NextKey(a)
           b == [a EXCEPT !.pc = "write", !.entry = Live(n),
                          !.result[n] = IF Live(n) = None THEN @
                                        ELSE [f \in Fields |-> Added(Live(n).fields[f], @[f])]]
<1>1. a.pc = "read" /\ attempt' = [attempt EXCEPT ![r] = b] /\ UNCHANGED tasks
  BY DEF ReadCurrent
<1>2. b.pc = "write" /\ b.left = a.left /\ b.task = a.task /\ b.retry = a.retry
  BY <1>1, Working DEF Attempt
<1> HIDE DEF b
<1> QED
  BY <1>1, <1>2, QuietSettles

LEMMA MarkCommittedSettles ==
  ASSUME BackfillInv, SettleInv, NEW r \in Runners, MarkCommitted(r)
  PROVE  SettleInv'
<1> DEFINE a == attempt[r]
           b == KeyDone(a)
<1>1. a.pc = "mark" /\ attempt' = [attempt EXCEPT ![r] = b] /\ UNCHANGED tasks
  BY DEF MarkCommitted
<1>2. a.retry /\ (b = NoAttempt \/ (b.pc # "idle" /\ b.retry = TRUE))
  BY <1>1, Working, KeyDoneMoves DEF Attempt
<1> HIDE DEF b
<1> QED
  BY <1>1, <1>2, QuietSettles

LEMMA ProcessedStep ==
  ASSUME NEW task \in Task, task.state = "running"
  PROVE  /\ Processed(task) \in Task
         /\ Processed(task).total = task.total /\ Processed(task).runner = task.runner
         /\ Processed(task).processed = task.processed + 1
         /\ Processed(task).state = "done" <=> task.processed + 1 >= task.total
<1> DEFINE n == task.processed + 1
           s == IF n >= task.total THEN "done" ELSE task.state
<1>1. task.processed \in Nat /\ task.total \in Nat /\ n \in Nat
  BY DEF Task
<1>2. s \in {"running", "done"} /\ (s = "done" <=> n >= task.total)
  OBVIOUS
<1>3. Processed(task) = [[task EXCEPT !.processed = n] EXCEPT !.state = s]
  BY DEF Processed, Task
<1> HIDE DEF n, s
<1>4. /\ Processed(task) \in Task /\ Processed(task).state = s
      /\ Processed(task).total = task.total /\ Processed(task).runner = task.runner
      /\ Processed(task).processed = n
  BY <1>1, <1>2, <1>3 DEF Task
<1> QED
  BY <1>2, <1>4 DEF n

(* A Run counts a row for each place it works off, on the record of its    *)
(* task as long as that is its own.                                        *)
LEMMA ResultDoneSettles ==
  ASSUME BackfillInv, SettleInv, NEW r \in Runners, attempt[r].pc \in {"write", "insert"},
         NEW written \in BOOLEAN, ResultDone(r, written)
  PROVE  SettleInv'
<1> DEFINE a == attempt[r]
           b == IF a.retry /\ written THEN [a EXCEPT !.pc = "mark", !.home = None]
                ELSE KeyDone(a)
<1>1. a.pc # "idle" /\ attempt' = [attempt EXCEPT ![r] = b]
  BY DEF ResultDone, Records
<1>0. a \in Attempt /\ AttemptOK(a) /\ a.task \in Tasks /\ BackfillTypeOK
  BY <1>1, Working DEF BackfillInv
<1> PICK t \in Tasks : t = a.task
  BY <1>0
<1> DEFINE old == tasks[t]
           new == Processed(old)
<1>2. /\ a \in Attempt /\ AttemptOK(a) /\ t = a.task /\ BackfillTypeOK
      /\ tasks' = IF ~a.retry /\ old.runner = r THEN [tasks EXCEPT ![t] = new] ELSE tasks
  BY <1>0 DEF ResultDone, CountsFor
<1>3. CASE a.retry
  <2>1. KeyDone(a) = NoAttempt \/ (KeyDone(a).pc # "idle" /\ KeyDone(a).retry = TRUE)
    BY <1>1, <1>2, <1>3, KeyDoneMoves DEF Attempt
  <2>2. /\ [a EXCEPT !.pc = "mark", !.home = None].pc = "mark"
        /\ [a EXCEPT !.pc = "mark", !.home = None].retry = TRUE
    BY <1>2, <1>3 DEF Attempt
  <2>3. b = NoAttempt \/ (b.pc # "idle" /\ b.retry = TRUE)
    BY <2>1, <2>2
  <2>4. UNCHANGED tasks
    BY <1>2, <1>3
  <2> HIDE DEF b
  <2> QED
    BY <1>1, <1>3, <2>3, <2>4, QuietSettles
<1>4. CASE ~a.retry
  <2>1. b = KeyDone(a) /\ old \in Task
    BY <1>1, <1>4 DEF SettleInv
  <2> HIDE DEF b
  <2>2. b = NoAttempt \/ (b.pc # "idle" /\ b.retry = a.retry /\ b.task = t)
    BY <1>1, <1>2, <2>1, KeyDoneMoves
  <2>3. ASSUME NEW u \in Tasks, tasks[u] \in Task, tasks'[u] = tasks[u],
               u # t \/ tasks[u].runner # r
        PROVE  OpenOf(u)' = OpenOf(u)
    <3>1. u # t => a.task # u /\ b.task # u
      BY <1>2, <2>2, NoAttemptEnds
    <3> QED
      BY <1>1, <1>2, <2>3, <3>1, OpenOfKept
  <2>4. CASE old.runner # r
    <3>1. UNCHANGED tasks
      BY <1>2, <2>4
    <3>2. IF b.pc = "idle" THEN b.task = None ELSE b.retry \/ tasks'[b.task] \in Task
      BY <2>1, <2>2, <3>1, NoAttemptEnds
    <3>3. ASSUME NEW u \in Tasks, tasks[u] \in Task PROVE OpenOf(u)' = OpenOf(u)
      BY <2>3, <2>4, <3>1, <3>3
    <3> QED
      BY <1>1, <3>1, <3>2, <3>3, SettleStep DEF SettleInv
  <2>5. CASE old.runner = r
    <3>1. /\ OpenOf(t) = Open(a) /\ IsFiniteSet(Open(a))
          /\ old.processed + Cardinality(Open(a)) = old.total
      BY <1>2, <1>4, <2>1, <2>5 DEF SettleInv, Settled, OpenOf, StillRunning, RunOf
    <3>2. /\ Open(a) # {}
          /\ \/ b = NoAttempt /\ Cardinality(Open(a)) = 1
             \/ /\ b.pc # "idle" /\ b.retry = a.retry /\ b.task = t
                /\ Open(b) # {} /\ IsFiniteSet(Open(b)) /\ Cardinality(Open(b)) \in Nat
                /\ Cardinality(Open(a)) = Cardinality(Open(b)) + 1
      BY <1>1, <1>2, <2>1, <3>1, KeyDonePlaces
    <3>3. old.state = "running"
      <4>1. old.state # "done"
        BY <1>2, <2>1, <3>1, <3>2 DEF SettleInv, Settled
      <4> QED
        BY <2>1, <4>1 DEF Task
    <3>4. /\ new \in Task /\ new.total = old.total /\ new.runner = r
          /\ new.processed = old.processed + 1
          /\ new.state = "done" <=> old.processed + 1 >= old.total
      BY <2>1, <2>5, <3>3, ProcessedStep
    <3>5. /\ tasks' \in [Tasks -> Task \cup {None}] /\ tasks'[t] = new
          /\ \A u \in Tasks : u # t => tasks'[u] = tasks[u]
      <4> HIDE DEF new
      <4>1. tasks' = [tasks EXCEPT ![t] = new]
        BY <1>2, <1>4, <2>5
      <4> QED
        BY <1>2, <3>4, <4>1 DEF SettleInv
    <3> HIDE DEF new
    <3>6. attempt'[r] = b
      BY <1>1, <1>2 DEF BackfillTypeOK
    <3>7. OpenOf(t)' = IF b = NoAttempt THEN {} ELSE Open(b)
      <4>1. OpenOf(t)' = IF b.task = t /\ ~b.retry THEN Open(b) ELSE {}
        <5>1. RunOf(t)' = b
          BY <3>4, <3>5, <3>6 DEF RunOf
        <5> QED
          BY <5>1 DEF OpenOf, StillRunning, Open
      <4> QED
        BY <1>2, <1>4, <3>2, <4>1, NoAttemptEnds
    <3>8. Settled(t)'
      <4> DEFINE count == Cardinality(OpenOf(t)')
      <4>1. old.processed \in Nat /\ old.total \in Nat
        BY <2>1 DEF Task
      <4>2. /\ IsFiniteSet(OpenOf(t)') /\ count \in Nat
            /\ Cardinality(Open(a)) = count + 1
            /\ count = 0 <=> OpenOf(t)' = {}
        BY <3>2, <3>7, NoAttemptEnds, FS_EmptySet
      <4> HIDE DEF count
      <4>3. /\ new.processed + count = new.total /\ new.total > 0
            /\ new.state = "done" <=> count = 0
        BY <3>1, <3>4, <4>1, <4>2
      <4>4. Cardinality(OpenOf(t))' = count
        BY DEF count
      <4>5. /\ tasks'[t].processed + count = tasks'[t].total /\ tasks'[t].total > 0
            /\ tasks'[t].state = "done" <=> count = 0
        BY <3>5, <4>3
      <4> QED
        BY <4>2, <4>4, <4>5 DEF Settled
    <3>9. IF b.pc = "idle" THEN b.task = None ELSE b.retry \/ tasks'[b.task] \in Task
      BY <2>2, <3>4, <3>5, NoAttemptEnds
    <3>10. ASSUME NEW u \in Tasks
           PROVE  /\ tasks[u] \in Task => tasks'[u] \in Task
                  /\ tasks'[u] \in Task =>
                       \/ tasks'[u] = tasks[u] /\ OpenOf(u)' = OpenOf(u)
                       \/ Settled(u)'
      <4>1. CASE u = t
        BY <3>4, <3>5, <3>8, <4>1
      <4>2. CASE u # t
        BY <2>3, <3>5, <4>2
      <4> QED
        BY <4>1, <4>2
    <3> QED
      BY <1>1, <3>5, <3>9, <3>10, SettleStep
  <2> QED
    BY <2>4, <2>5
<1> QED
  BY <1>3, <1>4

LEMMA FindNothingSettles ==
  ASSUME BackfillInv, SettleInv, NEW r \in Runners, FindNothing(r)
  PROVE  SettleInv'
<1> DEFINE a == attempt[r]
           b == [a EXCEPT !.pc = "insert", !.home = HomeShard(NextKey(a))]
<1>1. a.pc = "write" /\ a \in Attempt /\ UNCHANGED tasks
  BY Working DEF FindNothing
<1>2. attempt' = [attempt EXCEPT ![r] = b]
  <2>1. b = [[a EXCEPT !.pc = "insert"] EXCEPT !.home = HomeShard(NextKey(a))]
    BY <1>1 DEF Attempt
  <2> QED
    BY <2>1 DEF FindNothing, BackfillInv, BackfillTypeOK
<1>3. b.pc = "insert" /\ b.left = a.left /\ b.task = a.task /\ b.retry = a.retry
  BY <1>1 DEF Attempt
<1> HIDE DEF b
<1> QED
  BY <1>1, <1>2, <1>3, QuietSettles

LEMMA WriteResultSettles ==
  ASSUME BackfillInv, SettleInv, NEW r \in Runners, WriteResult(r)
  PROVE  SettleInv'
<1> DEFINE written == ~IsStale(NextKey(attempt[r]), attempt[r].ver)
<1>1. attempt[r].pc = "write" /\ written \in BOOLEAN /\ ResultDone(r, written)
  BY DEF WriteResult, IsStale
<1> HIDE DEF written
<1> QED
  BY <1>1, ResultDoneSettles

LEMMA BackfillStepSettles ==
  ASSUME BackfillInv, SettleInv, TypeOK, NEW r \in Runners, BackfillStep(r)
  PROVE  SettleInv'
<1>1. CASE InsertResult(r)
  BY <1>1, ResultDoneSettles DEF InsertResult
<1> QED
  BY <1>1, StartRunSettles, StartRetrySettles, CheckCommittedSettles, ReadCurrentSettles,
     FindNothingSettles, WriteResultSettles, MarkCommittedSettles DEF BackfillStep
==============================================================================
