---------------------------- MODULE ImporterProofs ----------------------------
(***************************************************************************)
(* What the steps of an import and of a batch rollback preserve, for any   *)
(* batches, files, keys and values: what a batch wrote and nobody          *)
(* overwrote is in the journal, and the first operation of a key holds the *)
(* entry from before the batch.  The lemmas are about one step of one      *)
(* batch; JobsProofs puts them beside the steps of everybody else.         *)
(***************************************************************************)
EXTENDS Importer, StoreProofs

Op == [key : Keys, before : Entry \cup {None}]

ImportState ==
  [pc : {"idle", "copy", "journal", "merge"}, row : Nat, window : SUBSET Fields,
   before : Entry \cup {None}]

RevertState == [pc : {"idle", "revert"}, ops : Seq(Op), seen : SUBSET Keys]

BatchHistory ==
  [touched : SUBSET Keys, base : [Keys -> Entry \cup {None}], disturbed : SUBSET Keys,
   owns : SUBSET Keys, overlapped : BOOLEAN, cut : BOOLEAN]

ImporterTypeOK ==
  /\ journal \in [Batches -> Seq(Op)]
  /\ import \in [Batches -> ImportState]
  /\ revert \in [Batches -> RevertState]
  /\ history \in [Batches -> BatchHistory]
  /\ \A b \in Batches : Importing(b) => /\ import[b].row \in DOMAIN Files[b]
                                        /\ import[b].window \subseteq FileFields(b)

HasKey(ops, k) == \E i \in DOMAIN ops : ops[i].key = k

(* The first operation for k holds e. *)
FirstBefore(ops, k, e) ==
  \E i \in DOMAIN ops : /\ ops[i].key = k /\ ops[i].before = e
                        /\ \A j \in 1 .. i - 1 : ops[j].key # k

(* What is written was journaled before, and a rollback that no import     *)
(* overlaps meets every key the batch owns.                                *)
JournalOK(b) ==
  /\ Importing(b) /\ Reverting(b) => history[b].overlapped
  /\ ~history[b].cut =>
       /\ \A k \in history[b].owns : HasOp(b, k)
       /\ import[b].pc = "merge" => HasOp(b, Row(b).key)
       /\ Reverting(b) /\ ~history[b].overlapped =>
            \A k \in history[b].owns : HasKey(revert[b].ops, k) /\ k \notin revert[b].seen

(* The first operation for a key holds the entry from before the batch,    *)
(* unless that operation is yet to be journaled; a rollback has restored   *)
(* that entry or has the operation still in front of it.                   *)
RestoreOK(b) ==
  ~history[b].overlapped =>
    /\ \A k \in Keys : HasOp(b, k) => k \in history[b].touched
    /\ import[b].pc = "journal" => Row(b).key \in history[b].touched
    /\ \A k \in history[b].touched \ history[b].disturbed :
         \/ FirstBefore(journal[b], k, history[b].base[k])
         \/ /\ import[b].pc = "journal" /\ Row(b).key = k
            /\ import[b].before = history[b].base[k]
            /\ ~HasOp(b, k)
    /\ Reverting(b) =>
         \A k \in history[b].touched \ history[b].disturbed :
           IF k \in revert[b].seen THEN Live(k) = history[b].base[k]
           ELSE FirstBefore(revert[b].ops, k, history[b].base[k])

BatchOK(b) == JournalOK(b) /\ RestoreOK(b)

ImporterInv == ImporterTypeOK /\ \A b \in Batches : BatchOK(b)

-----------------------------------------------------------------------------
(* Sequences of operations *)

LEMMA OpsFacts ==
  ASSUME NEW ops \in Seq(Op)
  PROVE  /\ DOMAIN ops = 1 .. Len(ops) /\ Len(ops) \in Nat
         /\ \A i \in DOMAIN ops : ops[i] \in Op
BY LenProperties, ElementOfSeq

LEMMA AppendFacts ==
  ASSUME NEW ops \in Seq(Op), NEW op \in Op, NEW k
  PROVE  /\ Append(ops, op) \in Seq(Op)
         /\ HasKey(Append(ops, op), k) <=> HasKey(ops, k) \/ op.key = k
         /\ \A e : FirstBefore(ops, k, e) => FirstBefore(Append(ops, op), k, e)
         /\ ~HasKey(ops, k) /\ op.key = k => FirstBefore(Append(ops, op), k, op.before)
<1> DEFINE s == Append(ops, op)
<1>1. /\ DOMAIN ops = 1 .. Len(ops) /\ Len(ops) \in Nat
      /\ s \in Seq(Op) /\ Len(s) = Len(ops) + 1 /\ DOMAIN s = 1 .. Len(ops) + 1
      /\ \A i \in 1 .. Len(ops) : s[i] = ops[i]
      /\ s[Len(ops) + 1] = op
  BY LenProperties, AppendProperties
<1> HIDE DEF s
<1>2. HasKey(s, k) <=> HasKey(ops, k) \/ op.key = k
  BY <1>1 DEF HasKey
<1>3. ASSUME NEW e, FirstBefore(ops, k, e) PROVE FirstBefore(s, k, e)
  <2>1. PICK i \in 1 .. Len(ops) : /\ ops[i].key = k /\ ops[i].before = e
                                  /\ \A j \in 1 .. i - 1 : ops[j].key # k
    BY <1>1, <1>3 DEF FirstBefore
  <2>2. i \in DOMAIN s /\ s[i] = ops[i] /\ \A j \in 1 .. i - 1 : s[j] = ops[j]
    BY <1>1
  <2> QED
    BY <2>1, <2>2 DEF FirstBefore
<1>4. ASSUME ~HasKey(ops, k), op.key = k PROVE FirstBefore(s, k, op.before)
  <2> DEFINE i == Len(ops) + 1
  <2>1. i \in DOMAIN s /\ s[i] = op /\ \A j \in 1 .. i - 1 : s[j].key # k
    BY <1>1, <1>4 DEF HasKey
  <2> QED
    BY <1>4, <2>1 DEF FirstBefore
<1> QED
  BY <1>1, <1>2, <1>3, <1>4 DEF s

LEMMA TailFacts ==
  ASSUME NEW ops \in Seq(Op), ops # << >>, NEW k
  PROVE  /\ Tail(ops) \in Seq(Op) /\ Head(ops) \in Op
         /\ HasKey(ops, k) => Head(ops).key = k \/ HasKey(Tail(ops), k)
         /\ \A e : FirstBefore(ops, k, e) =>
              IF Head(ops).key = k THEN Head(ops).before = e
              ELSE FirstBefore(Tail(ops), k, e)
<1> DEFINE s == Tail(ops)
<1>1. /\ DOMAIN ops = 1 .. Len(ops) /\ Len(ops) \in Nat /\ Len(ops) >= 1
      /\ s \in Seq(Op) /\ DOMAIN s = 1 .. Len(ops) - 1
      /\ \A i \in 1 .. Len(ops) - 1 : s[i] = ops[i + 1]
      /\ Head(ops) = ops[1] /\ Head(ops) \in Op
  BY LenProperties, HeadTailProperties, EmptySeq, ElementOfSeq
<1> HIDE DEF s
<1>2. ASSUME HasKey(ops, k), ops[1].key # k PROVE HasKey(s, k)
  <2>1. PICK i \in 1 .. Len(ops) : ops[i].key = k
    BY <1>1, <1>2 DEF HasKey
  <2>2. i - 1 \in DOMAIN s /\ s[i - 1] = ops[i]
    BY <1>1, <1>2, <2>1
  <2> QED
    BY <2>1, <2>2 DEF HasKey
<1>3. ASSUME NEW e, FirstBefore(ops, k, e)
      PROVE  IF ops[1].key = k THEN ops[1].before = e ELSE FirstBefore(s, k, e)
  <2>1. PICK i \in 1 .. Len(ops) : /\ ops[i].key = k /\ ops[i].before = e
                                  /\ \A j \in 1 .. i - 1 : ops[j].key # k
    BY <1>1, <1>3 DEF FirstBefore
  <2>2. CASE i = 1
    BY <2>1, <2>2
  <2>3. CASE i # 1
    <3>1. ops[1].key # k
      BY <1>1, <2>1, <2>3
    <3>2. /\ i - 1 \in DOMAIN s /\ s[i - 1] = ops[i]
          /\ \A j \in 1 .. (i - 1) - 1 : s[j] = ops[j + 1] /\ j + 1 \in 1 .. i - 1
      BY <1>1, <2>1, <2>3
    <3> QED
      BY <2>1, <3>1, <3>2 DEF FirstBefore
  <2> QED
    BY <2>2, <2>3
<1> QED
  BY <1>1, <1>2, <1>3 DEF s

-----------------------------------------------------------------------------
(* Rows and history *)

LEMMA RowType ==
  ASSUME ImporterTypeOK, NEW b \in Batches, Importing(b)
  PROVE  /\ Row(b) \in [key : Keys, fields : FieldMap]
         /\ import[b].row \in 1 .. Len(Files[b]) /\ Len(Files[b]) \in Nat
         /\ DOMAIN Files[b] = 1 .. Len(Files[b])
<1>1. /\ Files[b] \in Seq([key : Keys, fields : FieldMap])
      /\ import[b].row \in DOMAIN Files[b]
  BY ImporterAssumption DEF ImporterTypeOK
<1> QED
  BY <1>1, LenProperties, ElementOfSeq DEF Row

LEMMA OpForType ==
  ASSUME ImporterTypeOK, NEW b \in Batches, Importing(b)
  PROVE  /\ OpFor(b) \in Op
         /\ OpFor(b).key = Row(b).key /\ OpFor(b).before = import[b].before
BY RowType DEF OpFor, Op, ImporterTypeOK, ImportState

(* What a write of k by w does to the history of batch b. *)
HistoryAfter(h, g, b, k, w) ==
  /\ g \in BatchHistory
  /\ g.touched = h.touched /\ g.base = h.base
  /\ g.overlapped = h.overlapped /\ g.cut = h.cut
  /\ g.owns = IF b = w THEN h.owns \cup {k} ELSE h.owns \ {k}
  /\ g.disturbed = IF b # w /\ k \in h.touched THEN h.disturbed \cup {k} ELSE h.disturbed

LEMMA WrittenFacts ==
  ASSUME NEW h \in [Batches -> BatchHistory], NEW k \in Keys, NEW w,
         NEW g, g = Written(h, k, w)
  PROVE  /\ g \in [Batches -> BatchHistory]
         /\ \A b \in Batches : HistoryAfter(h[b], g[b], b, k, w)
<1>1. ASSUME NEW b \in Batches PROVE HistoryAfter(h[b], g[b], b, k, w)
  <2> DEFINE r == h[b]
             o == IF b = w THEN r.owns \cup {k} ELSE r.owns \ {k}
             d == IF b # w /\ k \in r.touched THEN r.disturbed \cup {k} ELSE r.disturbed
  <2>1. g[b] = [r EXCEPT !.owns = o, !.disturbed = d]
    BY DEF Written
  <2>2. r \in BatchHistory /\ o \in SUBSET Keys /\ d \in SUBSET Keys
    BY DEF BatchHistory
  <2> HIDE DEF r, o, d
  <2>3. /\ g[b] \in BatchHistory
        /\ g[b].touched = r.touched /\ g[b].base = r.base
        /\ g[b].overlapped = r.overlapped /\ g[b].cut = r.cut
        /\ g[b].owns = o /\ g[b].disturbed = d
    BY <2>1, <2>2 DEF BatchHistory
  <2> QED
    BY <2>3 DEF HistoryAfter, r, o, d
<1>2. g = [b \in Batches |-> g[b]]
  BY DEF Written
<1> QED
  BY <1>1, <1>2 DEF HistoryAfter

(* A batch on which nothing happens but that others write its keys, or     *)
(* re-route them, which is then remembered as a disturbance.               *)
LEMMA BystanderBatch ==
  ASSUME NEW b \in Batches, BatchOK(b),
         journal'[b] = journal[b], import'[b] = import[b], revert'[b] = revert[b],
         history'[b].touched = history[b].touched, history'[b].base = history[b].base,
         history'[b].overlapped = history[b].overlapped, history'[b].cut = history[b].cut,
         history'[b].owns \subseteq history[b].owns,
         history[b].disturbed \subseteq history'[b].disturbed,
         \A k \in history[b].touched \ history'[b].disturbed : Live(k)' = Live(k)
  PROVE  BatchOK(b)'
<1>1. \A k : HasOp(b, k)' <=> HasOp(b, k)
  BY DEF HasOp
<1>2. Row(b)' = Row(b) /\ (Importing(b)' <=> Importing(b)) /\ (Reverting(b)' <=> Reverting(b))
  BY DEF Row, Importing, Reverting
<1>3. JournalOK(b)'
  BY <1>1, <1>2 DEF BatchOK, JournalOK
<1>4. RestoreOK(b)'
  BY <1>1, <1>2 DEF BatchOK, RestoreOK
<1> QED
  BY <1>3, <1>4 DEF BatchOK

(* Everybody but the batches: what they write is remembered.               *)
LEMMA OthersWrite ==
  ASSUME ImporterInv, UNCHANGED <<journal, import, revert>>, NEW k \in Keys,
         history' = Written(history, k, None),
         \A j \in Keys \ {k} : Live(j)' = Live(j)
  PROVE  ImporterInv'
<1>1. None \notin Batches
  BY ImporterAssumption
<1>2. /\ history \in [Batches -> BatchHistory] /\ history' \in [Batches -> BatchHistory]
      /\ \A b \in Batches : HistoryAfter(history[b], history'[b], b, k, None)
  BY WrittenFacts DEF ImporterInv, ImporterTypeOK
<1>3. ImporterTypeOK'
  BY <1>2 DEF ImporterInv, ImporterTypeOK, Importing
<1>4. ASSUME NEW b \in Batches PROVE BatchOK(b)'
  <2> DEFINE h == history[b]
             g == history'[b]
  <2>1. HistoryAfter(h, g, b, k, None) /\ b # None /\ h \in BatchHistory
    BY <1>1, <1>2
  <2> HIDE DEF h, g
  <2>2. /\ g.touched = h.touched /\ g.base = h.base
        /\ g.overlapped = h.overlapped /\ g.cut = h.cut
        /\ g.owns \subseteq h.owns /\ h.disturbed \subseteq g.disturbed
        /\ h.touched \subseteq Keys
    BY <2>1 DEF HistoryAfter, BatchHistory
  <2>3. \A j \in h.touched \ g.disturbed : Live(j)' = Live(j)
    BY <2>1, <2>2 DEF HistoryAfter
  <2> QED
    BY <2>2, <2>3, BystanderBatch DEF ImporterInv, h, g
<1> QED
  BY <1>3, <1>4 DEF ImporterInv

LEMMA OthersQuiet ==
  ASSUME ImporterInv, UNCHANGED <<journal, import, revert, history>>,
         \A j \in Keys : Live(j)' = Live(j)
  PROVE  ImporterInv'
<1>1. ImporterTypeOK'
  BY DEF ImporterInv, ImporterTypeOK, Importing
<1>2. ASSUME NEW b \in Batches PROVE BatchOK(b)'
  <2>1. history[b].touched \subseteq Keys
    BY DEF ImporterInv, ImporterTypeOK, BatchHistory
  <2> QED
    BY <2>1, BystanderBatch DEF ImporterInv
<1> QED
  BY <1>1, <1>2 DEF ImporterInv

LEMMA OthersReroute ==
  ASSUME ImporterInv, UNCHANGED <<journal, import, revert>>, history' = Rerouted(history)
  PROVE  ImporterInv'
<1> DEFINE moved(b) == {k \in history[b].touched : ~Undisturbed(k)}
<1>1. \A b \in Batches :
        /\ history'[b] = [history[b] EXCEPT !.disturbed = @ \cup moved(b)]
        /\ history[b] \in BatchHistory
  BY DEF Rerouted, ImporterInv, ImporterTypeOK
<1>2. \A b \in Batches : \A k \in history[b].touched \ moved(b) : Live(k)' = Live(k)
  BY DEF Undisturbed
<1>3. \A b \in Batches : moved(b) \subseteq history[b].touched
  OBVIOUS
<1> HIDE DEF moved
<1>4. \A b \in Batches :
        LET h == history[b]  g == history'[b] IN
        /\ g \in BatchHistory
        /\ g.touched = h.touched /\ g.base = h.base
        /\ g.overlapped = h.overlapped /\ g.cut = h.cut /\ g.owns = h.owns
        /\ g.disturbed = h.disturbed \cup moved(b)
  <2> TAKE b \in Batches
  <2> DEFINE h == history[b]
             d == moved(b)
  <2>1. h \in BatchHistory /\ d \subseteq h.touched
    BY <1>1, <1>3
  <2>2. history'[b] = [h EXCEPT !.disturbed = @ \cup d]
    BY <1>1
  <2> HIDE DEF h, d
  <2>3. d \subseteq Keys
    BY <2>1 DEF BatchHistory
  <2>4. /\ history'[b] \in BatchHistory
        /\ history'[b].touched = h.touched /\ history'[b].base = h.base
        /\ history'[b].overlapped = h.overlapped /\ history'[b].cut = h.cut
        /\ history'[b].owns = h.owns /\ history'[b].disturbed = h.disturbed \cup d
    BY <2>1, <2>2, <2>3 DEF BatchHistory
  <2> QED
    BY <2>4 DEF h, d
<1>5. history' \in [Batches -> BatchHistory]
  BY <1>4 DEF Rerouted
<1>6. ImporterTypeOK'
  BY <1>5 DEF ImporterInv, ImporterTypeOK, Importing
<1>7. ASSUME NEW b \in Batches PROVE BatchOK(b)'
  BY <1>2, <1>4, BystanderBatch DEF ImporterInv
<1> QED
  BY <1>6, <1>7 DEF ImporterInv

-----------------------------------------------------------------------------
(* Steps of one batch *)

(* The other batches do not notice a step of b that leaves the store alone. *)
LEMMA BatchStep ==
  ASSUME ImporterInv, NEW b \in Batches,
         NEW ops \in Seq(Op), NEW i \in ImportState, NEW v \in RevertState,
         NEW h \in BatchHistory,
         journal' = [journal EXCEPT ![b] = ops], import' = [import EXCEPT ![b] = i],
         revert' = [revert EXCEPT ![b] = v], history' = [history EXCEPT ![b] = h],
         i.pc # "idle" => i.row \in DOMAIN Files[b] /\ i.window \subseteq FileFields(b),
         UNCHANGED storeVars, BatchOK(b)'
  PROVE  ImporterInv'
<1>1. /\ journal \in [Batches -> Seq(Op)] /\ import \in [Batches -> ImportState]
      /\ revert \in [Batches -> RevertState] /\ history \in [Batches -> BatchHistory]
      /\ \A c \in Batches : Importing(c) => /\ import[c].row \in DOMAIN Files[c]
                                            /\ import[c].window \subseteq FileFields(c)
  BY DEF ImporterInv, ImporterTypeOK
<1>2. \A c \in Batches \ {b} : /\ journal'[c] = journal[c] /\ import'[c] = import[c]
                              /\ revert'[c] = revert[c] /\ history'[c] = history[c]
  BY <1>1
<1>3. /\ journal' \in [Batches -> Seq(Op)] /\ import' \in [Batches -> ImportState]
      /\ revert' \in [Batches -> RevertState] /\ history' \in [Batches -> BatchHistory]
      /\ import'[b] = i
  BY <1>1
<1>4. ImporterTypeOK'
  BY <1>1, <1>2, <1>3 DEF ImporterTypeOK, Importing
<1>5. \A k : Live(k)' = Live(k)
  BY DEF storeVars, Live, HomeShard, Route
<1>6. ASSUME NEW c \in Batches, c # b PROVE BatchOK(c)'
  BY <1>2, <1>5, <1>6, BystanderBatch DEF ImporterInv
<1> QED
  BY <1>4, <1>6 DEF ImporterInv

LEMMA Unchanged ==
  ASSUME ImporterTypeOK, NEW b \in Batches
  PROVE  /\ journal = [journal EXCEPT ![b] = journal[b]] /\ journal[b] \in Seq(Op)
         /\ import = [import EXCEPT ![b] = import[b]] /\ import[b] \in ImportState
         /\ revert = [revert EXCEPT ![b] = revert[b]] /\ revert[b] \in RevertState
         /\ history = [history EXCEPT ![b] = history[b]] /\ history[b] \in BatchHistory
         /\ Importing(b) => /\ import[b].row \in DOMAIN Files[b]
                            /\ import[b].window \subseteq FileFields(b)
BY DEF ImporterTypeOK

LEMMA StartImportStep ==
  ASSUME ImporterInv, NEW b \in Batches, StartImport(b)
  PROVE  ImporterInv' /\ UNCHANGED storeVars
<1>1. PICK window : import' = [import EXCEPT ![b] =
                                 [NoImport EXCEPT !.pc = "copy", !.row = 1,
                                                  !.window = window]]
                    /\ window \subseteq FileFields(b)
  BY DEF StartImport, FieldWindow
<1> DEFINE i == [NoImport EXCEPT !.pc = "copy", !.row = 1, !.window = window]
           h == [history[b] EXCEPT !.overlapped = @ \/ Reverting(b)]
<1>2. ImporterTypeOK /\ BatchOK(b)
  BY DEF ImporterInv
<1>3. FileFields(b) \subseteq Fields
  BY DEF FileFields
<1>4. /\ i \in ImportState /\ i.pc = "copy" /\ i.row = 1 /\ i.window = window
  BY <1>1, <1>3 DEF NoImport, ImportState
<1>5. /\ h \in BatchHistory
      /\ h.touched = history[b].touched /\ h.base = history[b].base
      /\ h.disturbed = history[b].disturbed /\ h.owns = history[b].owns
      /\ h.cut = history[b].cut
      /\ h.overlapped <=> (history[b].overlapped \/ Reverting(b))
  BY <1>2, Unchanged DEF BatchHistory, Reverting
<1>6. 1 \in DOMAIN Files[b]
  BY ImporterAssumption, LenProperties, EmptySeq
<1>7. /\ import' = [import EXCEPT ![b] = i] /\ history' = [history EXCEPT ![b] = h]
      /\ journal' = journal /\ revert' = revert /\ UNCHANGED storeVars
      /\ ~Importing(b)
  BY <1>1 DEF StartImport
<1> HIDE DEF i, h
<1>8. /\ import'[b] = i /\ history'[b] = h /\ journal'[b] = journal[b] /\ revert'[b] = revert[b]
  BY <1>2, <1>7 DEF ImporterTypeOK
<1>9. (\A k : HasOp(b, k)' <=> HasOp(b, k)) /\ (Reverting(b)' <=> Reverting(b))
  BY <1>8 DEF HasOp, Reverting
<1>10. JournalOK(b)'
  BY <1>2, <1>4, <1>5, <1>7, <1>8, <1>9 DEF BatchOK, JournalOK, Importing
<1>11. RestoreOK(b)'
  BY <1>2, <1>4, <1>5, <1>7, <1>8, <1>9 DEF BatchOK, RestoreOK, Importing
<1>12. /\ journal' = [journal EXCEPT ![b] = journal[b]] /\ journal[b] \in Seq(Op)
       /\ revert' = [revert EXCEPT ![b] = revert[b]] /\ revert[b] \in RevertState
  BY <1>2, <1>7, Unchanged
<1>13. i.row \in DOMAIN Files[b] /\ i.window \subseteq FileFields(b) /\ BatchOK(b)'
  BY <1>1, <1>4, <1>6, <1>10, <1>11 DEF BatchOK
<1> QED
  BY <1>4, <1>5, <1>7, <1>12, <1>13, BatchStep

LEMMA CopyBeforeStep ==
  ASSUME ImporterInv, StoreTypeOK, NEW b \in Batches, CopyBefore(b)
  PROVE  ImporterInv' /\ UNCHANGED storeVars
<1> DEFINE k == Row(b).key
           old == history[b]
           e == IF k \in old.touched THEN old.base[k] ELSE Live(k)
           i == [import[b] EXCEPT !.pc = "journal", !.before = Live(k)]
           h == [old EXCEPT !.base = [@ EXCEPT ![k] = e], !.touched = @ \cup {k}]
<1>1. ImporterTypeOK /\ BatchOK(b) /\ Importing(b) /\ import[b].pc = "copy"
  BY DEF ImporterInv, CopyBefore, Importing
<1>2. k \in Keys /\ Live(k) \in Entry \cup {None}
  BY <1>1, RowType, LiveType
<1>3. /\ import' = [import EXCEPT ![b] = i]
      /\ journal' = journal /\ revert' = revert /\ UNCHANGED storeVars
  BY <1>1 DEF CopyBefore
<1>4. history' = [history EXCEPT ![b] = h]
  BY <1>1 DEF CopyBefore, ImporterTypeOK, BatchHistory
<1>5. old \in BatchHistory /\ e \in Entry \cup {None}
  BY <1>1, <1>2, Unchanged DEF BatchHistory
<1>6. /\ i \in ImportState /\ i.pc = "journal" /\ i.row = import[b].row
      /\ i.window = import[b].window /\ i.before = Live(k)
  BY <1>1, <1>2, Unchanged DEF ImportState
<1> HIDE DEF i, e, k, old
<1>7. /\ h \in BatchHistory
      /\ h.touched = old.touched \cup {k} /\ h.disturbed = old.disturbed
      /\ h.owns = old.owns /\ h.cut = old.cut /\ h.overlapped = old.overlapped
      /\ h.base[k] = e /\ \A j \in Keys : j # k => h.base[j] = old.base[j]
  BY <1>2, <1>5 DEF BatchHistory
<1> HIDE DEF h
<1>8. /\ import'[b] = i /\ history'[b] = h /\ journal'[b] = journal[b] /\ revert'[b] = revert[b]
  BY <1>1, <1>3, <1>4 DEF ImporterTypeOK
<1>9. /\ \A j : HasOp(b, j)' <=> HasOp(b, j)
      /\ Reverting(b)' <=> Reverting(b)
      /\ Row(b)' = Row(b)
      /\ Importing(b)'
  BY <1>6, <1>8 DEF HasOp, Reverting, Row, Importing
<1>10. JournalOK(b)'
  BY <1>1, <1>6, <1>7, <1>8, <1>9 DEF BatchOK, JournalOK, old
<1>11. RestoreOK(b)'
  <2>1. SUFFICES ASSUME ~history[b].overlapped PROVE RestoreOK(b)'
    BY <1>7, <1>8 DEF RestoreOK, old
  <2>2. ~Reverting(b)
    BY <1>1, <2>1 DEF BatchOK, JournalOK
  <2>3. \A j \in Keys : HasOp(b, j)' => j \in h.touched
    BY <1>1, <1>7, <1>9, <2>1 DEF BatchOK, RestoreOK, old
  <2>4. ASSUME NEW j \in h.touched \ h.disturbed
        PROVE  \/ FirstBefore(journal[b], j, h.base[j])
               \/ k = j /\ i.before = h.base[j] /\ ~HasOp(b, j)
    <3>1. CASE j \in old.touched
      <4>1. j \in Keys /\ h.base[j] = old.base[j]
        BY <1>5, <1>7, <3>1 DEF BatchHistory, e
      <4> QED
        BY <1>1, <1>7, <2>1, <2>4, <3>1, <4>1 DEF BatchOK, RestoreOK, old
    <3>2. CASE j \notin old.touched
      <4>1. j = k /\ h.base[j] = Live(k)
        BY <1>7, <2>4, <3>2 DEF e
      <4> QED
        BY <1>1, <1>2, <1>6, <2>1, <3>2, <4>1 DEF BatchOK, RestoreOK, old
    <3> QED
      BY <3>1, <3>2
  <2> QED
    BY <1>6, <1>7, <1>8, <1>9, <2>2, <2>3, <2>4 DEF RestoreOK, k
<1>12. /\ journal' = [journal EXCEPT ![b] = journal[b]] /\ journal[b] \in Seq(Op)
       /\ revert' = [revert EXCEPT ![b] = revert[b]] /\ revert[b] \in RevertState
  BY <1>1, <1>3, Unchanged
<1>13. i.row \in DOMAIN Files[b] /\ i.window \subseteq FileFields(b) /\ BatchOK(b)'
  BY <1>1, <1>6, <1>10, <1>11, Unchanged DEF BatchOK
<1> QED
  BY <1>3, <1>4, <1>6, <1>7, <1>12, <1>13, BatchStep

LEMMA AppendOpStep ==
  ASSUME ImporterInv, NEW b \in Batches, AppendOp(b)
  PROVE  ImporterInv' /\ UNCHANGED storeVars
<1> DEFINE op == OpFor(b)
           ops == Append(journal[b], op)
           i == [import[b] EXCEPT !.pc = "merge"]
           h == history[b]
<1>1. ImporterTypeOK /\ BatchOK(b) /\ Importing(b) /\ import[b].pc = "journal"
  BY DEF ImporterInv, AppendOp, Importing
<1>2. op \in Op /\ op.key = Row(b).key /\ op.before = import[b].before
  BY <1>1, OpForType
<1>3. /\ import' = [import EXCEPT ![b] = i]
      /\ journal' = [journal EXCEPT ![b] = ops]
      /\ history' = history /\ revert' = revert /\ UNCHANGED storeVars
  BY <1>1 DEF AppendOp
<1>4. /\ i \in ImportState /\ i.pc = "merge" /\ i.row = import[b].row
      /\ i.window = import[b].window
  BY <1>1, Unchanged DEF ImportState
<1> HIDE DEF op
<1>5. /\ ops \in Seq(Op)
      /\ \A k : HasKey(ops, k) <=> HasKey(journal[b], k) \/ op.key = k
      /\ \A k, e : FirstBefore(journal[b], k, e) => FirstBefore(ops, k, e)
      /\ \A k : ~HasKey(journal[b], k) /\ op.key = k => FirstBefore(ops, k, op.before)
  BY <1>1, <1>2, Unchanged, AppendFacts
<1> HIDE DEF i, ops
<1>6. /\ import'[b] = i /\ history'[b] = h /\ journal'[b] = ops /\ revert'[b] = revert[b]
  BY <1>1, <1>3 DEF ImporterTypeOK
<1>7. /\ \A k : HasOp(b, k) <=> HasKey(journal[b], k)
      /\ \A k : HasOp(b, k)' <=> HasKey(ops, k)
  BY <1>6 DEF HasOp, HasKey
<1>8. (Reverting(b)' <=> Reverting(b)) /\ Row(b)' = Row(b) /\ Importing(b)'
  BY <1>4, <1>6 DEF Reverting, Row, Importing
<1>9. JournalOK(b)'
  BY <1>1, <1>2, <1>5, <1>6, <1>7, <1>8 DEF BatchOK, JournalOK
<1>10. RestoreOK(b)'
  <2>1. SUFFICES ASSUME ~h.overlapped PROVE RestoreOK(b)'
    BY <1>6 DEF RestoreOK
  <2>2. ~Reverting(b)
    BY <1>1, <2>1 DEF BatchOK, JournalOK
  <2>3. \A k \in Keys : HasOp(b, k)' => k \in h.touched
    BY <1>1, <1>2, <1>5, <1>7, <2>1 DEF BatchOK, RestoreOK
  <2>4. \A k \in h.touched \ h.disturbed : FirstBefore(ops, k, h.base[k])
    BY <1>1, <1>2, <1>5, <1>7, <2>1 DEF BatchOK, RestoreOK
  <2> QED
    BY <1>4, <1>6, <1>8, <2>2, <2>3, <2>4 DEF RestoreOK
<1>11. /\ history' = [history EXCEPT ![b] = h] /\ h \in BatchHistory
       /\ revert' = [revert EXCEPT ![b] = revert[b]] /\ revert[b] \in RevertState
  BY <1>1, <1>3, Unchanged
<1>12. i.row \in DOMAIN Files[b] /\ i.window \subseteq FileFields(b) /\ BatchOK(b)'
  BY <1>1, <1>4, <1>9, <1>10, Unchanged DEF BatchOK
<1> QED
  BY <1>3, <1>4, <1>5, <1>11, <1>12, BatchStep

LEMMA StartRollbackStep ==
  ASSUME ImporterInv, NEW b \in Batches, StartRollback(b)
  PROVE  ImporterInv' /\ UNCHANGED storeVars
<1> DEFINE v == [pc |-> "revert", ops |-> journal[b], seen |-> {}]
           h == [history[b] EXCEPT !.overlapped = @ \/ Importing(b)]
<1>1. ImporterTypeOK /\ BatchOK(b)
  BY DEF ImporterInv
<1>2. /\ revert' = [revert EXCEPT ![b] = v] /\ history' = [history EXCEPT ![b] = h]
      /\ journal' = journal /\ import' = import /\ UNCHANGED storeVars
      /\ ~Reverting(b)
  BY DEF StartRollback, OpsFor
<1>3. v \in RevertState /\ v.pc = "revert" /\ v.ops = journal[b] /\ v.seen = {}
  BY <1>1, Unchanged DEF RevertState
<1>4. /\ h \in BatchHistory
      /\ h.touched = history[b].touched /\ h.base = history[b].base
      /\ h.disturbed = history[b].disturbed /\ h.owns = history[b].owns
      /\ h.cut = history[b].cut
      /\ h.overlapped <=> (history[b].overlapped \/ Importing(b))
  BY <1>1, Unchanged DEF BatchHistory, Importing
<1> HIDE DEF v, h
<1>5. /\ import'[b] = import[b] /\ history'[b] = h /\ journal'[b] = journal[b]
      /\ revert'[b] = v
  BY <1>1, <1>2 DEF ImporterTypeOK
<1>6. /\ \A k : HasOp(b, k)' <=> HasOp(b, k)
      /\ \A k : HasOp(b, k) <=> HasKey(journal[b], k)
      /\ Row(b)' = Row(b) /\ (Importing(b)' <=> Importing(b))
  BY <1>5 DEF HasOp, HasKey, Row, Importing
<1>7. JournalOK(b)'
  BY <1>1, <1>3, <1>4, <1>5, <1>6 DEF BatchOK, JournalOK
<1>8. RestoreOK(b)'
  BY <1>1, <1>3, <1>4, <1>5, <1>6 DEF BatchOK, RestoreOK, Importing
<1>9. /\ journal' = [journal EXCEPT ![b] = journal[b]] /\ journal[b] \in Seq(Op)
      /\ import' = [import EXCEPT ![b] = import[b]] /\ import[b] \in ImportState
      /\ import[b].pc # "idle" => /\ import[b].row \in DOMAIN Files[b]
                                  /\ import[b].window \subseteq FileFields(b)
      /\ BatchOK(b)'
  BY <1>1, <1>2, <1>7, <1>8, Unchanged DEF Importing, BatchOK
<1> QED
  BY <1>2, <1>3, <1>4, <1>9, BatchStep

LEMMA SkipOpStep ==
  ASSUME ImporterInv, NEW b \in Batches, SkipOp(b)
  PROVE  ImporterInv' /\ UNCHANGED storeVars
<1> DEFINE ops == revert[b].ops
           seen == revert[b].seen
           v == [revert[b] EXCEPT !.ops = Tail(@)]
           h == history[b]
<1>1. ImporterTypeOK /\ BatchOK(b)
  BY DEF ImporterInv
<1>2. /\ revert' = [revert EXCEPT ![b] = v]
      /\ journal' = journal /\ import' = import /\ history' = history
      /\ UNCHANGED storeVars
      /\ revert[b].pc = "revert" /\ ops # << >> /\ Head(ops).key \in seen
  BY <1>1 DEF SkipOp, AlreadyReverted, ImporterTypeOK, RevertState
<1>3. /\ ops \in Seq(Op) /\ Tail(ops) \in Seq(Op)
      /\ \A k : HasKey(ops, k) => Head(ops).key = k \/ HasKey(Tail(ops), k)
      /\ \A k, e : FirstBefore(ops, k, e) =>
           IF Head(ops).key = k THEN Head(ops).before = e ELSE FirstBefore(Tail(ops), k, e)
  <2>1. ops \in Seq(Op)
    BY <1>1, Unchanged DEF RevertState
  <2> QED
    BY <1>2, <2>1, TailFacts
<1>4. v \in RevertState /\ v.pc = "revert" /\ v.ops = Tail(ops) /\ v.seen = seen
  BY <1>1, <1>2, <1>3, Unchanged DEF RevertState
<1> HIDE DEF v
<1>5. /\ import'[b] = import[b] /\ history'[b] = h /\ journal'[b] = journal[b]
      /\ revert'[b] = v
  BY <1>1, <1>2 DEF ImporterTypeOK
<1>6. /\ \A k : HasOp(b, k)' <=> HasOp(b, k)
      /\ Row(b)' = Row(b) /\ (Importing(b)' <=> Importing(b))
      /\ Reverting(b) /\ Reverting(b)'
  BY <1>2, <1>4, <1>5 DEF HasOp, Row, Importing, Reverting
<1>7. JournalOK(b)'
  BY <1>1, <1>2, <1>3, <1>4, <1>5, <1>6 DEF BatchOK, JournalOK
<1>8. RestoreOK(b)'
  <2>1. \A k : Live(k)' = Live(k)
    BY <1>2 DEF storeVars, Live, HomeShard, Route
  <2>2. SUFFICES ASSUME ~h.overlapped PROVE RestoreOK(b)'
    BY <1>5 DEF RestoreOK
  <2>3. \A k \in h.touched \ h.disturbed :
          IF k \in seen THEN Live(k)' = h.base[k] ELSE FirstBefore(Tail(ops), k, h.base[k])
    BY <1>1, <1>2, <1>3, <1>6, <2>1, <2>2 DEF BatchOK, RestoreOK
  <2> QED
    BY <1>1, <1>4, <1>5, <1>6, <2>2, <2>3 DEF BatchOK, RestoreOK
<1>9. /\ journal' = [journal EXCEPT ![b] = journal[b]] /\ journal[b] \in Seq(Op)
      /\ import' = [import EXCEPT ![b] = import[b]] /\ import[b] \in ImportState
      /\ history' = [history EXCEPT ![b] = h] /\ h \in BatchHistory
      /\ import[b].pc # "idle" => /\ import[b].row \in DOMAIN Files[b]
                                  /\ import[b].window \subseteq FileFields(b)
      /\ BatchOK(b)'
  BY <1>1, <1>2, <1>7, <1>8, Unchanged DEF Importing, BatchOK
<1> QED
  BY <1>2, <1>4, <1>9, BatchStep

LEMMA ClearJournalStep ==
  ASSUME ImporterInv, NEW b \in Batches, ClearJournal(b)
  PROVE  ImporterInv' /\ UNCHANGED storeVars
<1> DEFINE h == [NoHistory EXCEPT !.owns = history[b].owns,
                                  !.overlapped = Importing(b),
                                  !.cut = history[b].cut \/ history[b].overlapped]
<1>1. ImporterTypeOK /\ BatchOK(b)
  BY DEF ImporterInv
<1>2. /\ journal' = [journal EXCEPT ![b] = << >>]
      /\ revert' = [revert EXCEPT ![b] = NoRevert]
      /\ history' = [history EXCEPT ![b] = h]
      /\ import' = import /\ UNCHANGED storeVars
      /\ Reverting(b) /\ revert[b].ops = << >>
  BY DEF ClearJournal, Cleared, Reverting
<1>3. << >> \in Seq(Op) /\ \A k : ~HasKey(<< >>, k)
  BY DEF HasKey
<1>4. NoRevert \in RevertState /\ NoRevert.pc = "idle"
  BY <1>3 DEF NoRevert, RevertState
<1>5. /\ h \in BatchHistory
      /\ h.touched = {} /\ h.owns = history[b].owns
      /\ h.cut <=> (history[b].cut \/ history[b].overlapped)
      /\ h.overlapped <=> Importing(b)
  BY <1>1, Unchanged DEF NoHistory, BatchHistory, Importing
<1> HIDE DEF h
<1>6. /\ import'[b] = import[b] /\ history'[b] = h /\ journal'[b] = << >>
      /\ revert'[b] = NoRevert
  BY <1>1, <1>2 DEF ImporterTypeOK
<1>7. /\ \A k : ~HasOp(b, k)'
      /\ (Importing(b)' <=> Importing(b)) /\ ~Reverting(b)'
  BY <1>4, <1>6 DEF HasOp, Importing, Reverting
<1>8. JournalOK(b)'
  <2>1. SUFFICES ASSUME ~h.cut PROVE JournalOK(b)'
    BY <1>6, <1>7 DEF JournalOK
  <2>2. history[b].owns = {} /\ ~Importing(b)
    BY <1>1, <1>2, <1>3, <1>5, <2>1 DEF BatchOK, JournalOK
  <2> QED
    BY <1>5, <1>6, <1>7, <2>2 DEF JournalOK, Importing
<1>9. RestoreOK(b)'
  BY <1>5, <1>6, <1>7 DEF RestoreOK, Importing
<1>10. /\ import' = [import EXCEPT ![b] = import[b]] /\ import[b] \in ImportState
       /\ import[b].pc # "idle" => /\ import[b].row \in DOMAIN Files[b]
                                   /\ import[b].window \subseteq FileFields(b)
       /\ BatchOK(b)'
  BY <1>1, <1>2, <1>8, <1>9, Unchanged DEF Importing, BatchOK
<1> QED
  BY <1>2, <1>3, <1>4, <1>5, <1>10, BatchStep

(* The other batches, when b writes a key: they remember a disturbance.    *)
LEMMA OtherBatches ==
  ASSUME ImporterInv, NEW b \in Batches, NEW k \in Keys, NEW w,
         \A j \in Keys \ {k} : Live(j)' = Live(j),
         NEW c \in Batches, c # w,
         journal'[c] = journal[c], import'[c] = import[c], revert'[c] = revert[c],
         HistoryAfter(history[c], history'[c], c, k, w)
  PROVE  BatchOK(c)'
<1> DEFINE h == history[c]
           g == history'[c]
<1>1. HistoryAfter(h, g, c, k, w) /\ h \in BatchHistory
  BY DEF ImporterInv, ImporterTypeOK
<1> HIDE DEF h, g
<1>2. /\ g.touched = h.touched /\ g.base = h.base
      /\ g.overlapped = h.overlapped /\ g.cut = h.cut
      /\ g.owns \subseteq h.owns /\ h.disturbed \subseteq g.disturbed
      /\ h.touched \subseteq Keys
  BY <1>1 DEF HistoryAfter, BatchHistory
<1>3. \A j \in h.touched \ g.disturbed : Live(j)' = Live(j)
  BY <1>1, <1>2 DEF HistoryAfter
<1> QED
  BY <1>2, <1>3, BystanderBatch DEF ImporterInv, h, g

(* What a merge writes.                                                    *)
MergedRow(b) == Merged(Live(Row(b).key), Row(b).fields, import[b].window, ImportVersion[b])

LEMMA MergeRowStep ==
  ASSUME ImporterInv, StoreTypeOK, TypeOK, NEW b \in Batches, MergeRow(b)
  PROVE  /\ ImporterInv'
         /\ Row(b).key \in Keys /\ MergedRow(b) \in Entry
         /\ PutEntry(Row(b).key, MergedRow(b))
         /\ import[b].window \subseteq FileFields(b)
<1> DEFINE k == Row(b).key
           i == IF import[b].row = Len(Files[b]) THEN NoImport
                ELSE [import[b] EXCEPT !.pc = "copy", !.row = @ + 1, !.before = None]
<1>1. ImporterTypeOK /\ BatchOK(b) /\ Importing(b) /\ import[b].pc = "merge"
  BY DEF ImporterInv, MergeRow, Importing
<1>2. /\ k \in Keys /\ Row(b).fields \in FieldMap /\ Live(k) \in Entry \cup {None}
      /\ import[b].row \in 1 .. Len(Files[b]) /\ Len(Files[b]) \in Nat
      /\ DOMAIN Files[b] = 1 .. Len(Files[b])
  BY <1>1, RowType, LiveType
<1>3. MergedRow(b) \in Entry
  BY <1>2, MergedType, ImporterAssumption DEF MergedRow, TypeOK
<1>4. /\ PutEntry(k, MergedRow(b)) /\ import' = [import EXCEPT ![b] = i]
      /\ history' = Written(history, k, b) /\ journal' = journal /\ revert' = revert
  BY <1>1 DEF MergeRow, MergeWrite, MergedRow, ImporterTypeOK
<1>5. \A j \in Keys \ {k} : Live(j)' = Live(j)
  BY <1>2, <1>3, <1>4, PutEntryStep
<1>6. import[b] \in ImportState /\ import[b].window \subseteq FileFields(b)
  BY <1>1, Unchanged
<1>7. /\ i \in ImportState /\ i.pc \in {"idle", "copy"}
      /\ i.pc # "idle" => /\ i.row \in DOMAIN Files[b]
                          /\ i.window \subseteq FileFields(b)
  <2> DEFINE m == import[b]
             n == [m EXCEPT !.pc = "copy", !.row = @ + 1, !.before = None]
  <2>1. CASE m.row = Len(Files[b])
    BY <2>1 DEF ImportState, NoImport
  <2>2. CASE m.row # Len(Files[b])
    <3>1. m.row + 1 \in DOMAIN Files[b] /\ m.row + 1 \in Nat
      BY <1>2, <2>2
    <3>2. i = n
      BY <2>2
    <3> HIDE DEF m, i
    <3>3. /\ n \in ImportState /\ n.pc = "copy" /\ n.row = m.row + 1
          /\ n.window = m.window
      BY <1>6, <3>1 DEF ImportState, m
    <3> QED
      BY <1>6, <3>1, <3>2, <3>3 DEF m
  <2> QED
    BY <2>1, <2>2
<1>8. /\ history \in [Batches -> BatchHistory] /\ history' \in [Batches -> BatchHistory]
      /\ \A c \in Batches : HistoryAfter(history[c], history'[c], c, k, b)
  BY <1>1, <1>2, <1>4, WrittenFacts DEF ImporterTypeOK
<1> HIDE DEF i, k
<1>9. import'[b] = i /\ \A c \in Batches : c # b => import'[c] = import[c]
  BY <1>1, <1>4 DEF ImporterTypeOK
<1>10. ImporterTypeOK'
  BY <1>1, <1>4, <1>7, <1>8, <1>9 DEF ImporterTypeOK, Importing
<1>11. ASSUME NEW c \in Batches, c # b PROVE BatchOK(c)'
  BY <1>2, <1>4, <1>5, <1>8, <1>9, <1>11, OtherBatches
<1>12. BatchOK(b)'
  <2> DEFINE h == history[b]
             g == history'[b]
  <2>1. /\ g.touched = h.touched /\ g.base = h.base /\ g.disturbed = h.disturbed
        /\ g.overlapped = h.overlapped /\ g.cut = h.cut /\ g.owns = h.owns \cup {k}
    BY <1>8 DEF HistoryAfter
  <2> HIDE DEF h, g
  <2>2. /\ \A j : HasOp(b, j)' <=> HasOp(b, j)
        /\ Reverting(b)' <=> Reverting(b)
        /\ revert'[b] = revert[b] /\ journal'[b] = journal[b]
    BY <1>4 DEF HasOp, Reverting
  <2>3. Reverting(b) => h.overlapped
    BY <1>1 DEF BatchOK, JournalOK, h
  <2>4. JournalOK(b)'
    <3>1. ~h.cut => \A j \in g.owns : HasOp(b, j)
      BY <1>1, <2>1 DEF BatchOK, JournalOK, h, k
    <3> QED
      BY <1>7, <1>9, <2>1, <2>2, <2>3, <3>1 DEF JournalOK, g
  <2>5. RestoreOK(b)'
    <3>1. SUFFICES ASSUME ~h.overlapped PROVE RestoreOK(b)'
      BY <2>1 DEF RestoreOK, g
    <3>2. /\ \A j \in Keys : HasOp(b, j) => j \in h.touched
          /\ \A j \in h.touched \ h.disturbed : FirstBefore(journal[b], j, h.base[j])
      BY <1>1, <3>1 DEF BatchOK, RestoreOK, h
    <3> QED
      BY <1>7, <1>9, <2>1, <2>2, <2>3, <3>1, <3>2 DEF RestoreOK, g
  <2> QED
    BY <2>4, <2>5 DEF BatchOK
<1> QED
  BY <1>2, <1>3, <1>4, <1>6, <1>10, <1>11, <1>12 DEF ImporterInv, k

LEMMA RevertOpStep ==
  ASSUME ImporterInv, StoreTypeOK, NEW b \in Batches, RevertOp(b)
  PROVE  /\ ImporterInv'
         /\ \E k \in Keys, e \in Entry \cup {None} : PutEntry(k, e)
<1> DEFINE ops == revert[b].ops
           seen == revert[b].seen
           h == history[b]
<1>1. ImporterTypeOK /\ BatchOK(b)
  BY DEF ImporterInv
<1>2. /\ ops \in Seq(Op) /\ seen \subseteq Keys /\ revert[b] \in RevertState
      /\ h \in BatchHistory
  BY <1>1, Unchanged DEF RevertState
<1>3. PICK op \in Op : op = Head(ops)
  <2>1. ops # << >>
    BY DEF RevertOp
  <2> QED
    BY <1>2, <2>1, TailFacts
<1> DEFINE k == op.key
           v == [revert[b] EXCEPT !.ops = Tail(@), !.seen = @ \cup {k}]
           g == [h EXCEPT !.owns = @ \ {k}]
<1>4. /\ revert[b].pc = "revert" /\ ops # << >> /\ k \notin seen
      /\ journal' = journal /\ import' = import
      /\ history' = [c \in Batches |-> IF c = b THEN g ELSE Written(history, k, None)[c]]
      /\ revert' = [revert EXCEPT ![b] = v]
  BY <1>1, <1>2, <1>3 DEF RevertOp, AlreadyReverted, ImporterTypeOK, RevertState
<1>5. k \in Keys /\ op.before \in Entry \cup {None} /\ Tail(ops) \in Seq(Op)
  BY <1>2, <1>4, TailFacts DEF Op
<1>6. PutEntry(k, op.before)
  <2>1. IF op.before = None THEN PutEntry(k, None)
        ELSE PutEntry(k, [fields |-> op.before.fields, version |-> op.before.version,
                          at |-> op.before.at])
    BY <1>3 DEF RevertOp, Delete, WriteAt
  <2>2. op.before \in Entry => op.before = [fields |-> op.before.fields,
                                            version |-> op.before.version,
                                            at |-> op.before.at]
    BY DEF Entry
  <2> QED
    BY <1>5, <2>1, <2>2
<1>7. /\ \A j : HasKey(ops, j) => k = j \/ HasKey(Tail(ops), j)
      /\ \A j, e : FirstBefore(ops, j, e) =>
           IF k = j THEN op.before = e ELSE FirstBefore(Tail(ops), j, e)
  BY <1>2, <1>3, <1>4, TailFacts
<1> HIDE DEF k
<1>8. Live(k)' = op.before /\ \A j \in Keys \ {k} : Live(j)' = Live(j)
  BY <1>5, <1>6, PutEntryStep
<1>9. v \in RevertState /\ v.pc = "revert" /\ v.ops = Tail(ops) /\ v.seen = seen \cup {k}
  BY <1>2, <1>4, <1>5 DEF RevertState
<1>10. /\ g \in BatchHistory
       /\ g.touched = h.touched /\ g.base = h.base /\ g.disturbed = h.disturbed
       /\ g.overlapped = h.overlapped /\ g.cut = h.cut /\ g.owns = h.owns \ {k}
  BY <1>2 DEF BatchHistory
<1>11. ASSUME NEW c \in Batches, c # b
       PROVE  history'[c] \in BatchHistory /\ HistoryAfter(history[c], history'[c], c, k, None)
  <2> DEFINE x == Written(history, k, None)
  <2>1. /\ x \in [Batches -> BatchHistory]
        /\ \A d \in Batches : HistoryAfter(history[d], x[d], d, k, None)
    BY <1>1, <1>5, WrittenFacts DEF ImporterTypeOK
  <2>2. history'[c] = x[c]
    BY <1>4, <1>11
  <2> HIDE DEF x
  <2> QED
    BY <2>1, <2>2
<1> HIDE DEF v, g
<1>12. /\ revert'[b] = v /\ \A c \in Batches : c # b => revert'[c] = revert[c]
       /\ import'[b] = import[b] /\ journal'[b] = journal[b] /\ history'[b] = g
  BY <1>1, <1>4, <1>4 DEF ImporterTypeOK
<1>13. history' \in [Batches -> BatchHistory]
  BY <1>4, <1>10, <1>11, <1>12
<1>14. revert' \in [Batches -> RevertState]
  BY <1>1, <1>4, <1>9 DEF ImporterTypeOK
<1>15. ImporterTypeOK'
  BY <1>1, <1>4, <1>13, <1>14 DEF ImporterTypeOK, Importing
<1>16. ASSUME NEW c \in Batches, c # b PROVE BatchOK(c)'
  <2>1. c # None
    BY ImporterAssumption
  <2> QED
    BY <1>4, <1>5, <1>8, <1>11, <1>12, <1>16, <2>1, OtherBatches
<1>17. BatchOK(b)'
  <2>1. /\ \A j : HasOp(b, j)' <=> HasOp(b, j)
        /\ Row(b)' = Row(b) /\ (Importing(b)' <=> Importing(b))
        /\ Reverting(b) /\ Reverting(b)'
    BY <1>4, <1>9, <1>12 DEF HasOp, Row, Importing, Reverting
  <2>2. JournalOK(b)'
    BY <1>1, <1>7, <1>9, <1>10, <1>12, <2>1 DEF BatchOK, JournalOK
  <2>3. RestoreOK(b)'
    <3>1. SUFFICES ASSUME ~h.overlapped PROVE RestoreOK(b)'
      BY <1>10, <1>12 DEF RestoreOK
    <3>2. h.touched \subseteq Keys
      BY <1>2 DEF BatchHistory
    <3>3. \A j \in h.touched \ h.disturbed :
            IF j \in seen \cup {k} THEN Live(j)' = h.base[j]
            ELSE FirstBefore(Tail(ops), j, h.base[j])
      <4> TAKE j \in h.touched \ h.disturbed
      <4>1. IF j \in seen THEN Live(j) = h.base[j] ELSE FirstBefore(ops, j, h.base[j])
        BY <1>1, <2>1, <3>1 DEF BatchOK, RestoreOK
      <4>2. CASE j = k
        BY <1>4, <1>7, <1>8, <4>1, <4>2
      <4>3. CASE j # k
        BY <1>7, <1>8, <3>2, <4>1, <4>3
      <4> QED
        BY <4>2, <4>3
    <3> QED
      BY <1>1, <1>9, <1>10, <1>12, <2>1, <3>1, <3>3 DEF BatchOK, RestoreOK
  <2> QED
    BY <2>2, <2>3 DEF BatchOK
<1> QED
  BY <1>5, <1>6, <1>15, <1>16, <1>17 DEF ImporterInv

-----------------------------------------------------------------------------
(* Initially nothing is journaled, and a step of a batch keeps everything  *)
(* above and writes at most one entry.                                     *)
LEMMA ImporterInitInv == ImporterInit => ImporterInv
<1> SUFFICES ASSUME ImporterInit PROVE ImporterInv
  OBVIOUS
<1>1. NoImport \in ImportState /\ NoImport.pc = "idle"
  BY DEF NoImport, ImportState
<1>2. NoRevert \in RevertState /\ NoRevert.pc = "idle" /\ << >> \in Seq(Op)
  BY DEF NoRevert, RevertState
<1>3. /\ NoHistory \in BatchHistory
      /\ NoHistory.touched = {} /\ NoHistory.owns = {}
  BY DEF NoHistory, BatchHistory
<1>4. \A b \in Batches : /\ journal[b] = << >> /\ import[b] = NoImport
                         /\ revert[b] = NoRevert /\ history[b] = NoHistory
  BY DEF ImporterInit
<1>5. /\ journal \in [Batches -> Seq(Op)] /\ import \in [Batches -> ImportState]
      /\ revert \in [Batches -> RevertState] /\ history \in [Batches -> BatchHistory]
  BY <1>1, <1>2, <1>3 DEF ImporterInit
<1> HIDE DEF NoImport, NoRevert, NoHistory
<1>6. ImporterTypeOK
  BY <1>1, <1>4, <1>5 DEF ImporterTypeOK, Importing
<1>7. ASSUME NEW b \in Batches PROVE BatchOK(b)
  <2>1. \A k : ~HasOp(b, k)
    BY <1>4 DEF HasOp
  <2> QED
    BY <1>1, <1>2, <1>3, <1>4, <2>1 DEF BatchOK, JournalOK, RestoreOK, Importing, Reverting
<1> QED
  BY <1>6, <1>7 DEF ImporterInv

LEMMA ImporterStep ==
  ASSUME ImporterInv, StoreTypeOK, TypeOK, NEW b \in Batches, Import(b) \/ Rollbacks(b)
  PROVE  /\ ImporterInv'
         /\ \/ UNCHANGED storeVars
            \/ \E k \in Keys, e \in Entry \cup {None} : PutEntry(k, e)
<1>1. CASE MergeRow(b)
  <2>1. /\ ImporterInv'
        /\ Row(b).key \in Keys /\ MergedRow(b) \in Entry
        /\ PutEntry(Row(b).key, MergedRow(b))
    BY <1>1, MergeRowStep
  <2> QED
    BY <2>1
<1>2. CASE RevertOp(b)
  BY <1>2, RevertOpStep
<1> QED
  BY <1>1, <1>2, StartImportStep, CopyBeforeStep, AppendOpStep, StartRollbackStep,
     SkipOpStep, ClearJournalStep DEF Import, Rollbacks

(* Only its last critical section ends the work on a row, and only the     *)
(* clearing of the journal ends a rollback.                                *)
LEMMA OnlyOwnMerge ==
  ASSUME ImporterTypeOK, NEW c \in Batches, Import(c) \/ Rollbacks(c),
         NEW b \in Batches, import[b].pc = "merge", import'[b].pc # "merge"
  PROVE  MergeRow(b)
<1>1. \A i : import' = [import EXCEPT ![c] = i] => c = b
  BY DEF ImporterTypeOK
<1>2. \/ UNCHANGED import
      \/ \E i : import' = [import EXCEPT ![c] = i]
  BY DEF Import, Rollbacks, StartImport, CopyBefore, AppendOp, MergeRow,
         StartRollback, SkipOp, RevertOp, ClearJournal, ImporterTypeOK
<1>3. c = b
  BY <1>1, <1>2
<1> QED
  BY <1>3 DEF Import, Rollbacks, StartImport, CopyBefore, AppendOp, Importing,
              StartRollback, SkipOp, RevertOp, ClearJournal

LEMMA OnlyOwnClear ==
  ASSUME ImporterTypeOK, NEW c \in Batches, Import(c) \/ Rollbacks(c),
         NEW b \in Batches, Reverting(b), revert'[b].pc = "idle"
  PROVE  ClearJournal(b)
<1>1. revert[b].pc = "revert" /\ revert'[b] # revert[b]
  BY DEF ImporterTypeOK, RevertState, Reverting
<1>2. ASSUME StartImport(c) \/ CopyBefore(c) \/ AppendOp(c) \/ MergeRow(c) PROVE FALSE
  BY <1>1, <1>2 DEF StartImport, CopyBefore, AppendOp, MergeRow
<1>3. ASSUME StartRollback(c) PROVE FALSE
  <2>1. c # b /\ revert'[b] = revert[b]
    BY <1>1, <1>3 DEF StartRollback, Reverting, ImporterTypeOK
  <2> QED
    BY <1>1, <2>1
<1>4. ASSUME SkipOp(c) PROVE FALSE
  BY <1>1, <1>4 DEF SkipOp, ImporterTypeOK, RevertState
<1>5. ASSUME RevertOp(c) PROVE FALSE
  BY <1>1, <1>5 DEF RevertOp, ImporterTypeOK, RevertState
<1>6. ClearJournal(c)
  BY <1>2, <1>3, <1>4, <1>5 DEF Import, Rollbacks
<1>7. c = b
  BY <1>1, <1>6 DEF ClearJournal, ImporterTypeOK
<1> QED
  BY <1>6, <1>7

(* A merge keeps the fields that the file does not carry.                  *)
LEMMA MergeKeeps ==
  ASSUME ImporterInv, StoreTypeOK, TypeOK, NEW b \in Batches, MergeRow(b),
         NEW k \in Keys, k = Row(b).key, NEW f \in Fields \ FileFields(b)
  PROVE  Live(k)'.fields[f] = IF Live(k) = None THEN NoValue ELSE Live(k).fields[f]
<1> DEFINE e == MergedRow(b)
<1>1. /\ e \in Entry /\ PutEntry(k, e)
      /\ f \notin import[b].window
  BY MergeRowStep
<1>2. e.fields[f] = IF Live(k) = None THEN NoValue ELSE Live(k).fields[f]
  BY <1>1 DEF MergedRow, Merged, NoFields
<1> HIDE DEF e
<1>3. Live(k)' = e
  BY <1>1, PutEntryStep
<1> QED
  BY <1>2, <1>3

(* When a rollback comes to its end, everything is restored.               *)
LEMMA ClearRestores ==
  ASSUME ImporterInv, NEW b \in Batches, ClearJournal(b), ~history[b].overlapped,
         NEW k \in history[b].touched \ history[b].disturbed
  PROVE  Live(k) = history[b].base[k]
<1>1. Reverting(b) /\ revert[b].ops = << >> /\ BatchOK(b)
  BY DEF ClearJournal, Reverting, ImporterInv
<1>2. ~FirstBefore(<< >>, k, history[b].base[k])
  BY DEF FirstBefore
<1> QED
  BY <1>1, <1>2 DEF BatchOK, RestoreOK
==============================================================================
