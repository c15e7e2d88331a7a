------------------------------ MODULE Importer ------------------------------
(***************************************************************************)
(* Offline imports (internal/ingest) and their write journal: an import    *)
(* copies, journals and merges row by row, a batch rollback restores what  *)
(* the journal remembers.  Every access to the store or the journal is a   *)
(* critical section of its own; nothing spans a row, let alone a batch.    *)
(* Journal.ops is one slice that every caller filters by a batch id, so it *)
(* is kept per batch here.                                                 *)
(*                                                                         *)
(* Segments are left out: they only number the rows, and nothing that the  *)
(* server runs reads the numbers.  No request rolls a batch back; code     *)
(* linked with the server may.  A batch has at most one import and one     *)
(* rollback under way at a time.                                           *)
(***************************************************************************)
EXTENDS Store

CONSTANTS
  Batches,        \* batch ids
  Files,          \* Files[b]: the rows of the batch, [key, fields] in order
  ImportTable,    \* ImportTable[b]: the table the batch is for
  ImportVersion,  \* ImportVersion[b]: the version id it is written under
  MaxOps          \* bound: journal operations of a batch at a time

ASSUME ImporterAssumption ==
  /\ None \notin Batches
  /\ \A b \in Batches :
       /\ Files[b] \in Seq([key : Keys, fields : FieldMap]) /\ Files[b] # << >>
       /\ ImportTable[b] \in Tables
       /\ ImportVersion[b] \in VersionRefs
  /\ MaxOps \in Nat

VARIABLES
  journal,   \* journal[b]: the operations of b in Journal.ops, in order
  batches,   \* the keys of Importer.batches
  import,    \* import[b]: the locals of the Import call for b
  revert,    \* revert[b]: the locals of the RollbackBatch call for b
  history    \* history[b]: what really happened to the keys of b (see below)

importVars == <<journal, batches, import, revert, history>>

NoImport == [pc |-> "idle", row |-> 0, window |-> {}, before |-> None]
NoRevert == [pc |-> "idle", ops |-> << >>, seen |-> {}]

(* History variables, per batch and since its journal was last cleared.    *)
(* touched: the keys it began to work on; base[k]: the live entry then;    *)
(* disturbed: the touched keys somebody else wrote or an expansion         *)
(* re-routed since; owns: the keys whose last writer is a merge of this    *)
(* batch; overlapped: an import and a rollback of the batch ran at the     *)
(* same time; cut: a rollback cleared the journal of an overlapped batch.  *)
NoHistory == [touched |-> {}, base |-> [k \in Keys |-> None], disturbed |-> {},
              owns |-> {}, overlapped |-> FALSE, cut |-> FALSE]

ImporterInit ==
  /\ journal = [b \in Batches |-> << >>]
  /\ batches = {}
  /\ import = [b \in Batches |-> NoImport]
  /\ revert = [b \in Batches |-> NoRevert]
  /\ history = [b \in Batches |-> NoHistory]

Importing(b) == import[b].pc # "idle"
Reverting(b) == revert[b].pc # "idle"

(* Key k is written by writer w (a batch whose merge it is, or None): for  *)
(* every other batch that touched k this is a disturbance.                 *)
Written(h, k, w) ==
  [b \in Batches |->
     [h[b] EXCEPT
        !.owns = IF b = w THEN @ \cup {k} ELSE @ \ {k},
        !.disturbed = IF b # w /\ k \in h[b].touched THEN @ \cup {k} ELSE @]]

(* What an expansion does to the keys that were touched. *)
Rerouted(h) ==
  [b \in Batches |->
     [h[b] EXCEPT !.disturbed = @ \cup {k \in h[b].touched : ~Undisturbed(k)}]]

-----------------------------------------------------------------------------
(* Import *)

Row(b) == Files[b][import[b].row]

FileFields(b) ==
  {f \in Fields : \E i \in DOMAIN Files[b] : Files[b][i].fields[f] # NoValue}

SchemaWindow(b, schema) == schema

FieldWindow(b, schema) == FileFields(b) \cap schema

StartImport(b) ==
  /\ ~Importing(b)
  /\ Len(journal[b]) + Len(Files[b]) <= MaxOps
  /\ \E schema \in Schemas[ImportTable[b]] :
       import' = [import EXCEPT ![b] =
                    [NoImport EXCEPT !.pc = "copy", !.row = 1,
                                     !.window = FieldWindow(b, schema)]]
  /\ batches' = batches \cup {b}
  /\ history' = [history EXCEPT ![b].overlapped = @ \/ Reverting(b)]
  /\ UNCHANGED <<storeVars, journal, revert>>

CopyBefore(b) ==
  LET k == Row(b).key IN
  /\ import[b].pc = "copy"
  /\ import' = [import EXCEPT ![b].pc = "journal", ![b].before = Live(k)]
  /\ history' = [history EXCEPT
                   ![b].base[k]  = IF k \in history[b].touched THEN @ ELSE Live(k),
                   ![b].touched = @ \cup {k}]
  /\ UNCHANGED <<storeVars, journal, batches, revert>>

OpFor(b) == [key |-> Row(b).key, before |-> import[b].before]

AppendOpOfOldKeys(b) ==
  /\ import[b].pc = "journal"
  /\ journal' = IF import[b].before = None THEN journal
                ELSE [journal EXCEPT ![b] = Append(@, OpFor(b))]
  /\ import' = [import EXCEPT ![b].pc = "merge"]
  /\ UNCHANGED <<storeVars, batches, revert, history>>

AppendOp(b) ==
  /\ import[b].pc = "journal"
  /\ journal' = [journal EXCEPT ![b] = Append(@, OpFor(b))]
  /\ import' = [import EXCEPT ![b].pc = "merge"]
  /\ UNCHANGED <<storeVars, batches, revert, history>>

MergeRow(b) ==
  LET k == Row(b).key IN
  /\ import[b].pc = "merge"
  /\ MergeWrite(k, Row(b).fields, import[b].window, ImportVersion[b])
  /\ import' = [import EXCEPT ![b] =
                  IF import[b].row = Len(Files[b]) THEN NoImport
                  ELSE [import[b] EXCEPT !.pc = "copy", !.row = @ + 1, !.before = None]]
  /\ history' = Written(history, k, b)
  /\ UNCHANGED <<journal, batches, revert>>

-----------------------------------------------------------------------------
(* Rollback of a batch *)

OpsFor(b) == journal[b]

(* Journal.Clear keeps the operations of every other batch, in order. *)
Cleared(b) == [journal EXCEPT ![b] = << >>]

StartRollback(b) ==
  /\ b \in batches
  /\ ~Reverting(b)
  /\ revert' = [revert EXCEPT ![b] = [pc |-> "revert", ops |-> OpsFor(b), seen |-> {}]]
  /\ history' = [history EXCEPT ![b].overlapped = @ \/ Importing(b)]
  /\ UNCHANGED <<storeVars, journal, batches, import>>

NeverReverted(b, k) == FALSE

AlreadyReverted(b, k) == k \in revert[b].seen

SkipOp(b) ==
  /\ revert[b].pc = "revert" /\ revert[b].ops # << >>
  /\ AlreadyReverted(b, Head(revert[b].ops).key)
  /\ revert' = [revert EXCEPT ![b].ops = Tail(@)]
  /\ UNCHANGED <<storeVars, journal, batches, import, history>>

RevertOp(b) ==
  /\ revert[b].pc = "revert" /\ revert[b].ops # << >>
  /\ LET op == Head(revert[b].ops) IN
     /\ ~AlreadyReverted(b, op.key)
     /\ IF op.before = None THEN Delete(op.key)
        ELSE WriteAt(op.key, op.before.fields, op.before.version, op.before.at)
     /\ revert' = [revert EXCEPT ![b].ops = Tail(@), ![b].seen = @ \cup {op.key}]
     /\ history' = [c \in Batches |->
                      IF c = b THEN [history[b] EXCEPT !.owns = @ \ {op.key}]
                      ELSE Written(history, op.key, None)[c]]
  /\ UNCHANGED <<journal, batches, import>>

ClearJournal(b) ==
  /\ revert[b].pc = "revert" /\ revert[b].ops = << >>
  /\ journal' = Cleared(b)
  /\ revert' = [revert EXCEPT ![b] = NoRevert]
  /\ history' = [history EXCEPT ![b] =
                   [NoHistory EXCEPT !.owns = history[b].owns,
                                     !.overlapped = Importing(b),
                                     !.cut = history[b].cut \/ history[b].overlapped]]
  /\ UNCHANGED <<storeVars, batches, import>>

Import(b) == StartImport(b) \/ CopyBefore(b) \/ AppendOp(b) \/ MergeRow(b)

Rollbacks(b) == StartRollback(b) \/ SkipOp(b) \/ RevertOp(b) \/ ClearJournal(b)

-----------------------------------------------------------------------------
(* Properties *)

HasOp(b, k) == \E i \in DOMAIN journal[b] : journal[b][i].key = k

(* What a batch wrote and nobody overwrote can be reverted: the journal    *)
(* has an operation for it.  Other imports, rollbacks of other batches,    *)
(* online writes and expiry may interleave in any way; only a rollback     *)
(* that overlapped an import of the same batch forfeits it.                *)
ImportedIsJournaled ==
  \A b \in Batches : ~history[b].cut =>
    \A k \in history[b].owns : HasOp(b, k)

(* A rollback restores every key its batch touched, "including the segment *)
(* that was still in flight", to the entry before the batch - also when    *)
(* the file has several rows for the key or was imported twice - provided  *)
(* that nobody else wrote the key, no expansion re-routed it and no import *)
(* of the batch overlapped.                                                *)
RollbackRestores ==
  [][\A b \in Batches :
       (Reverting(b) /\ revert'[b].pc = "idle" /\ ~history[b].overlapped) =>
         \A k \in history[b].touched \ history[b].disturbed :
           Live(k) = history[b].base[k]]_<<storeVars, importVars>>

(* A merge never changes a field that the file does not carry: fields      *)
(* written online while the import runs are preserved (MergeWrite).        *)
MergeKeepsOtherFields ==
  [][\A b \in Batches, k \in Keys :
       (import[b].pc = "merge" /\ import'[b].pc # "merge" /\ k = Row(b).key) =>
         \A f \in Fields \ FileFields(b) :
           Live(k)'.fields[f] = (IF Live(k) = None THEN NoValue ELSE Live(k).fields[f])
    ]_<<storeVars, importVars>>

(* RollbackBatch is documented to revert "every journaled write of a       *)
(* batch, including writes from segments that were still in flight": no    *)
(* imported row may then be left without an operation to revert it.        *)
NoWriteForgotten ==
  \A b \in Batches : \A k \in history[b].owns : HasOp(b, k)
=============================================================================
