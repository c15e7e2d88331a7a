--------------------------- MODULE MCVersionOrder ---------------------------
(***************************************************************************)
(* One stored entry and the write that arrives next, under every pair of   *)
(* version numbers up to MaxID.                                            *)
(***************************************************************************)
EXTENDS VersionOrder

CONSTANT MaxID

VARIABLES stored, incoming

Init == stored = 0 /\ incoming = 0

Arrive == incoming' \in 0 .. MaxID /\ UNCHANGED stored

(* The version test of CompareAndWrite. *)
Accept ==
  /\ ~VersionNewer(stored, incoming)
  /\ stored' = incoming
  /\ UNCHANGED incoming

Reject ==
  /\ VersionNewer(stored, incoming)
  /\ UNCHANGED <<stored, incoming>>

Next == Arrive \/ Accept \/ Reject

Spec == Init /\ [][Next]_<<stored, incoming>>

(* versionRank is documented to make "ordering follow the publish          *)
(* sequence" and CompareAndWrite to reject stale writes: the version under *)
(* which an entry is stored would then never go back.                      *)
StoredNeverGoesBack == [][stored' >= stored]_<<stored, incoming>>
=============================================================================
