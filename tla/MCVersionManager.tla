-------------------------- MODULE MCVersionManager --------------------------
(* VersionManager with the two tables the server seeds, one column each.   *)
EXTENDS VersionManager

MCTables == {"user_profile", "item_profile"}

MCSchemas ==
  [t \in MCTables |-> IF t = "user_profile" THEN {{"age"}} ELSE {{"price"}}]
=============================================================================
