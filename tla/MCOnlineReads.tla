--------------------------- MODULE MCOnlineReads ----------------------------
(***************************************************************************)
(* Instances of OnlineReads small enough for TLC: the two seeded tables    *)
(* with one column each, a key that another shard is responsible for after *)
(* each expansion, and rows with and without a column of the other table.  *)
(***************************************************************************)
EXTENDS OnlineReads, TLC

MCTables == {"user_profile", "item_profile"}

MCFields == {"age", "price"}

MCSeed == [t \in MCTables |-> IF t = "user_profile" THEN {"age"} ELSE {"price"}]

(* user_profile gains a column, item_profile loses its only one.           *)
MCSchemas ==
  [t \in MCTables |-> IF t = "user_profile" THEN {{"age", "price"}}
                                            ELSE {{}}]

(* An empty layout filters nothing, and so shows more than the others.     *)
EmptyLayout == [MCSchemas EXCEPT !["user_profile"] = {}]

(* u1 is routed to shard 0, 1, 2 of 1, 2, 3 shards.                        *)
MCHash == [k \in Keys |-> IF k = "u1" THEN 5 ELSE 2]

UserRow == [f \in Fields |-> IF f = "age" THEN "a" ELSE NoValue]

BothRow == [f \in Fields |-> "b"]

OneRow == {BothRow}

TwoRows == {UserRow, BothRow}

(* Clients that are sent the same requests for the same keys.              *)
ClientSymmetry == Permutations(Clients)

SharedKeys == [c \in Clients |-> Keys]

(* One client reads, updates and expands, the others only expand.          *)
ExpanderKeys == [c \in Clients |-> IF c = "c1" THEN Keys ELSE {}]

OwnKeys == [c \in Clients |-> IF c = "c1" THEN {"u1"} ELSE {"u2"}]
=============================================================================
