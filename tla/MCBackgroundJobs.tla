-------------------------- MODULE MCBackgroundJobs --------------------------
(***************************************************************************)
(* An instance of BackgroundJobs small enough for TLC, and the mixes of    *)
(* jobs that are looked at together.                                       *)
(***************************************************************************)
EXTENDS BackgroundJobs

CONSTANT one  \* the string "1", which prints like the integer 1

MCTables == {"user_profile", "item_profile"}

MCFields == {"age", "price"}

MCSeed == [t \in MCTables |-> IF t = "user_profile" THEN {"age"} ELSE {"price"}]

(* The column price may have been added to user_profile online; no further *)
(* version of item_profile is created.                                     *)
MCSchemas ==
  [t \in MCTables |-> IF t = "user_profile" THEN {{"age"}, {"age", "price"}} ELSE {}]

(* u1 is routed to shard 1 of two, to shard 2 of three and back to shard 1 *)
(* of four shards, u2 to shard 0 of two and of three and to 2 of four.     *)
MCHash == [k \in Keys |-> IF k = "u1" THEN 5 ELSE 6]

Only(f, v) == [g \in Fields |-> IF g = f THEN v ELSE NoValue]

RowOf(key, fields) == [key |-> key, fields |-> fields]

(* The second row of b1 drops the column that the first one sets.          *)
MCFiles ==
  [b \in Batches |->
     IF b = "b1" THEN << RowOf("u1", Only("age", 2)), RowOf("u1", Only("age", NoValue)) >>
     ELSE << RowOf("u1", Only("age", 3)) >>]

MCTableOf == [b \in Batches |-> "user_profile"]

MCVersionOf == [b \in Batches |-> 1]

BothRow == {[f \in Fields |-> 1]}

(* Nothing; a counter beside a text; two keys out of order, one repeated.  *)
MCInputs ==
  { << >>,
    << RowOf("u1", [Only("age", 2) EXCEPT !["price"] = one]) >>,
    << RowOf("u2", Only("price", 3)), RowOf("u1", Only("age", 3)), RowOf("u1", Only("age", 1)) >> }

MCKeyRank == [k \in Keys |-> IF k = "u1" THEN 1 ELSE 2]

MCText == [v \in Values \cup {NoValue} |->
             CASE v = NoValue -> "" [] v = one -> "1" [] OTHER -> <<"0", "1", "2", "3">>[v + 1]]

(* Every value prints as one character.                                    *)
MCWeight == [f \in Fields |-> [v \in Values |-> IF f = "age" THEN 4 ELSE 6]]

(* Of what is written online, age differs and price only seems to.         *)
MCOffline ==
  [k \in Keys |-> IF k = "u1" THEN [Only("age", 2) EXCEPT !["price"] = one] ELSE NoFields]

AllMixes ==
  { {"b1", "write", "clock"},
    {"b1", "scan", "clock"},
    {"b2", "b3"},
    {"b2", "expand"},
    {"scan", "write", "expand", "clock"},
    {"r1", "r2"},
    {"r1", "write", "write version"},
    {"r1", "expand"},
    {"check", "write", "switch", "clock"},
    {"check", "write", "read", "clock"},
    {"check", "write", "expand"} }

OneImport == { {"b2"} }

OneBackfill == { {"r1"} }
=============================================================================
