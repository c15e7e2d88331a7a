---------------------------- MODULE VersionOrder ----------------------------
(***************************************************************************)
(* How CompareAndWrite orders version ids (versionNewer and versionRank of *)
(* internal/store).  The argument is the number n of "<table>-v<n>", 0 for *)
(* the empty id, which has rank 0.                                         *)
(***************************************************************************)
EXTENDS Naturals

(* The digits of the id are read from the last one backwards, each into    *)
(* the lowest place: they come out reversed, the rank of v12 is 21.        *)
RankFrom[n \in Nat] ==
  [rank \in Nat |-> IF n = 0 THEN rank ELSE RankFrom[n \div 10][rank * 10 + (n % 10)]]

VersionRank(n) == RankFrom[n][0]

VersionNewerSwapped(current, incoming) == VersionRank(current) < VersionRank(incoming)

VersionNewer(current, incoming) == VersionRank(current) > VersionRank(incoming)
=============================================================================
