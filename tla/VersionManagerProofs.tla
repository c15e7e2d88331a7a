------------------------ MODULE VersionManagerProofs ------------------------
(***************************************************************************)
(* The properties of VersionManager, for any tables, any number of         *)
(* versions and any sequence of creations, publishes and rollbacks.  Two   *)
(* lemmas say what Publish and Rollback do to each version; the inductive  *)
(* invariant IInv is proved from them action by action.                    *)
(***************************************************************************)
EXTENDS VersionManager, SequenceTheorems, TLAPS

-----------------------------------------------------------------------------
(* The steps, version by version *)

LEMMA VersionsDomain ==
  ASSUME TypeOK
  PROVE  /\ Len(versions) \in Nat
         /\ VersionIDs = 1 .. Len(versions)
         /\ \A i \in VersionIDs : versions[i] \in Version
         /\ active \in Nat
         /\ now \in Nat /\ now >= 1
BY LenProperties, ElementOfSeq DEF TypeOK, VersionIDs

(* Transition changes at most the state, and to the asked one only.        *)
LEMMA TransitionFacts ==
  ASSUME NEW v \in Version, NEW to \in VersionState
  PROVE  /\ Transition(v, to) \in Version
         /\ Transition(v, to).table = v.table
         /\ Transition(v, to).parent = v.parent
         /\ Transition(v, to).publishedAt = v.publishedAt
         /\ Transition(v, to).state = IF CanTransition(v.state, to) THEN to ELSE v.state
BY DEF Transition, Version

LEMMA EdgeFacts ==
  ASSUME NEW s
  PROVE  /\ CanTransition(s, "published") <=> s = "draft"
         /\ CanTransition(s, "superseded") <=> s = "published"
         /\ CanTransition(s, "rolled-back") <=> s \in {"published", "superseded"}
BY DEF CanTransition, transitions, Edges

(* A map over the versions keeps their number.                             *)
LEMMA SameLength ==
  ASSUME TypeOK, NEW s, s \in [VersionIDs -> Version]
  PROVE  s \in Seq(Version) /\ Len(s) = Len(versions) /\ DOMAIN s = VersionIDs
<1>1. s \in [1 .. Len(versions) -> Version] /\ Len(versions) \in Nat
  BY VersionsDomain
<1>2. s \in Seq(Version)
  BY <1>1, SeqDef
<1>3. DOMAIN s = 1 .. Len(s) /\ Len(s) \in Nat
  BY <1>2, LenProperties
<1>4. Len(s) = Len(versions)
  BY <1>1, <1>3
<1> QED
  BY <1>2, <1>4, <1>1, VersionsDomain

LEMMA CreateStep ==
  ASSUME TypeOK, NEW t \in Tables, NEW fs \in Schemas[t], Create(t, fs)
  PROVE  /\ versions' \in Seq(Version)
         /\ Len(versions') = Len(versions) + 1
         /\ VersionIDs' = 1 .. Len(versions) + 1
         /\ \A i \in VersionIDs : versions'[i] = versions[i]
         /\ versions'[Len(versions) + 1] = Draft(t, fs)
         /\ Draft(t, fs) \in Version
<1>1. Draft(t, fs) \in Version
  BY SchemasAssumption DEF Draft, Version, VersionState, ParentFor, TypeOK, ZeroTime
<1>2. versions \in Seq(Version) /\ versions' = Append(versions, Draft(t, fs))
  BY DEF TypeOK, Create
<1>3. /\ versions' \in Seq(Version)
      /\ Len(versions') = Len(versions) + 1
      /\ \A i \in 1 .. Len(versions) : versions'[i] = versions[i]
      /\ versions'[Len(versions) + 1] = Draft(t, fs)
  BY <1>1, <1>2, AppendProperties
<1>4. DOMAIN versions' = 1 .. Len(versions')
  BY <1>3, LenProperties
<1> QED
  BY <1>1, <1>3, <1>4, VersionsDomain DEF VersionIDs

LEMMA PublishStep ==
  ASSUME TypeOK, NEW id \in VersionIDs, Publish(id)
  PROVE  /\ versions' \in Seq(Version)
         /\ Len(versions') = Len(versions)
         /\ VersionIDs' = VersionIDs
         /\ versions[id].state = "draft"
         /\ versions'[id].state = "published"
         /\ versions'[id].publishedAt = now
         /\ \A i \in VersionIDs :
              /\ versions'[i].table = versions[i].table
              /\ versions'[i].parent = versions[i].parent
              /\ i # id => versions'[i].publishedAt = versions[i].publishedAt
              /\ i # id => versions'[i].state =
                             IF i = active /\ versions[i].state = "published"
                             THEN "superseded" ELSE versions[i].state
         /\ active' = id
<1> DEFINE next(i) == IF i = id THEN Published(versions[i])
                      ELSE IF i = active THEN Supersede(versions[i])
                      ELSE versions[i]
<1>1. versions' = [i \in VersionIDs |-> next(i)] /\ versions[id].state = "draft"
  BY EdgeFacts DEF Publish
<1>2. \A i \in VersionIDs : versions[i] \in Version
  BY VersionsDomain
<1>3. ASSUME NEW v \in Version, v.state = "draft"
      PROVE  /\ Published(v) \in Version
             /\ Published(v).state = "published"
             /\ Published(v).publishedAt = now
             /\ Published(v).table = v.table
             /\ Published(v).parent = v.parent
  <2>1. Transition(v, "published") = [v EXCEPT !.state = "published"]
    BY <1>3, EdgeFacts DEF Transition
  <2> QED
    BY <2>1, <1>3, VersionsDomain DEF Published, Version, VersionState
<1>4. ASSUME NEW v \in Version
      PROVE  /\ Supersede(v) \in Version
             /\ Supersede(v).state = IF v.state = "published" THEN "superseded" ELSE v.state
             /\ Supersede(v).publishedAt = v.publishedAt
             /\ Supersede(v).table = v.table
             /\ Supersede(v).parent = v.parent
  BY TransitionFacts, EdgeFacts DEF Supersede, VersionState
<1>5. \A i \in VersionIDs : next(i) \in Version
  BY <1>1, <1>2, <1>3, <1>4
<1>6. versions' \in [VersionIDs -> Version]
  BY <1>1, <1>5
<1>7. versions' \in Seq(Version) /\ Len(versions') = Len(versions) /\ VersionIDs' = VersionIDs
  BY <1>6, SameLength DEF VersionIDs
<1>8. \A i \in VersionIDs : versions'[i] = next(i)
  BY <1>1
<1>9. versions'[id].state = "published" /\ versions'[id].publishedAt = now
  BY <1>1, <1>2, <1>3, <1>8
<1>10. ASSUME NEW i \in VersionIDs
       PROVE  /\ versions'[i].table = versions[i].table
              /\ versions'[i].parent = versions[i].parent
              /\ i # id => versions'[i].publishedAt = versions[i].publishedAt
              /\ i # id => versions'[i].state =
                             IF i = active /\ versions[i].state = "published"
                             THEN "superseded" ELSE versions[i].state
  <2>1. CASE i = id
    BY <2>1, <1>1, <1>2, <1>3, <1>8
  <2>2. CASE i # id /\ i = active
    BY <2>2, <1>2, <1>4, <1>8
  <2>3. CASE i # id /\ i # active
    BY <2>3, <1>8
  <2> QED
    BY <2>1, <2>2, <2>3
<1>11. active' = id
  BY DEF Publish, ActiveAfterPublish
<1> QED
  BY <1>1, <1>7, <1>9, <1>10, <1>11

LEMMA RollbackStep ==
  ASSUME TypeOK, LineageOK, NEW id \in VersionIDs, Rollback(id)
  PROVE  /\ versions' \in Seq(Version)
         /\ Len(versions') = Len(versions)
         /\ VersionIDs' = VersionIDs
         /\ versions[id].state \in {"published", "superseded"}
         /\ versions'[id].state = "rolled-back"
         /\ active' = versions[id].parent
         /\ active' \in VersionIDs
         /\ active' < id
         /\ versions[active'].state # "rolled-back"
         /\ versions'[active'].state = IF versions[active'].state = "draft"
                                       THEN "published" ELSE versions[active'].state
         /\ \A i \in VersionIDs :
              /\ versions'[i].table = versions[i].table
              /\ versions'[i].parent = versions[i].parent
              /\ versions'[i].publishedAt = versions[i].publishedAt
              /\ i # id /\ i # active' => versions'[i].state = versions[i].state
<1> DEFINE parent == versions[id].parent
           next(i) == IF i = id THEN Transition(versions[i], "rolled-back")
                      ELSE IF i = parent THEN Transition(versions[i], "published")
                      ELSE versions[i]
<1>1. /\ versions' = [i \in VersionIDs |-> next(i)]
      /\ versions[id].state \in {"published", "superseded"}
      /\ active' = parent
      /\ parent \in VersionIDs
      /\ versions[parent].state # "rolled-back"
  BY DEF Rollback, HasRollbackTarget
<1>2. parent < id
  <2>1. parent \in 0 .. id - 1
    BY DEF LineageOK, IsLastOf
  <2> QED
    BY <2>1, VersionsDomain
<1>3. \A i \in VersionIDs : versions[i] \in Version
  BY VersionsDomain
<1>4. \A i \in VersionIDs :
        /\ next(i) \in Version
        /\ next(i).table = versions[i].table
        /\ next(i).parent = versions[i].parent
        /\ next(i).publishedAt = versions[i].publishedAt
  BY <1>3, TransitionFacts DEF VersionState
<1>5. versions' \in [VersionIDs -> Version]
  BY <1>1, <1>4
<1>6. versions' \in Seq(Version) /\ Len(versions') = Len(versions) /\ VersionIDs' = VersionIDs
  BY <1>5, SameLength DEF VersionIDs
<1>7. \A i \in VersionIDs : versions'[i] = next(i)
  BY <1>1
<1>8. versions'[id].state = "rolled-back"
  BY <1>1, <1>3, <1>7, TransitionFacts, EdgeFacts DEF VersionState
<1>9. versions'[parent].state = IF versions[parent].state = "draft"
                                THEN "published" ELSE versions[parent].state
  <2>1. parent # id
    BY <1>1, <1>2, VersionsDomain
  <2>2. versions'[parent] = Transition(versions[parent], "published")
    BY <2>1, <1>1, <1>7
  <2> QED
    BY <2>2, <1>1, <1>3, TransitionFacts, EdgeFacts DEF VersionState
<1>10. \A i \in VersionIDs : i # id /\ i # parent => versions'[i].state = versions[i].state
  BY <1>7
<1> QED
  BY <1>1, <1>2, <1>4, <1>6, <1>7, <1>8, <1>9, <1>10

-----------------------------------------------------------------------------
(* The inductive invariant *)

(* No draft has a publish time: what makes the time final.                 *)
DraftsUndated ==
  \A i \in VersionIDs : versions[i].state = "draft" => versions[i].publishedAt = ZeroTime

IInv ==
  /\ TypeOK
  /\ LineageOK
  /\ ActiveSelectable
  /\ PublishedIsActive
  /\ ActiveLostOnlyByRollback
  /\ UndatedOnlyByRollback
  /\ DraftsUndated

LEMMA InitIInv == Init => IInv
<1> SUFFICES ASSUME Init PROVE IInv
  OBVIOUS
<1>1. versions = << >> /\ Len(versions) = 0 /\ VersionIDs = {} /\ versions \in Seq(Version)
  BY EmptySeq DEF Init, VersionIDs
<1>2. TypeOK
  BY <1>1, BoundsAssumption DEF Init, TypeOK, Nil
<1>3. LineageOK
  BY <1>1 DEF Init, LineageOK, IsLastOf, Nil
<1> QED
  BY <1>1, <1>2, <1>3
     DEF IInv, Init, ActiveSelectable, PublishedIsActive, NoRollbackYet,
         ActiveLostOnlyByRollback, UndatedOnlyByRollback, DraftsUndated

(* A step that changes no version's table and parent keeps the lineage.    *)
LEMMA LineageKept ==
  ASSUME TypeOK, LineageOK,
         Len(versions') = Len(versions), VersionIDs' = VersionIDs,
         lastByTable' = lastByTable,
         \A i \in VersionIDs : /\ versions'[i].table = versions[i].table
                               /\ versions'[i].parent = versions[i].parent
  PROVE  LineageOK'
<1>1. VersionIDs = 1 .. Len(versions) /\ Len(versions) \in Nat
  BY VersionsDomain
<1>2. ASSUME NEW t, NEW n \in 0 .. Len(versions), NEW p, IsLastOf(t, p, n)
      PROVE  IsLastOf(t, p, n)'
  BY <1>1, <1>2 DEF IsLastOf, Nil
<1>3. ASSUME NEW t \in Tables
      PROVE  IsLastOf(t, lastByTable[t], Len(versions))'
  BY <1>1, <1>2 DEF LineageOK
<1>4. ASSUME NEW i \in VersionIDs
      PROVE  IsLastOf(versions[i].table, versions[i].parent, i - 1)'
  <2>1. IsLastOf(versions[i].table, versions[i].parent, i - 1) /\ i - 1 \in 0 .. Len(versions)
    BY <1>1 DEF LineageOK
  <2> QED
    BY <2>1, <1>2
<1> QED
  BY <1>3, <1>4 DEF LineageOK

LEMMA CreateIInv ==
  ASSUME IInv, NEW t \in Tables, NEW fs \in Schemas[t], Create(t, fs)
  PROVE  IInv'
<1> DEFINE n == Len(versions)
           new == n + 1
<1>1. /\ versions' \in Seq(Version)
      /\ Len(versions') = new
      /\ VersionIDs' = 1 .. new
      /\ VersionIDs = 1 .. n
      /\ n \in Nat
      /\ \A i \in VersionIDs : versions'[i] = versions[i]
      /\ versions'[new] = Draft(t, fs)
  BY CreateStep, VersionsDomain DEF IInv
<1>2. /\ lastByTable \in [Tables -> 0 .. n]
      /\ lastByTable' = [lastByTable EXCEPT ![t] = new]
      /\ active' = active /\ now' = now
      /\ active \in 0 .. n /\ now \in 1 .. MaxTime
  BY DEF IInv, TypeOK, Create, NextID
<1>3. /\ versions'[new].state = "draft"
      /\ versions'[new].table = t
      /\ versions'[new].parent = lastByTable[t]
      /\ versions'[new].publishedAt = ZeroTime
  BY <1>1 DEF Draft, ParentFor
<1>4. TypeOK'
  <2>1. ASSUME NEW i \in VersionIDs'
        PROVE  versions'[i].publishedAt <= now'
    <3>1. CASE i = new
      BY <3>1, <1>2, <1>3 DEF ZeroTime
    <3>2. CASE i \in VersionIDs
      BY <3>2, <1>1, <1>2 DEF IInv, TypeOK
    <3> QED
      BY <3>1, <3>2, <1>1
  <2> QED
    BY <1>1, <1>2, <2>1 DEF TypeOK
<1>5. LineageOK'
  <2>1. ASSUME NEW u, NEW m \in 0 .. n, NEW p, IsLastOf(u, p, m)
        PROVE  IsLastOf(u, p, m)'
    BY <1>1, <2>1 DEF IsLastOf, Nil
  <2>2. ASSUME NEW u \in Tables
        PROVE  IsLastOf(u, lastByTable[u], Len(versions))'
    <3>1. IsLastOf(u, lastByTable[u], n)
      BY DEF IInv, LineageOK
    <3>2. CASE u = t
      <4>1. lastByTable'[u] = Len(versions')
        BY <3>2, <1>1, <1>2
      <4> QED
        BY <3>2, <4>1, <1>1, <1>3 DEF IsLastOf
    <3>3. CASE u # t
      <4>1. lastByTable'[u] = lastByTable[u] /\ lastByTable[u] \in 0 .. n
        BY <3>3, <1>2
      <4>2. lastByTable[u] # Nil => versions'[lastByTable[u]].table = u
        BY <3>1, <4>1, <1>1 DEF IsLastOf, Nil
      <4>3. ASSUME NEW i \in lastByTable[u] + 1 .. new
            PROVE  versions'[i].table # u
        <5>1. CASE i = new
          BY <5>1, <3>3, <1>3
        <5>2. CASE i # new
          <6>1. i \in lastByTable[u] + 1 .. n /\ i \in 1 .. n
            BY <4>1, <5>2, <1>1
          <6> QED
            BY <6>1, <3>1, <1>1 DEF IsLastOf
        <5> QED
          BY <5>1, <5>2
      <4> QED
        BY <4>1, <4>2, <4>3, <1>1 DEF IsLastOf
    <3> QED
      BY <3>2, <3>3
  <2>3. ASSUME NEW i \in VersionIDs'
        PROVE  IsLastOf(versions[i].table, versions[i].parent, i - 1)'
    <3>1. CASE i = new
      <4>1. IsLastOf(t, lastByTable[t], n)
        BY DEF IInv, LineageOK
      <4> QED
        BY <4>1, <3>1, <2>1, <1>1, <1>3
    <3>2. CASE i \in VersionIDs
      <4>1. IsLastOf(versions[i].table, versions[i].parent, i - 1)
        BY <3>2 DEF IInv, LineageOK
      <4>2. versions'[i] = versions[i] /\ i - 1 \in 0 .. n
        BY <3>2, <1>1
      <4> QED
        BY <4>1, <4>2, <2>1
    <3> QED
      BY <3>1, <3>2, <1>1
  <2> QED
    BY <1>1, <2>2, <2>3 DEF LineageOK
<1>6. ASSUME NEW i \in VersionIDs, HasRolledBackChild(i)
      PROVE  HasRolledBackChild(i)'
  BY <1>1, <1>6 DEF HasRolledBackChild
<1>7. ActiveSelectable'
  BY <1>1, <1>2 DEF IInv, ActiveSelectable, Nil
<1>8. PublishedIsActive'
  <2>1. NoRollbackYet' => NoRollbackYet
    BY <1>1 DEF NoRollbackYet
  <2>2. ASSUME NoRollbackYet, NEW i \in VersionIDs'
        PROVE  versions'[i].state = "published" <=> i = active'
    <3>1. CASE i = new
      BY <3>1, <1>1, <1>2, <1>3
    <3>2. CASE i \in VersionIDs
      BY <2>2, <3>2, <1>1, <1>2 DEF IInv, PublishedIsActive
    <3> QED
      BY <3>1, <3>2, <1>1
  <2> QED
    BY <2>1, <2>2 DEF PublishedIsActive
<1>9. ActiveLostOnlyByRollback'
  <2>1. active # Nil => versions'[active] = versions[active] /\ active \in VersionIDs
    BY <1>1, <1>2 DEF Nil
  <2> QED
    BY <2>1, <1>2, <1>6 DEF IInv, ActiveLostOnlyByRollback, ResolveActive, Nil
<1>10. UndatedOnlyByRollback'
  <2>1. ASSUME NEW i \in VersionIDs', versions'[i].state = "published",
               versions'[i].publishedAt = ZeroTime
        PROVE  HasRolledBackChild(i)'
    <3>1. i \in VersionIDs /\ versions'[i] = versions[i]
      BY <2>1, <1>1, <1>3
    <3> QED
      BY <2>1, <3>1, <1>6 DEF IInv, UndatedOnlyByRollback
  <2> QED
    BY <2>1 DEF UndatedOnlyByRollback, ZeroTime
<1>11. DraftsUndated'
  BY <1>1, <1>3 DEF IInv, DraftsUndated, ZeroTime
<1> QED
  BY <1>4, <1>5, <1>7, <1>8, <1>9, <1>10, <1>11 DEF IInv

LEMMA PublishIInv ==
  ASSUME IInv, NEW id \in VersionIDs, Publish(id)
  PROVE  IInv'
<1>1. /\ versions' \in Seq(Version)
      /\ Len(versions') = Len(versions)
      /\ VersionIDs' = VersionIDs
      /\ versions[id].state = "draft"
      /\ versions'[id].state = "published"
      /\ versions'[id].publishedAt = now
      /\ active' = id
  BY PublishStep DEF IInv
<1>2. \A i \in VersionIDs :
        /\ versions'[i].table = versions[i].table
        /\ versions'[i].parent = versions[i].parent
        /\ i # id => versions'[i].publishedAt = versions[i].publishedAt
        /\ i # id => versions'[i].state =
                       IF i = active /\ versions[i].state = "published"
                       THEN "superseded" ELSE versions[i].state
  BY PublishStep DEF IInv
<1>3. lastByTable' = lastByTable /\ now' = now
  BY DEF Publish
<1>4. VersionIDs = 1 .. Len(versions) /\ Len(versions) \in Nat /\ now \in Nat /\ now >= 1
  BY VersionsDomain DEF IInv
<1>5. TypeOK'
  <2>1. \A i \in VersionIDs' : versions'[i].publishedAt <= now'
    BY <1>1, <1>2, <1>3, <1>4 DEF IInv, TypeOK
  <2> QED
    BY <1>1, <1>3, <1>4, <2>1 DEF IInv, TypeOK
<1>6. LineageOK'
  BY <1>1, <1>2, <1>3, LineageKept DEF IInv
<1>7. ASSUME NEW i \in VersionIDs, HasRolledBackChild(i)
      PROVE  HasRolledBackChild(i)'
  BY <1>1, <1>2, <1>7 DEF HasRolledBackChild
<1>8. ActiveSelectable'
  BY <1>1 DEF ActiveSelectable
<1>9. PublishedIsActive'
  <2>1. NoRollbackYet' => NoRollbackYet
    BY <1>1, <1>2 DEF NoRollbackYet
  <2>2. ASSUME NoRollbackYet, NEW i \in VersionIDs, i # id
        PROVE  versions'[i].state # "published"
    BY <2>2, <1>2 DEF IInv, PublishedIsActive
  <2> QED
    BY <2>1, <2>2, <1>1 DEF PublishedIsActive
<1>10. ActiveLostOnlyByRollback'
  BY <1>1 DEF ActiveLostOnlyByRollback, ResolveActive, Nil
<1>11. UndatedOnlyByRollback'
  <2>1. ASSUME NEW i \in VersionIDs, versions'[i].state = "published",
               versions'[i].publishedAt = ZeroTime
        PROVE  HasRolledBackChild(i)'
    <3>1. i # id
      BY <2>1, <1>1, <1>4 DEF ZeroTime
    <3>2. versions[i].state = "published" /\ versions[i].publishedAt = ZeroTime
      BY <2>1, <3>1, <1>2
    <3> QED
      BY <3>2, <1>7 DEF IInv, UndatedOnlyByRollback
  <2> QED
    BY <2>1, <1>1 DEF UndatedOnlyByRollback, ZeroTime
<1>12. DraftsUndated'
  BY <1>1, <1>2 DEF IInv, DraftsUndated, ZeroTime
<1> QED
  BY <1>5, <1>6, <1>8, <1>9, <1>10, <1>11, <1>12 DEF IInv

LEMMA RollbackIInv ==
  ASSUME IInv, NEW id \in VersionIDs, Rollback(id)
  PROVE  IInv'
<1>1. /\ versions' \in Seq(Version)
      /\ Len(versions') = Len(versions)
      /\ VersionIDs' = VersionIDs
      /\ versions[id].state \in {"published", "superseded"}
      /\ versions'[id].state = "rolled-back"
      /\ active' = versions[id].parent
      /\ active' \in VersionIDs
      /\ active' < id
      /\ versions[active'].state # "rolled-back"
      /\ versions'[active'].state = IF versions[active'].state = "draft"
                                    THEN "published" ELSE versions[active'].state
  BY RollbackStep DEF IInv
<1>2. \A i \in VersionIDs :
        /\ versions'[i].table = versions[i].table
        /\ versions'[i].parent = versions[i].parent
        /\ versions'[i].publishedAt = versions[i].publishedAt
        /\ i # id /\ i # active' => versions'[i].state = versions[i].state
  BY RollbackStep DEF IInv
<1>3. lastByTable' = lastByTable /\ now' = now
  BY DEF Rollback
<1>4. /\ VersionIDs = 1 .. Len(versions) /\ Len(versions) \in Nat
      /\ \A i \in VersionIDs : versions[i].state \in VersionState
  BY VersionsDomain DEF IInv, Version
<1>5. TypeOK'
  <2>1. \A i \in VersionIDs' : versions'[i].publishedAt <= now'
    BY <1>1, <1>2, <1>3 DEF IInv, TypeOK
  <2> QED
    BY <1>1, <1>3, <1>4, <2>1 DEF IInv, TypeOK
<1>6. LineageOK'
  BY <1>1, <1>2, <1>3, LineageKept DEF IInv
<1>7. ASSUME NEW i \in VersionIDs, HasRolledBackChild(i)
      PROVE  HasRolledBackChild(i)'
  BY <1>1, <1>2, <1>7 DEF HasRolledBackChild
<1>8. HasRolledBackChild(active)'
  BY <1>1, <1>2 DEF HasRolledBackChild
<1>9. ActiveSelectable'
  BY <1>1, <1>4 DEF ActiveSelectable, VersionState
<1>10. PublishedIsActive'
  BY <1>1 DEF PublishedIsActive, NoRollbackYet
<1>11. ActiveLostOnlyByRollback'
  BY <1>8 DEF ActiveLostOnlyByRollback
<1>12. UndatedOnlyByRollback'
  <2>1. ASSUME NEW i \in VersionIDs, versions'[i].state = "published",
               versions'[i].publishedAt = ZeroTime
        PROVE  HasRolledBackChild(i)'
    <3>1. CASE i = active'
      BY <3>1, <1>8 DEF HasRolledBackChild
    <3>2. CASE i # active'
      <4>1. i # id /\ versions[i].state = "published" /\ versions[i].publishedAt = ZeroTime
        BY <2>1, <3>2, <1>1, <1>2
      <4> QED
        BY <4>1, <1>7 DEF IInv, UndatedOnlyByRollback
    <3> QED
      BY <3>1, <3>2
  <2> QED
    BY <2>1, <1>1 DEF UndatedOnlyByRollback, ZeroTime
<1>13. DraftsUndated'
  <2>1. ASSUME NEW i \in VersionIDs, versions'[i].state = "draft"
        PROVE  versions[i].state = "draft"
    BY <2>1, <1>1, <1>2
  <2> QED
    BY <2>1, <1>1, <1>2 DEF IInv, DraftsUndated, ZeroTime
<1> QED
  BY <1>5, <1>6, <1>9, <1>10, <1>11, <1>12, <1>13 DEF IInv

(* The clock, and steps that change nothing.                               *)
LEMMA QuietIInv ==
  ASSUME IInv, UNCHANGED <<versions, lastByTable, active>>,
         now' = now \/ (now < MaxTime /\ now' = now + 1)
  PROVE  IInv'
<1>1. now \in 1 .. MaxTime /\ MaxTime \in Nat
  BY BoundsAssumption DEF IInv, TypeOK
<1>2. now' \in 1 .. MaxTime /\ now' >= now
  BY <1>1
<1>3. ASSUME NEW i \in VersionIDs
      PROVE  versions[i].publishedAt \in Nat /\ versions[i].publishedAt <= now
  BY VersionsDomain DEF IInv, TypeOK, Version
<1>4. TypeOK'
  <2>1. \A i \in VersionIDs : versions[i].publishedAt <= now'
    BY <1>1, <1>2, <1>3
  <2> QED
    BY <1>2, <2>1 DEF IInv, TypeOK, VersionIDs
<1>5. /\ LineageOK' /\ ActiveSelectable' /\ PublishedIsActive'
      /\ ActiveLostOnlyByRollback' /\ UndatedOnlyByRollback' /\ DraftsUndated'
  BY DEF IInv, LineageOK, IsLastOf, ActiveSelectable, PublishedIsActive, NoRollbackYet,
         ActiveLostOnlyByRollback, ResolveActive, UndatedOnlyByRollback, DraftsUndated,
         HasRolledBackChild, VersionIDs
<1> QED
  BY <1>4, <1>5 DEF IInv

LEMMA NextIInv == IInv /\ [Next]_versionVars => IInv'
<1> SUFFICES ASSUME IInv, [Next]_versionVars PROVE IInv'
  OBVIOUS
<1>1. ASSUME NEW t \in Tables, NEW fs \in Schemas[t], Create(t, fs) PROVE IInv'
  BY <1>1, CreateIInv
<1>2. ASSUME NEW id \in VersionIDs, Publish(id) PROVE IInv'
  BY <1>2, PublishIInv
<1>3. ASSUME NEW id \in VersionIDs, Rollback(id) PROVE IInv'
  BY <1>3, RollbackIInv
<1>4. CASE Tick
  BY <1>4, QuietIInv DEF Tick
<1>5. CASE UNCHANGED versionVars
  BY <1>5, QuietIInv DEF versionVars
<1> QED
  BY <1>1, <1>2, <1>3, <1>4, <1>5 DEF Next

LEMMA InductiveInvariant == Spec => []IInv
BY InitIInv, NextIInv, PTL DEF Spec

-----------------------------------------------------------------------------
(* Theorems *)

(* Types, pointers that refer to created versions, no publish in the       *)
(* future (the maps and pointers of Manager).                              *)
THEOREM TypeCorrect == Spec => []TypeOK
<1>1. IInv => TypeOK
  BY DEF IInv
<1> QED
  BY <1>1, InductiveInvariant, PTL

(* Create records the direct predecessor in the same table as the parent,  *)
(* so Rollback never leaves the table or skips a generation.               *)
THEOREM LineageCorrect == Spec => []LineageOK
<1>1. IInv => LineageOK
  BY DEF IInv
<1> QED
  BY <1>1, InductiveInvariant, PTL

(* Publish and Rollback never leave the active pointer on a draft or on a  *)
(* rolled-back version.                                                    *)
THEOREM ActiveStaysSelectable == Spec => []ActiveSelectable
<1>1. IInv => ActiveSelectable
  BY DEF IInv
<1> QED
  BY <1>1, InductiveInvariant, PTL

(* Before the first Rollback the published versions are exactly the one    *)
(* the active pointer refers to.                                           *)
THEOREM OnePublished == Spec => []PublishedIsActive
<1>1. IInv => PublishedIsActive
  BY DEF IInv
<1> QED
  BY <1>1, InductiveInvariant, PTL

(* ResolveActive finds no version only after a child of the active one was *)
(* rolled back.                                                            *)
THEOREM ActiveLostAfterRollback == Spec => []ActiveLostOnlyByRollback
<1>1. IInv => ActiveLostOnlyByRollback
  BY DEF IInv
<1> QED
  BY <1>1, InductiveInvariant, PTL

(* A published version without a publish time, which SwitchEvents skips,   *)
(* was published by the rollback of a child.                               *)
THEOREM UndatedAfterRollback == Spec => []UndatedOnlyByRollback
<1>1. IInv => UndatedOnlyByRollback
  BY DEF IInv
<1> QED
  BY <1>1, InductiveInvariant, PTL

(* What Rollback rolled back stays rolled back and is never active again.  *)
THEOREM RolledBackStays == Spec => RolledBackForever
<1> DEFINE Stays == \A i \in VersionIDs : versions[i].state = "rolled-back" =>
                      versions'[i].state = "rolled-back" /\ active' # i
<1>1. IInv /\ [Next]_versionVars => [Stays]_versionVars
  <2> SUFFICES ASSUME IInv, [Next]_versionVars,
                      NEW i \in VersionIDs, versions[i].state = "rolled-back"
               PROVE  (versions'[i].state = "rolled-back" /\ active' # i)
                        \/ UNCHANGED versionVars
    OBVIOUS
  <2>1. active # i
    BY VersionsDomain DEF IInv, ActiveSelectable, Nil
  <2>2. ASSUME NEW t \in Tables, NEW fs \in Schemas[t], Create(t, fs)
        PROVE  versions'[i].state = "rolled-back" /\ active' # i
    BY <2>1, <2>2, CreateStep DEF IInv, Create
  <2>3. ASSUME NEW id \in VersionIDs, Publish(id)
        PROVE  versions'[i].state = "rolled-back" /\ active' # i
    BY <2>1, <2>3, PublishStep DEF IInv
  <2>4. ASSUME NEW id \in VersionIDs, Rollback(id)
        PROVE  versions'[i].state = "rolled-back" /\ active' # i
    BY <2>4, RollbackStep DEF IInv
  <2>5. CASE Tick
    BY <2>1, <2>5 DEF Tick
  <2> QED
    BY <2>2, <2>3, <2>4, <2>5 DEF Next
<1> QED
  BY <1>1, InductiveInvariant, PTL DEF Spec, RolledBackForever

(* The publish time Publish records is never changed afterwards.           *)
THEOREM PublishTimeStays == Spec => PublishTimeIsFinal
<1> DEFINE Stays == \A i \in VersionIDs : versions[i].publishedAt # ZeroTime =>
                      versions'[i].publishedAt = versions[i].publishedAt
<1>1. IInv /\ [Next]_versionVars => [Stays]_versionVars
  <2> SUFFICES ASSUME IInv, [Next]_versionVars,
                      NEW i \in VersionIDs, versions[i].publishedAt # ZeroTime
               PROVE  versions'[i].publishedAt = versions[i].publishedAt
                        \/ UNCHANGED versionVars
    OBVIOUS
  <2>1. versions[i].state # "draft"
    BY DEF IInv, DraftsUndated
  <2>2. ASSUME NEW t \in Tables, NEW fs \in Schemas[t], Create(t, fs)
        PROVE  versions'[i].publishedAt = versions[i].publishedAt
    BY <2>2, CreateStep DEF IInv
  <2>3. ASSUME NEW id \in VersionIDs, Publish(id)
        PROVE  versions'[i].publishedAt = versions[i].publishedAt
    BY <2>1, <2>3, PublishStep DEF IInv
  <2>4. ASSUME NEW id \in VersionIDs, Rollback(id)
        PROVE  versions'[i].publishedAt = versions[i].publishedAt
    BY <2>4, RollbackStep DEF IInv
  <2>5. CASE Tick
    BY <2>5 DEF Tick
  <2> QED
    BY <2>2, <2>3, <2>4, <2>5 DEF Next
<1> QED
  BY <1>1, InductiveInvariant, PTL DEF Spec, PublishTimeIsFinal
=============================================================================
