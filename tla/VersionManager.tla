--------------------------- MODULE VersionManager ---------------------------
(***************************************************************************)
(* The version lifecycle of the feature store (internal/version): every    *)
(* version of every feature table, the version created last for each table *)
(* and the pointer to the active version that online reads resolve.        *)
(*                                                                         *)
(* Create, Publish and Rollback each hold Manager.mu for their whole       *)
(* effect on these variables, so each is one action.  The cache hooks that *)
(* Publish and Rollback run after the unlock belong to the composition     *)
(* (module OnlineReads).  A call that returns an error changes nothing     *)
(* and is a stuttering step.                                               *)
(*                                                                         *)
(* A version id is "<table>-v<n>" with n = len(m.versions) + 1; versions   *)
(* are never removed, so n identifies the version and stands for the id.   *)
(***************************************************************************)
EXTENDS Naturals, Sequences

CONSTANTS
  Tables,       \* ids of the registered feature tables
  Fields,       \* feature names
  Schemas,      \* Schemas[t]: the field sets table t may be registered with
  MaxVersions,  \* bound: how many versions are ever created
  MaxTime       \* bound: last reading of the clock

ASSUME SchemasAssumption == Schemas \in [Tables -> SUBSET SUBSET Fields]

ASSUME BoundsAssumption == MaxVersions \in Nat /\ MaxTime \in Nat \ {0}

VARIABLES
  versions,     \* m.versions in creation order: position n holds version n
  lastByTable,  \* m.lastByTable: the version created last for each table
  active,       \* m.active: the version the active pointer refers to
  now           \* the clock behind m.now()

versionVars == <<versions, lastByTable, active, now>>

Nil == 0        \* the nil pointer, the empty id and the absent map key
ZeroTime == 0   \* time.Time{}: never published

VersionState == {"draft", "published", "superseded", "rolled-back"}

VersionIDs == DOMAIN versions

-----------------------------------------------------------------------------
(* The state machine of one version *)

Edges == { <<"draft", "published">>, <<"published", "superseded">>,
           <<"published", "rolled-back">>, <<"superseded", "rolled-back">> }

EdgesReviving   == Edges \cup {<<"rolled-back", "published">>}
EdgesRepublish  == Edges \cup {<<"superseded", "published">>}

transitions == Edges

CanTransition(from, to) == <<from, to>> \in transitions

(* Transition returns an error and leaves the record alone when the edge   *)
(* does not exist; Publish and Rollback ignore that error for the version  *)
(* they move away from and for the parent.                                 *)
Transition(v, to) ==
  IF CanTransition(v.state, to) THEN [v EXCEPT !.state = to] ELSE v

-----------------------------------------------------------------------------

Init ==
  /\ versions = << >>
  /\ lastByTable = [t \in Tables |-> Nil]
  /\ active = Nil
  /\ now = 1

NextIDSkipping == Len(versions) + 2

NextID == Len(versions) + 1

ParentOfAnyTable(t) == Len(versions)

ParentFor(t) == lastByTable[t]

(* The draft copies the fields the table has at that moment; registering   *)
(* the table again changes the fields of later versions only.              *)
Draft(t, fields) ==
  [table |-> t, state |-> "draft", parent |-> ParentFor(t), fields |-> fields,
   publishedAt |-> ZeroTime]

Create(t, fields) ==
  /\ Len(versions) < MaxVersions
  /\ versions' = Append(versions, Draft(t, fields))
  /\ lastByTable' = [lastByTable EXCEPT ![t] = NextID]
  /\ UNCHANGED <<active, now>>

PublishedUndated(v) == Transition(v, "published")

Published(v) == [Transition(v, "published") EXCEPT !.publishedAt = now]

SupersedeNothing(v) == v

Supersede(v) == Transition(v, "superseded")

ActiveAfterPublishKept(id) == IF active = Nil THEN id ELSE active

ActiveAfterPublish(id) == id

Publish(id) ==
  /\ CanTransition(versions[id].state, "published")
  /\ versions' = [i \in VersionIDs |->
                    IF i = id THEN Published(versions[i])
                    ELSE IF i = active THEN Supersede(versions[i])
                    ELSE versions[i]]
  /\ active' = ActiveAfterPublish(id)
  /\ UNCHANGED <<lastByTable, now>>

RollbackTargetUnchecked(id) == versions[id].parent \in VersionIDs

HasRollbackTarget(id) ==
  /\ versions[id].parent \in VersionIDs
  /\ versions[versions[id].parent].state # "rolled-back"

Rollback(id) ==
  LET parent == versions[id].parent IN
  /\ versions[id].state \in {"published", "superseded"}
  /\ HasRollbackTarget(id)
  /\ versions' = [i \in VersionIDs |->
                    IF i = id THEN Transition(versions[i], "rolled-back")
                    ELSE IF i = parent THEN Transition(versions[i], "published")
                    ELSE versions[i]]
  /\ active' = parent
  /\ UNCHANGED <<lastByTable, now>>

(* Time passes between calls. *)
Tick ==
  /\ now < MaxTime
  /\ now' = now + 1
  /\ UNCHANGED <<versions, lastByTable, active>>

Next ==
  \/ \E t \in Tables : \E fields \in Schemas[t] : Create(t, fields)
  \/ \E id \in VersionIDs : Publish(id) \/ Rollback(id)
  \/ Tick

Spec == Init /\ [][Next]_versionVars

(* What an online read gets: the active version, unless the active pointer *)
(* refers to a version that is not in state published.                     *)
ResolveActive ==
  IF active # Nil /\ versions[active].state # "published" THEN Nil ELSE active

-----------------------------------------------------------------------------
(* Properties *)

Version == [table : Tables, state : VersionState, parent : Nat,
            fields : SUBSET Fields, publishedAt : Nat]

(* Types: the pointers refer to created versions (or to none) and nothing  *)
(* is published in the future.                                             *)
TypeOK ==
  /\ versions \in Seq(Version)
  /\ lastByTable \in [Tables -> 0 .. Len(versions)]
  /\ active \in 0 .. Len(versions)
  /\ now \in 1 .. MaxTime
  /\ \A i \in VersionIDs : versions[i].publishedAt <= now

(* The version created last for table t among the first n versions.        *)
IsLastOf(t, p, n) ==
  /\ p \in 0 .. n
  /\ p # Nil => versions[p].table = t
  /\ \A i \in p + 1 .. n : versions[i].table # t

(* Lineage: the parent Create records is the direct predecessor of the     *)
(* version in its own table, however the creations for different tables    *)
(* were interleaved, so a Rollback never crosses to another table or skips *)
(* a generation.                                                           *)
LineageOK ==
  /\ \A t \in Tables : IsLastOf(t, lastByTable[t], Len(versions))
  /\ \A i \in VersionIDs : IsLastOf(versions[i].table, versions[i].parent, i - 1)

(* No sequence of publishes and rollbacks, of any version and in any       *)
(* order, leaves the active pointer on a draft or on a rolled-back version. *)
ActiveSelectable ==
  active # Nil => versions[active].state \in {"published", "superseded"}

NoRollbackYet == \A i \in VersionIDs : versions[i].state # "rolled-back"

(* Until the first rollback there is at most one published version, and it *)
(* is the one the active pointer refers to (Publish supersedes the prior   *)
(* active version whatever table it belongs to).                           *)
PublishedIsActive ==
  NoRollbackYet => \A i \in VersionIDs : versions[i].state = "published" <=> i = active

(* The pointer refers to a superseded version - online reads then resolve  *)
(* no version at all - only when one of its children was rolled back.      *)
HasRolledBackChild(i) ==
  \E c \in VersionIDs : versions[c].parent = i /\ versions[c].state = "rolled-back"

ActiveLostOnlyByRollback ==
  (active # Nil /\ ResolveActive = Nil) => HasRolledBackChild(active)

(* SwitchEvents skips published versions that carry no publish time: these *)
(* are exactly drafts that a rollback of a child published.                *)
UndatedOnlyByRollback ==
  \A i \in VersionIDs :
    versions[i].state = "published" /\ versions[i].publishedAt = ZeroTime
      => HasRolledBackChild(i)

(* A rolled-back version stays rolled back and is never made active again. *)
RolledBackForever ==
  [][\A i \in VersionIDs : versions[i].state = "rolled-back" =>
       versions'[i].state = "rolled-back" /\ active' # i]_versionVars

(* A publish time, once recorded, is never changed: the switch events the  *)
(* consistency check already used as window bounds do not move.            *)
PublishTimeIsFinal ==
  [][\A i \in VersionIDs : versions[i].publishedAt # ZeroTime =>
       versions'[i].publishedAt = versions[i].publishedAt]_versionVars

(* The manager's comment says the pointer refers to "the currently active  *)
(* (published) version"; a rollback to a superseded parent breaks it.      *)
ActiveIsPublished == active # Nil => ResolveActive = active
=============================================================================
