---------------------------- MODULE AtomicStore -----------------------------
(***************************************************************************)
(* What the online read path promises: a store without cache, shards or    *)
(* locks.  A read is answered in one step from the content its key has and *)
(* the version that is resolved in that very step, and shows only the      *)
(* fields of that version's layout.                                        *)
(***************************************************************************)
CONSTANTS Keys, Fields, NoValue, None, Entry, VersionRefs, Clients

VARIABLES
  content,   \* content[k]: the entry of key k, or None
  layout,    \* layout[v]: the fields version v shows
  resolved,  \* the version online reads resolve now
  reply      \* reply[c]: what client c is told, or None

Init ==
  /\ content = [k \in Keys |-> None]
  /\ layout \in [VersionRefs -> SUBSET Fields]
  /\ resolved \in VersionRefs
  /\ reply = [c \in Clients |-> None]

Shown(fields, v) == [f \in Fields |-> IF f \in layout[v] THEN fields[f] ELSE NoValue]

Told(k) ==
  LET e == content[k] IN
  [key  |-> k,
   ver  |-> resolved,
   snap |-> IF e = None
            THEN [fields |-> [f \in Fields |-> NoValue], version |-> resolved]
            ELSE [fields |-> Shown(e.fields, resolved), version |-> e.version]]

Update(k) ==
  /\ \E e \in Entry \cup {None} : content' = [content EXCEPT ![k] = e]
  /\ UNCHANGED <<layout, resolved, reply>>

Answer(c, k) ==
  /\ reply[c] = None
  /\ reply' = [reply EXCEPT ![c] = Told(k)]
  /\ UNCHANGED <<content, layout, resolved>>

Forget(c) ==
  /\ reply' = [reply EXCEPT ![c] = None]
  /\ UNCHANGED <<content, layout, resolved>>

Resolve ==
  /\ resolved' \in VersionRefs
  /\ UNCHANGED <<content, layout, reply>>

(* A new version, not resolved yet, brings its layout. *)
NewVersion ==
  /\ \E v \in VersionRefs, fs \in SUBSET Fields :
       v # resolved /\ layout' = [layout EXCEPT ![v] = fs]
  /\ UNCHANGED <<content, resolved, reply>>

Next ==
  \/ \E k \in Keys : Update(k)
  \/ \E c \in Clients : Forget(c) \/ \E k \in Keys : Answer(c, k)
  \/ Resolve \/ NewVersion

Spec == Init /\ [][Next]_<<content, layout, resolved, reply>>
=============================================================================
