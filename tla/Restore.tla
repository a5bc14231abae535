------------------------------- MODULE Restore -------------------------------
(***************************************************************************)
(* POST /backup and POST /restore of internal/server/control/backup.go,    *)
(* over a registry that others change meanwhile: the store's mutex makes   *)
(* each List, Read and Create atomic, and nothing makes a handler so.      *)
(* What it is about is which overlays apply to which profile, in which     *)
(* order (composeLocked of internal/server/profile/profile.go).            *)
(*                                                                         *)
(* A profile's text is opaque: `text` names the profile it was first       *)
(* written for.  Abstracted: names, UI settings, editorStatus, the layout  *)
(* of the bundle, and the files' own failures (module ProfileStore).       *)
(***************************************************************************)
EXTENDS Naturals, Sequences, SequencesExt, FiniteSets, Filtering

CONSTANTS
  NoId,         \* "": no id
  Gone,         \* the id of a profile deleted long ago
  Nothing,      \* no bundle on the WebDAV server yet
  Registries,   \* bound: what the registry may be to begin with
  MaxChanges    \* bound: what others do, and what goes wrong

VARIABLES
  index,      \* index.json with the texts: a sequence of entries
  broken,     \* ids of profiles whose file cannot be read
  nextId,     \* ids are never used twice
  archive,    \* the bundle on the WebDAV server
  backup,     \* the handler of /backup: [at, metas, bundle]
  restore,    \* the handler of /restore: [at, todo, restored]
  changes,    \* so far
  \* history
  source,     \* the registry when /backup listed it
  mine,       \* ids /restore has created
  changed,    \* others changed something since /backup listed the registry
  failed      \* a file broke or a Create failed since then

restoreVars == <<index, broken, nextId, archive, backup, restore, changes,
                 source, mine, changed, failed>>

Types == {"local", "remote", "merge", "script"}

Metas ==
  [id : Nat, type : Types, base : {NoId, Gone} \cup Nat, managed : BOOLEAN,
   enabled : BOOLEAN, text : Nat]

\* Ids number the profiles as they came: a base was there before what is scoped
\* to it, which may be a profile of any type.  The visual editor has one overlay
\* for a base at most.
ASSUME RestoreAssumption ==
  /\ NoId \notin Nat /\ Gone \notin Nat /\ NoId # Gone
  /\ MaxChanges \in Nat
  /\ \A r \in Registries :
       /\ r \in Seq(Metas)
       /\ \A i \in DOMAIN r :
            /\ r[i].id = i /\ r[i].text = i
            /\ r[i].base \in {NoId, Gone} \cup 1 .. i - 1
            /\ r[i].managed => r[i].base # NoId /\ r[i].type = "merge"
       /\ \A i, j \in DOMAIN r :
            r[i].managed /\ r[j].managed /\ r[i].base = r[j].base => i = j

NoRestored == [i \in {} |-> NoId]
IdleBackup  == [at |-> "idle", metas |-> <<>>, bundle |-> <<>>]
IdleRestore == [at |-> "idle", todo |-> <<>>, restored |-> NoRestored]

Entry(id, type, base, managed, enabled) ==
  [id |-> id, type |-> type, base |-> base, managed |-> managed,
   enabled |-> enabled, text |-> id]

Ids(entries) == {entries[i].id : i \in DOMAIN entries}

RestoreInit ==
  /\ index \in Registries
  /\ nextId = Len(index) + 1
  /\ broken = {}
  /\ archive = Nothing
  /\ backup = IdleBackup
  /\ restore = IdleRestore
  /\ changes = 0
  /\ source = <<>>
  /\ mine = {}
  /\ changed = FALSE
  /\ failed = FALSE

-----------------------------------------------------------------------------
(* POST /backup *)

ListAll ==
  /\ backup.at = "idle" /\ archive = Nothing
  /\ backup' = [at |-> "read", metas |-> index, bundle |-> <<>>]
  /\ source' = index
  /\ changed' = FALSE
  /\ failed' = (broken # {})
  /\ UNCHANGED <<index, broken, nextId, archive, restore, changes, mine>>

Readable(id) == id \in Ids(index) \ broken

\* The next profile that was listed; one that cannot be read is left out.
Read ==
  /\ backup.at = "read" /\ backup.metas # <<>>
  /\ LET m == Head(backup.metas)
     IN backup' = [backup EXCEPT
          !.metas = Tail(@),
          !.bundle = IF Readable(m.id) THEN Append(@, m) ELSE @]
  /\ UNCHANGED <<index, broken, nextId, archive, restore, changes, source,
                 mine, changed, failed>>

Put ==
  /\ backup.at = "read" /\ backup.metas = <<>>
  /\ archive' = backup.bundle
  /\ backup' = IdleBackup
  /\ UNCHANGED <<index, broken, nextId, restore, changes, source, mine,
                 changed, failed>>

-----------------------------------------------------------------------------
(* POST /restore *)

\* Mutant of Split: overlays of the visual editor come first.
Split_Swapped(entries) ==
  LET managed == {e \in ToSet(entries) : e.managed}
  IN Filter(entries, managed) \o Filter(entries, ToSet(entries) \ managed)

\* splitBackupEntries: overlays of the visual editor come last.
Split(entries) ==
  LET managed == {e \in ToSet(entries) : e.managed}
  IN Filter(entries, ToSet(entries) \ managed) \o Filter(entries, managed)

GetBundle ==
  /\ restore.at = "idle" /\ mine = {} /\ archive # Nothing
  /\ restore' = [at |-> "create", todo |-> Split(archive), restored |-> NoRestored]
  /\ UNCHANGED <<index, broken, nextId, archive, backup, changes, source, mine,
                 changed, failed>>

\* A base that has been restored gets its new id, any other is dropped.
Remap(base) ==
  IF base \in DOMAIN restore.restored THEN restore.restored[base] ELSE NoId

\* What becomes of an entry: fetched subscriptions become local ones, and
\* the bundle does not say what was disabled.
Recreated(e) ==
  [id |-> nextId, type |-> IF e.type = "merge" THEN "merge" ELSE "local",
   base |-> Remap(e.base), managed |-> e.managed, enabled |-> TRUE,
   text |-> e.text]

\* The checks Create makes on an overlay of the visual editor.
CreateAllowed(m) ==
  m.managed => /\ m.type = "merge" /\ m.base # NoId
               /\ \A i \in DOMAIN index :
                    ~(index[i].managed /\ index[i].base = m.base)

\* One turn of the loop: scripts are dropped, a refused entry is skipped.
Create ==
  /\ restore.at = "create" /\ restore.todo # <<>>
  /\ LET e == Head(restore.todo)
         m == Recreated(e)
     IN IF e.type # "script" /\ CreateAllowed(m)
          THEN /\ index' = Append(index, m)
               /\ nextId' = nextId + 1
               /\ mine' = mine \cup {nextId}
               /\ restore' = [at |-> "create", todo |-> Tail(restore.todo),
                               restored |->
                                 [i \in DOMAIN restore.restored \cup {e.id} |->
                                    IF i = e.id THEN nextId ELSE restore.restored[i]]]
          ELSE /\ restore' = [restore EXCEPT !.todo = Tail(@)]
               /\ UNCHANGED <<index, nextId, mine>>
  /\ UNCHANGED <<broken, archive, backup, changes, source, changed,
                 failed>>

Reply ==
  /\ restore.at = "create" /\ restore.todo = <<>>
  /\ restore' = [restore EXCEPT !.at = "done"]
  /\ UNCHANGED <<index, broken, nextId, archive, backup, changes, source, mine,
                 changed, failed>>

-----------------------------------------------------------------------------
(* Everybody else *)

Change ==
  /\ changes < MaxChanges /\ changes' = changes + 1
  /\ changed' = TRUE
  /\ UNCHANGED failed

Failure ==
  /\ changes < MaxChanges /\ changes' = changes + 1
  /\ failed' = TRUE
  /\ UNCHANGED changed

\* Mutant of Doomed: overlays survive their base.
Doomed_Alone(id) == {id}

\* Store.Delete takes along what is scoped to the deleted profile.
Doomed(id) ==
  {id} \cup {index[i].id : i \in {j \in DOMAIN index : index[j].base = id}}

OthersDelete ==
  /\ Change
  /\ \E id \in Ids(index) :
       index' = Filter(index, {m \in ToSet(index) : m.id \notin Doomed(id)})
  /\ UNCHANGED <<broken, nextId, archive, backup, restore, source, mine>>

\* All that is relevant of what others create: overlays.
OthersCreate ==
  /\ Change
  /\ \E base \in Ids(index) \cup {NoId}, managed \in BOOLEAN :
       LET m == Entry(nextId, "merge", base, managed, TRUE)
       IN CreateAllowed(m) /\ index' = Append(index, m)
  /\ nextId' = nextId + 1
  /\ UNCHANGED <<broken, archive, backup, restore, source, mine>>

OthersSwitch ==
  /\ Change
  /\ \E i \in DOMAIN index :
       index' = [index EXCEPT ![i].enabled = ~@]
  /\ UNCHANGED <<broken, nextId, archive, backup, restore, source, mine>>

\* A file gets lost.
FileBreaks ==
  /\ Failure
  /\ \E id \in Ids(index) : broken' = broken \cup {id}
  /\ UNCHANGED <<index, nextId, archive, backup, restore, source, mine>>

\* Create cannot write.
CreateFails ==
  /\ restore.at = "create" /\ restore.todo # <<>>
  /\ Failure
  /\ restore' = [restore EXCEPT !.todo = Tail(@)]
  /\ UNCHANGED <<index, broken, nextId, archive, backup, source, mine>>

\* Put fails, or the request is given up: no bundle.
PutFails ==
  /\ backup.at = "read" /\ backup.metas = <<>>
  /\ Failure
  /\ backup' = IdleBackup
  /\ UNCHANGED <<index, broken, nextId, archive, restore, source, mine>>

RestoreNext ==
  \/ ListAll \/ Read \/ Put
  \/ GetBundle \/ Create \/ Reply
  \/ OthersDelete \/ OthersCreate \/ OthersSwitch \/ FileBreaks
  \/ CreateFails \/ PutFails

RestoreSpec == RestoreInit /\ [][RestoreNext]_restoreVars

-----------------------------------------------------------------------------
(* Properties *)

\* Types.  Ids are unique and never reused, a base comes before what is scoped
\* to it, and what /restore creates is local or an overlay.
RestoreTypeOK ==
  /\ \A i, j \in DOMAIN index : i < j => index[i].id < index[j].id
  /\ \A i \in DOMAIN index :
       /\ index[i].type \in Types
       /\ index[i].id \in mine => index[i].type \in {"local", "merge"}
       /\ index[i].id \in 1 .. nextId - 1
       /\ index[i].base \in {NoId, Gone} \cup 1 .. index[i].id - 1
  /\ mine \subseteq 1 .. nextId - 1
  /\ {restore.restored[i] : i \in DOMAIN restore.restored} = mine
  /\ backup.at \in {"idle", "read"} /\ restore.at \in {"idle", "create", "done"}
  /\ changes \in 0 .. MaxChanges

\* composeLocked: what is merged into profile id, in order.
Overlays(entries, id) ==
  Filter(entries, {m \in ToSet(entries) : /\ m.type = "merge" /\ m.enabled
                                          /\ m.base \in {NoId, id}})
Texts(entries) == [i \in DOMAIN entries |-> entries[i].text]

\* Profiles that can be activated.
Bases(entries) ==
  {m.id : m \in {e \in ToSet(entries) : e.type \in {"local", "remote"}}}

Overlaying(entries) == {m \in ToSet(entries) : m.type = "merge"}

\* Three things a bundle does not keep: what was disabled is on again; an
\* overlay of something that cannot be activated, and does nothing, applies to
\* everything; overlays of the visual editor come last, and win.
Reenabled(entries) == \E m \in Overlaying(entries) : ~m.enabled
Unscoped(entries) ==
  \E m \in Overlaying(entries) : m.base \notin {NoId} \cup Bases(entries)
Reordered(entries) ==
  \E i, j \in DOMAIN entries :
    i < j /\ entries[i].managed /\ entries[j].type = "merge" /\ ~entries[j].managed

\* A profile that was backed up and restored while nothing else happened is
\* composed from the texts it was composed from, in their order, as far as
\* what was restored goes, unless the registry is one of the three above.
RestoredComposesAlike ==
  /\ restore.at = "done" /\ ~changed /\ ~failed
  /\ ~Reenabled(source) /\ ~Unscoped(source)
  => \A b \in Bases(source) :
       LET was == Texts(Overlays(source, b))
           is  == Texts(Filter(Overlays(index, restore.restored[b]),
                               {m \in ToSet(index) : m.id \in mine}))
       IN IF Reordered(source) THEN ToSet(is) = ToSet(was) ELSE is = was

\* Those of them that are not themselves scoped to another profile.
Roots(entries) ==
  {m.id : m \in {e \in ToSet(entries) :
                   e.type \in {"local", "remote"} /\ e.base = NoId}}

\* Whoever deletes, creates or switches what in between, no restored overlay
\* is scoped to a profile of the registry it was restored into, and none
\* becomes global that was scoped to a profile one can activate: a backup
\* never holds an overlay without the base it was listed with, as a base is
\* read first and its deletion takes the overlay along.  (A base that is itself
\* scoped goes with the profile it is scoped to, and leaves its overlays.)
ScopesKept ==
  /\ RestoreTypeOK
  /\ \A m \in Overlaying(index) : m.id \in mine =>
    LET old == CHOOSE e \in ToSet(source) : e.id = m.text
    IN /\ m.base \in {NoId} \cup mine
       /\ ~failed /\ old.base \in Roots(source) =>
            /\ old.base \in DOMAIN restore.restored
            /\ m.base = restore.restored[old.base]
=============================================================================
