---------------------------- MODULE ProfileStore ----------------------------
(***************************************************************************)
(* The profile store, internal/server/profile/profile.go, seen as what it  *)
(* leaves on the disk: index.json (the registry), one <id>.yaml per        *)
(* profile, state.json (the active id), active.yaml and its .bak snapshot. *)
(*                                                                         *)
(* Store.mu serializes the operations, so at most one is under way.  It    *)
(* reads everything it needs first and then changes the files one by one;  *)
(* each change is a step here, and between two of them the server may      *)
(* crash, or a write may fail.  atomicWrite (temporary file and rename)    *)
(* happens or does not; copyFile truncates its target and may be cut.      *)
(*                                                                         *)
(* Abstracted: the text of the profiles (a file exists or not), names,     *)
(* URLs, times, editorStatus (metadata no operation of the store reads),   *)
(* the order of the index (it only fixes the order in which overlays are   *)
(* merged) and, in active.yaml, the overlays: a composed file is named by  *)
(* its base profile.  A failed merge leaves everything as it was.          *)
(***************************************************************************)
EXTENDS Naturals, FiniteSets

CONSTANTS
  Ids,        \* profile ids
  NoId,       \* "": no id
  Gone,       \* the id of a profile deleted long ago
  Absent,     \* a file that does not exist
  Cut,        \* a file whose copy was interrupted
  Minimal,    \* the empty configuration ResetActive writes
  MaxFaults   \* bound: crashes, failed writes and failed reads of index.json

ASSUME StoreAssumption ==
  /\ MaxFaults \in Nat
  /\ NoId \notin Ids /\ Gone \notin Ids /\ Gone # NoId
  /\ {Absent, Cut, Minimal} \cap Ids = {}
  /\ Absent # Cut /\ Absent # Minimal /\ Cut # Minimal

VARIABLES
  index,      \* [Ids -> Meta or Unlisted]: index.json
  files,      \* the ids whose <id>.yaml exists
  activeId,   \* state.json
  active,     \* active.yaml
  bak,        \* active.yaml.bak
  \* the operation under way and its locals
  op, step,
  target,     \* its profile id
  draft,      \* the index it is going to write
  doomed,     \* Delete: the files still to be removed
  \* history
  misread,    \* did the operation take a failed read of the index for no index?
  cut,        \* ids whose Delete did not get as far as the index
  faults      \* faults so far

disk == <<index, files, activeId, active, bak>>
job  == <<op, step, target, draft, doomed, misread>>
vars == <<disk, job, cut, faults>>

Meta == [type : {"local", "remote", "merge"}, base : Ids \cup {NoId, Gone},
         managed : BOOLEAN, enabled : BOOLEAN]
Unlisted == [type |-> "none", base |-> NoId, managed |-> FALSE,
             enabled |-> FALSE]
EmptyIndex == [i \in Ids |-> Unlisted]

In(i, idx) == idx[i].type # "none"
Listed(i)  == In(i, index)

\* The overlays the visual editor owns for base b.
Managed(b, idx) == {i \in Ids : In(i, idx) /\ idx[i].managed /\ idx[i].base = b}

Operations == {"create", "duplicate", "import", "update", "setSection",
               "refresh", "delete", "setActive", "rollback", "reset"}

TypeOK ==
  /\ index \in [Ids -> Meta \cup {Unlisted}]
  /\ draft \in [Ids -> Meta \cup {Unlisted}]
  /\ files \subseteq Ids
  /\ activeId \in Ids \cup {NoId}
  /\ active \in Ids \cup {Absent, Cut, Minimal}
  /\ bak \in Ids \cup {Absent, Cut, Minimal}
  /\ op \in Operations \cup {"none"}
  /\ step \in {"none", "file", "index", "undo", "remove", "state", "backup",
               "active", "restore"}
  /\ target \in Ids \cup {NoId}
  /\ doomed \subseteq Ids
  /\ misread \in BOOLEAN
  /\ cut \subseteq Ids
  /\ faults \in 0 .. MaxFaults

Init ==
  /\ index = EmptyIndex
  /\ draft = EmptyIndex
  /\ files = {}
  /\ activeId = NoId
  /\ active = Absent
  /\ bak = Absent
  /\ op = "none"
  /\ step = "none"
  /\ target = NoId
  /\ doomed = {}
  /\ misread = FALSE
  /\ cut = {}
  /\ faults = 0

-----------------------------------------------------------------------------
(* Beginning an operation: mu is taken, the files are read. *)

Begin(o, i, s, idx) ==
  /\ op = "none"
  /\ op' = o /\ step' = s /\ target' = i /\ draft' = idx

\* What readIndexLocked gives.  The callers drop its error, so that a failed
\* read looks like an empty registry.
Reads(seen) ==
  \/ seen = index /\ misread' = FALSE /\ UNCHANGED faults
  \/ /\ seen = EmptyIndex
     /\ faults < MaxFaults
     /\ misread' = TRUE
     /\ faults' = faults + 1

ReadsWell == misread' = FALSE /\ UNCHANGED faults

\* A random id: nothing on the disk mentions it.
Fresh(i) ==
  /\ ~Listed(i) /\ i \notin files
  /\ i \notin {activeId, active, bak}
  /\ \A j \in Ids : index[j].base # i

New(type, base, managed) ==
  [type |-> type, base |-> base, managed |-> managed, enabled |-> TRUE]

\* Mutant of BeginNew: the index is written without the file.
BeginNew_NoFile(o, i, m, seen) ==
  /\ Fresh(i)
  /\ Begin(o, i, "index", [seen EXCEPT ![i] = m])
  /\ cut' = cut \ {i}
  /\ UNCHANGED <<disk, doomed>>

\* Add a profile: its file is written before the index.
BeginNew(o, i, m, seen) ==
  /\ Fresh(i)
  /\ Begin(o, i, "file", [seen EXCEPT ![i] = m])
  /\ cut' = cut \ {i}
  /\ UNCHANGED <<disk, doomed>>

\* The checks Create makes on an overlay of the visual editor.
CreateAllowed(m, seen) ==
  m.managed => /\ m.type = "merge" /\ m.base # NoId
               /\ Managed(m.base, seen) = {}

\* Create.  The base is not looked up: it may be a profile that a client
\* still shows and that was deleted meanwhile.
Create(i) ==
  \E type \in {"local", "merge"}, managed \in BOOLEAN,
     base \in {NoId, Gone} \cup {j \in Ids : Listed(j)}, seen \in {index, EmptyIndex} :
    /\ Reads(seen)
    /\ CreateAllowed(New(type, base, managed), seen)
    /\ BeginNew("create", i, New(type, base, managed), seen)

\* Duplicate: always a local profile, whatever it was copied from.
Duplicate(id, i) ==
  /\ Listed(id) /\ id \in files
  /\ \E seen \in {index, EmptyIndex} :
       /\ Reads(seen)
       /\ BeginNew("duplicate", i, New("local", NoId, FALSE), seen)

\* ImportFromURL, once the subscription has been fetched.
Import(i) ==
  \E seen \in {index, EmptyIndex} :
    /\ Reads(seen)
    /\ BeginNew("import", i, New("remote", NoId, FALSE), seen)

\* Update: new content or not, overlay switched on or off or left alone.
Update(id) ==
  /\ Listed(id)
  /\ \E s \in {"file", "index"}, on \in BOOLEAN :
       Begin("update", id, s, [index EXCEPT ![id].enabled = on])
  /\ ReadsWell
  /\ UNCHANGED <<disk, doomed, cut>>

\* SetSection reads the index anew after it has written the file.
SetSection(id) ==
  /\ Listed(id) /\ id \in files
  /\ \E seen \in {index, EmptyIndex} :
       Reads(seen) /\ Begin("setSection", id, "file", seen)
  /\ UNCHANGED <<disk, doomed, cut>>

\* Refresh, once the subscription has been fetched.
Refresh(id) ==
  /\ Listed(id) /\ index[id].type = "remote"
  /\ Begin("refresh", id, "file", index)
  /\ ReadsWell
  /\ UNCHANGED <<disk, doomed, cut>>

\* Delete takes along every profile scoped to the deleted one.
DoomedBy(id) == {id} \cup {j \in Ids : Listed(j) /\ index[j].base = id}

\* Mutant of Delete: the cascade takes the overlays of the same base too.
Delete_Siblings(id) ==
  /\ Listed(id)
  /\ Begin("delete", id, "remove",
           [i \in Ids |-> IF i \in DoomedBy(id) \/ index[i].base = index[id].base
                            THEN Unlisted ELSE index[i]])
  /\ doomed' = DoomedBy(id)
  /\ ReadsWell
  /\ UNCHANGED <<disk, cut>>

Delete(id) ==
  /\ Listed(id)
  /\ Begin("delete", id, "remove",
           [i \in Ids |-> IF i \in DoomedBy(id) THEN Unlisted ELSE index[i]])
  /\ doomed' = DoomedBy(id)
  /\ ReadsWell
  /\ UNCHANGED <<disk, cut>>

\* composeLocked succeeds, as far as files and metadata decide.
Composable(id) ==
  /\ Listed(id) /\ index[id].type # "merge"
  /\ id \in files
  /\ Cardinality(Managed(id, index)) <= 1
  /\ \A i \in Ids : /\ index[i].type = "merge" /\ index[i].enabled
                    /\ index[i].base \in {NoId, id}
                    => i \in files

\* The snapshot is taken only if there is a file to take it of.
FirstStep == IF active = Absent THEN "active" ELSE "backup"

SetActive(id) ==
  /\ Composable(id)
  /\ Begin("setActive", id, FirstStep, draft)
  /\ ReadsWell
  /\ UNCHANGED <<disk, doomed, cut>>

ResetActive ==
  /\ Begin("reset", NoId, FirstStep, draft)
  /\ ReadsWell
  /\ UNCHANGED <<disk, doomed, cut>>

Rollback ==
  /\ bak # Absent
  /\ Begin("rollback", NoId, "restore", draft)
  /\ ReadsWell
  /\ UNCHANGED <<disk, doomed, cut>>

-----------------------------------------------------------------------------
(* The changes an operation makes, one by one. *)

Adding == op \in {"create", "duplicate", "import"}

\* The operation goes on at s with nothing but the disk changed.
GoOn(s) ==
  /\ step' = s
  /\ UNCHANGED <<op, target, draft, doomed, misread, cut, faults>>

\* mu is released and the locals are gone.
Done ==
  /\ op' = "none" /\ step' = "none" /\ target' = NoId
  /\ draft' = EmptyIndex /\ doomed' = {} /\ misread' = FALSE
Finish == Done /\ UNCHANGED <<cut, faults>>

WriteFile ==
  /\ step = "file"
  /\ files' = files \cup {target}
  /\ GoOn("index")
  /\ UNCHANGED <<index, activeId, active, bak>>

\* Mutant of WriteIndex: state.json is not looked at.
WriteIndex_KeepsActive ==
  /\ step = "index"
  /\ index' = draft
  /\ Finish
  /\ UNCHANGED <<files, activeId, active, bak>>

WriteIndex ==
  /\ step = "index"
  /\ index' = draft
  /\ IF op = "delete" /\ activeId = target THEN GoOn("state") ELSE Finish
  /\ UNCHANGED <<files, activeId, active, bak>>

RemoveFile ==
  /\ step = "remove"
  /\ IF doomed = {}
       THEN GoOn("index") /\ UNCHANGED files
       ELSE /\ \E d \in doomed : doomed' = doomed \ {d} /\ files' = files \ {d}
            /\ UNCHANGED <<op, step, target, draft, misread, cut, faults>>
  /\ UNCHANGED <<index, activeId, active, bak>>

\* The index could not be written: the new file is removed again.
Undo ==
  /\ step = "undo"
  /\ files' = files \ {target}
  /\ Finish
  /\ UNCHANGED <<index, activeId, active, bak>>

BackUp ==
  /\ step = "backup"
  /\ bak' = active
  /\ GoOn("active")
  /\ UNCHANGED <<index, files, activeId, active>>

WriteActive ==
  /\ step = "active"
  /\ active' = IF op = "setActive" THEN target ELSE Minimal
  /\ GoOn("state")
  /\ UNCHANGED <<index, files, activeId, bak>>

WriteState ==
  /\ step = "state"
  /\ activeId' = IF op = "setActive" THEN target ELSE NoId
  /\ Finish
  /\ UNCHANGED <<index, files, active, bak>>

Restore ==
  /\ step = "restore"
  /\ active' = bak
  /\ Finish
  /\ UNCHANGED <<index, files, activeId, bak>>

-----------------------------------------------------------------------------
(* Faults *)

Fault == faults < MaxFaults /\ faults' = faults + 1

\* A Delete that stops before the index is written.
CutShort == IF op = "delete" /\ step \in {"remove", "index"}
              THEN cut \cup DoomedBy(target) ELSE cut

\* The change fails and the operation returns the error.
ReturnError ==
  /\ \/ step \in {"file", "active", "state", "undo"}
     \/ step = "index" /\ ~Adding
  /\ Fault /\ Done
  /\ cut' = CutShort
  /\ UNCHANGED disk

\* writeIndexLocked fails when a profile is added.
UndoOnError ==
  /\ step = "index" /\ Adding
  /\ Fault
  /\ step' = "undo"
  /\ UNCHANGED <<disk, op, target, draft, doomed, misread, cut>>

\* os.Remove fails; the error is dropped.
SkipRemove ==
  /\ step = "remove"
  /\ Fault
  /\ \E d \in doomed : doomed' = doomed \ {d}
  /\ UNCHANGED <<disk, op, step, target, draft, misread, cut>>

\* The snapshot fails, before or after its target was truncated; the error
\* is dropped.
SkipBackUp ==
  /\ step = "backup"
  /\ Fault
  /\ bak' \in {bak, Cut}
  /\ step' = "active"
  /\ UNCHANGED <<index, files, activeId, active, op, target, draft, doomed,
                 misread, cut>>

\* The restoring copy fails half-way, and Rollback returns false.
CutRestore ==
  /\ step = "restore"
  /\ Fault /\ Done
  /\ active' = Cut
  /\ UNCHANGED <<index, files, activeId, bak, cut>>

\* Mutant of Crash: active.yaml is written in place.
Crash_PlainWrite ==
  /\ op # "none"
  /\ Fault /\ Done
  /\ cut' = CutShort
  /\ bak' \in IF step = "backup" THEN {bak, Cut} ELSE {bak}
  /\ active' \in IF step \in {"active", "restore"} THEN {active, Cut} ELSE {active}
  /\ UNCHANGED <<index, files, activeId>>

\* The server dies and comes back: what was written stays, the rest is lost.
Crash ==
  /\ op # "none"
  /\ Fault /\ Done
  /\ cut' = CutShort
  /\ bak' \in IF step = "backup" THEN {bak, Cut} ELSE {bak}
  /\ active' \in IF step = "restore" THEN {active, Cut} ELSE {active}
  /\ UNCHANGED <<index, files, activeId>>

-----------------------------------------------------------------------------
Begins ==
  \/ ResetActive \/ Rollback
  \/ \E i \in Ids :
       \/ Create(i) \/ Import(i) \/ Update(i) \/ SetSection(i) \/ Refresh(i)
       \/ Delete(i) \/ SetActive(i)
       \/ \E j \in Ids : Duplicate(i, j)

Changes ==
  \/ WriteFile \/ WriteIndex \/ RemoveFile \/ Undo
  \/ BackUp \/ WriteActive \/ WriteState \/ Restore

Faulty ==
  \/ ReturnError \/ UndoOnError \/ SkipRemove \/ SkipBackUp \/ CutRestore
  \/ Crash

Next == Begins \/ Changes \/ Faulty

Spec == Init /\ [][Next]_vars

-----------------------------------------------------------------------------
(* Properties *)

\* A listed profile has its file, whatever fails and wherever the server
\* crashes, except for the victims of a Delete that is under way or that
\* stopped after removing files and before rewriting the index.
ListedHasFile ==
  \A i \in Ids : Listed(i) =>
    \/ i \in files
    \/ i \in cut
    \/ op = "delete" /\ i \in DoomedBy(target)

\* A profile leaves the registry only through a Delete of it or of its base,
\* or because an unreadable index was taken for an empty one and overwritten.
OnlyDeleteForgets ==
  [][\A i \in Ids : Listed(i) /\ ~Listed(i)' =>
       misread \/ (op = "delete" /\ i \in DoomedBy(target))]_vars

\* The visual editor owns at most one overlay per base, so that composing
\* never ends in ErrMultipleOverlays.
OneManagedOverlay ==
  \A i, j \in Ids :
    /\ Listed(i) /\ index[i].managed
    /\ Listed(j) /\ index[j].managed
    /\ index[i].base = index[j].base
    => i = j

\* A first crash or failed write never costs both copies of the active
\* configuration: if it leaves active.yaml cut, the snapshot is whole.
FirstFaultKeepsACopy ==
  [][faults = 0 /\ faults' = 1 /\ active' = Cut
       => bak' \notin {Absent, Cut}]_vars

\* While nothing fails, state.json comes to name a profile that is gone in one
\* way only: a Delete of its base took it along.  No other operation, in any
\* order, leaves it behind (profile.go 339-346).
ActiveLostOnlyByCascade ==
  [][op' = "none" /\ faults' = 0 /\ activeId' # NoId /\ ~Listed(activeId)'
       => activeId' = activeId
            /\ \/ ~Listed(activeId)
               \/ op = "delete" /\ index[activeId].base = target]_vars

Abstract == INSTANCE Registry WITH entries <- index, chosen <- activeId

\* Step by step, crashes, failed writes and misread indexes included, the store
\* is the registry that changes one call at a time: what a call adds, switches
\* or removes is there at once or never, and only what was accepted is added.
ImplementsRegistry == Abstract!RegistrySpec
=============================================================================
