------------------------- MODULE ProfileStoreProofs -------------------------
(* Proofs about ProfileStore, for every set of ids and number of faults: *)
(* its properties, and that it implements Registry.                      *)
EXTENDS ProfileStore, TLAPS

(***************************************************************************)
(* The inductive invariant, in named parts.                                *)
(***************************************************************************)

\* Which steps belong to which operation, and which have a profile.
Table ==
  /\ op = "none" <=> step = "none"
  /\ Adding => step \in {"file", "index", "undo"}
  /\ op \in {"update", "setSection", "refresh"} => step \in {"file", "index"}
  /\ op = "delete" => step \in {"remove", "index", "state"}
  /\ op \in {"setActive", "reset"} => step \in {"backup", "active", "state"}
  /\ op = "rollback" => step = "restore"
  /\ op \notin {"none", "reset", "rollback"} => target \in Ids

\* What is listed is on the disk, but for a Delete before its index write.
OnDisk ==
  \A i \in Ids : Listed(i) =>
    \/ i \in files
    \/ i \in cut
    \/ op = "delete" /\ step \in {"remove", "index"} /\ i \in DoomedBy(target)

\* A new profile is not listed before its index entry is written, which
\* happens after its file has been.
Adds ==
  Adding =>
    /\ ~Listed(target)
    /\ step = "index" => target \in files
    /\ \A i \in Ids : In(i, draft) => Listed(i) \/ i = target

\* A change of a profile lists nothing new.
Edits ==
  op \in {"update", "setSection", "refresh"} =>
    \A i \in Ids : In(i, draft) => Listed(i)

\* The draft of a Delete is what is left without its victims.
Deletes ==
  op = "delete" =>
    /\ step = "remove" => doomed \subseteq DoomedBy(target)
    /\ step \in {"remove", "index"} =>
         \A i \in Ids : draft[i] = IF i \in DoomedBy(target) THEN Unlisted
                                                             ELSE index[i]

\* Unless the index was misread, the draft keeps every profile.
Keeps ==
  op \notin {"none", "delete"} /\ step \in {"file", "index"} /\ ~misread =>
    \A i \in Ids : Listed(i) => In(i, draft)

\* No index has two overlays of the visual editor for one base.
Single(idx) ==
  \A i, j \in Ids : /\ In(i, idx) /\ idx[i].managed
                    /\ In(j, idx) /\ idx[j].managed
                    /\ idx[i].base = idx[j].base
                    => i = j

\* Before the first fault every copy is whole.
Whole ==
  /\ faults = 0 => active # Cut /\ bak # Cut
  /\ step = "restore" => bak # Absent

IInv == /\ TypeOK /\ Table /\ OnDisk /\ Adds /\ Edits /\ Deletes /\ Keeps
        /\ Single(index) /\ Single(draft) /\ Whole

-----------------------------------------------------------------------------
\* An index entry is metadata, or says that there is none.
LEMMA Entry ==
  ASSUME NEW idx \in [Ids -> Meta \cup {Unlisted}], NEW i \in Ids
  PROVE  /\ In(i, idx) => idx[i] \in Meta
         /\ ~In(i, idx) => idx[i] = Unlisted
         /\ idx[i].managed \in BOOLEAN
         /\ idx[i].base \in Ids \cup {NoId, Gone}
<1>1. CASE idx[i] \in Meta
  BY <1>1 DEF In, Meta
<1>2. CASE idx[i] = Unlisted
  BY <1>2 DEF In, Unlisted
<1> QED
  BY <1>1, <1>2

\* The empty index lists nothing.
LEMMA EmptyIsEmpty ==
  /\ EmptyIndex \in [Ids -> Meta \cup {Unlisted}]
  /\ \A i \in Ids : ~In(i, EmptyIndex)
  /\ Single(EmptyIndex)
  BY DEF EmptyIndex, In, Unlisted, Single

\* Adding an entry that is not one of the visual editor's, or the first of
\* its base, keeps such overlays unique.
LEMMA AddSingle ==
  ASSUME NEW idx \in [Ids -> Meta \cup {Unlisted}], Single(idx),
         NEW i \in Ids, NEW m \in Meta,
         m.managed => Managed(m.base, idx) = {}
  PROVE  LET new == [idx EXCEPT ![i] = m]
         IN  /\ new \in [Ids -> Meta \cup {Unlisted}]
             /\ Single(new)
             /\ \A j \in Ids : In(j, new) <=> In(j, idx) \/ j = i
<1> DEFINE new == [idx EXCEPT ![i] = m]
<1>1. new \in [Ids -> Meta \cup {Unlisted}]
  OBVIOUS
<1>2. \A j \in Ids : new[j] = IF j = i THEN m ELSE idx[j]
  OBVIOUS
<1>3. m.type # "none" /\ m.managed \in BOOLEAN
  BY DEF Meta
<1>4. \A j \in Ids : In(j, new) <=> In(j, idx) \/ j = i
  BY <1>2, <1>3 DEF In
<1>5. \A j \in Ids : m.managed /\ In(j, idx) /\ idx[j].managed => idx[j].base # m.base
  BY DEF Managed
<1>6. Single(new)
  <2> SUFFICES ASSUME NEW j \in Ids, NEW k \in Ids,
                      In(j, new), new[j].managed, In(k, new), new[k].managed,
                      new[j].base = new[k].base
               PROVE  j = k
    BY DEF Single
  <2> HIDE DEF new
  <2>1. CASE j = i /\ k = i
    BY <2>1
  <2>2. CASE j = i /\ k # i
    BY <2>2, <1>2, <1>4, <1>5
  <2>3. CASE j # i /\ k = i
    BY <2>3, <1>2, <1>4, <1>5
  <2>4. CASE j # i /\ k # i
    BY <2>4, <1>2, <1>4 DEF Single
  <2> QED
    BY <2>1, <2>2, <2>3, <2>4
<1> QED
  BY <1>1, <1>4, <1>6

\* Switching an overlay on or off keeps the index as it is otherwise.
LEMMA SwitchSingle ==
  ASSUME NEW idx \in [Ids -> Meta \cup {Unlisted}], Single(idx),
         NEW i \in Ids, In(i, idx), NEW on \in BOOLEAN
  PROVE  LET new == [idx EXCEPT ![i].enabled = on]
         IN  /\ new \in [Ids -> Meta \cup {Unlisted}]
             /\ Single(new)
             /\ \A j \in Ids : In(j, new) <=> In(j, idx)
<1> DEFINE new == [idx EXCEPT ![i].enabled = on]
<1>1. idx[i] \in Meta
  BY Entry
<1>2. [idx[i] EXCEPT !.enabled = on] \in Meta
  BY <1>1 DEF Meta
<1>3. new \in [Ids -> Meta \cup {Unlisted}]
  BY <1>2
<1>4. \A j \in Ids : /\ new[j].type = idx[j].type
                     /\ new[j].managed = idx[j].managed
                     /\ new[j].base = idx[j].base
  BY <1>1 DEF Meta
<1>5. \A j \in Ids : In(j, new) <=> In(j, idx)
  BY <1>4 DEF In
<1>6. Single(new)
  BY <1>4, <1>5 DEF Single
<1> QED
  BY <1>3, <1>5, <1>6

\* A store that has just been created satisfies the invariant.
LEMMA InitInv == Init => IInv
<1> SUFFICES ASSUME Init PROVE IInv
  OBVIOUS
<1>1. TypeOK
  BY EmptyIsEmpty, StoreAssumption, 0 \in 0 .. MaxFaults DEF Init, TypeOK, Operations
<1>2. OnDisk /\ Single(index) /\ Single(draft)
  BY EmptyIsEmpty DEF Init, OnDisk, Listed
<1>3. Table /\ Adds /\ Edits /\ Deletes /\ Keeps /\ Whole
  BY StoreAssumption DEF Init, Table, Adding, Adds, Edits, Deletes, Keeps, Whole
<1> QED
  BY <1>1, <1>2, <1>3 DEF IInv

\* What an operation reads is a registry, and the real one unless misread.
LEMMA ReadsRegistry ==
  ASSUME TypeOK, Single(index), NEW seen \in {index, EmptyIndex}, Reads(seen)
  PROVE  /\ seen \in [Ids -> Meta \cup {Unlisted}]
         /\ Single(seen)
         /\ \A j \in Ids : In(j, seen) => Listed(j)
         /\ misread' \in BOOLEAN
         /\ ~misread' => seen = index
         /\ faults' \in 0 .. MaxFaults
         /\ faults' = 0 => faults = 0
<1>1. misread' \in BOOLEAN /\ (~misread' => seen = index)
  BY DEF Reads
<1>2. faults' \in 0 .. MaxFaults /\ (faults' = 0 => faults = 0)
  <2>1. faults' = faults \/ (faults' = faults + 1 /\ faults < MaxFaults)
    BY DEF Reads
  <2> QED
    BY <2>1, StoreAssumption DEF TypeOK
<1>3. CASE seen = index
  BY <1>1, <1>2, <1>3 DEF TypeOK, Listed
<1>4. CASE seen = EmptyIndex
  BY <1>1, <1>2, <1>4, EmptyIsEmpty
<1> QED
  BY <1>3, <1>4

-----------------------------------------------------------------------------
\* Beginning to add a profile keeps the invariant.
LEMMA AddInv ==
  ASSUME IInv, NEW o \in {"create", "duplicate", "import"}, NEW i \in Ids,
         NEW m \in Meta, NEW seen \in {index, EmptyIndex},
         m.managed => Managed(m.base, seen) = {},
         Reads(seen), BeginNew(o, i, m, seen)
  PROVE  IInv'
<1> USE DEF IInv, BeginNew, Begin, disk
<1>1. /\ seen \in [Ids -> Meta \cup {Unlisted}]
      /\ Single(seen)
      /\ \A j \in Ids : In(j, seen) => Listed(j)
      /\ misread' \in BOOLEAN /\ faults' \in 0 .. MaxFaults
      /\ ~misread' => seen = index
      /\ faults' = 0 => faults = 0
  BY ReadsRegistry
<1>2. /\ draft' \in [Ids -> Meta \cup {Unlisted}]
      /\ Single(draft)'
      /\ \A j \in Ids : In(j, draft)' <=> In(j, seen) \/ j = i
  BY <1>1, AddSingle
<1>3. TypeOK'
  BY <1>1, <1>2 DEF TypeOK, Operations
<1>4. Table' /\ Edits' /\ Deletes' /\ Whole'
  BY <1>1 DEF Table, Adding, Edits, Deletes, Whole
<1>5. OnDisk'
  BY DEF OnDisk, Fresh, Listed, In, Table
<1>6. Adds' /\ Keeps'
  BY <1>1, <1>2 DEF Adds, Adding, Keeps, Fresh, Listed, In
<1>7. Single(index)'
  BY DEF Single, In
<1> QED
  BY <1>2, <1>3, <1>4, <1>5, <1>6, <1>7

\* Beginning to change a profile keeps the invariant.
LEMMA EditInv ==
  ASSUME IInv, NEW o \in {"update", "setSection", "refresh"},
         NEW i \in Ids, NEW s \in {"file", "index"},
         NEW idx \in [Ids -> Meta \cup {Unlisted}], Single(idx),
         \A j \in Ids : In(j, idx) => Listed(j),
         misread' \in BOOLEAN, faults' \in 0 .. MaxFaults,
         faults' = 0 => faults = 0,
         ~misread' => \A j \in Ids : Listed(j) => In(j, idx),
         Begin(o, i, s, idx),
         UNCHANGED <<disk, doomed, cut>>
  PROVE  IInv'
<1> USE DEF IInv, Begin, disk
<1>1. TypeOK'
  BY DEF TypeOK, Operations
<1>2. Table' /\ Adds' /\ Deletes' /\ Whole'
  BY DEF Table, Adding, Adds, Deletes, Whole
<1>3. OnDisk'
  BY DEF OnDisk, Listed, In, Table
<1>4. Edits' /\ Keeps'
  BY DEF Edits, Keeps, Listed, In
<1>5. Single(index)' /\ Single(draft)'
  BY DEF Single, In
<1> QED
  BY <1>1, <1>2, <1>3, <1>4, <1>5

\* Beginning to change the active configuration keeps the invariant.
LEMMA ActiveInv ==
  ASSUME IInv, NEW o \in {"setActive", "reset", "rollback"},
         NEW i \in Ids \cup {NoId}, o = "setActive" => i \in Ids,
         NEW s \in {"backup", "active", "restore"},
         o = "rollback" <=> s = "restore",
         o = "rollback" => bak # Absent,
         Begin(o, i, s, draft), ReadsWell,
         UNCHANGED <<disk, doomed, cut>>
  PROVE  IInv'
<1> USE DEF IInv, Begin, ReadsWell, disk
<1>1. TypeOK'
  BY DEF TypeOK, Operations
<1>2. Table' /\ Adds' /\ Edits' /\ Deletes' /\ Keeps' /\ Whole'
  BY DEF Table, Adding, Adds, Edits, Deletes, Keeps, Whole
<1>3. OnDisk'
  BY DEF OnDisk, Listed, In, Table
<1>4. Single(index)' /\ Single(draft)'
  BY DEF Single, In
<1> QED
  BY <1>1, <1>2, <1>3, <1>4

\* The beginning of every operation keeps the invariant.
LEMMA BeginsInv == IInv /\ Begins => IInv'
<1> SUFFICES ASSUME IInv, Begins PROVE IInv'
  OBVIOUS
<1>0. /\ index \in [Ids -> Meta \cup {Unlisted}]
      /\ Single(index)
      /\ faults \in 0 .. MaxFaults
  BY DEF IInv, TypeOK
<1>1. CASE \E i \in Ids : Create(i)
  <2>1. PICK i \in Ids, type \in {"local", "merge"}, managed \in BOOLEAN,
             base \in {NoId, Gone} \cup {j \in Ids : Listed(j)},
             seen \in {index, EmptyIndex} :
               /\ Reads(seen)
               /\ CreateAllowed(New(type, base, managed), seen)
               /\ BeginNew("create", i, New(type, base, managed), seen)
    BY <1>1 DEF Create
  <2>2. New(type, base, managed) \in Meta
    BY DEF New, Meta
  <2> QED
    BY <2>1, <2>2, AddInv DEF CreateAllowed
<1>2. CASE \E i \in Ids : Import(i)
  <2>1. New("remote", NoId, FALSE) \in Meta /\ ~New("remote", NoId, FALSE).managed
    BY DEF New, Meta
  <2> QED
    BY <1>2, <2>1, AddInv DEF Import
<1>3. CASE \E i, j \in Ids : Duplicate(i, j)
  <2>1. New("local", NoId, FALSE) \in Meta /\ ~New("local", NoId, FALSE).managed
    BY DEF New, Meta
  <2> QED
    BY <1>3, <2>1, AddInv DEF Duplicate
<1>4. CASE \E i \in Ids : Update(i)
  <2>1. PICK i \in Ids, s \in {"file", "index"}, on \in BOOLEAN :
               /\ Listed(i)
               /\ Begin("update", i, s, [index EXCEPT ![i].enabled = on])
               /\ ReadsWell /\ UNCHANGED <<disk, doomed, cut>>
    BY <1>4 DEF Update
  <2> DEFINE new == [index EXCEPT ![i].enabled = on]
  <2>2. /\ new \in [Ids -> Meta \cup {Unlisted}]
        /\ Single(new)
        /\ \A j \in Ids : In(j, new) <=> Listed(j)
    BY <2>1, <1>0, SwitchSingle DEF Listed
  <2> HIDE DEF new
  <2> QED
    BY <2>1, <2>2, <1>0, EditInv DEF ReadsWell, new
<1>5. CASE \E i \in Ids : SetSection(i)
  <2>1. PICK i \in Ids, seen \in {index, EmptyIndex} :
               /\ Reads(seen) /\ Begin("setSection", i, "file", seen)
               /\ UNCHANGED <<disk, doomed, cut>>
    BY <1>5 DEF SetSection
  <2>2. /\ seen \in [Ids -> Meta \cup {Unlisted}] /\ Single(seen)
        /\ \A j \in Ids : In(j, seen) => Listed(j)
        /\ misread' \in BOOLEAN /\ faults' \in 0 .. MaxFaults
        /\ faults' = 0 => faults = 0
        /\ ~misread' => \A j \in Ids : Listed(j) => In(j, seen)
    BY <2>1, ReadsRegistry DEF IInv, Listed
  <2> QED
    BY <2>1, <2>2, EditInv
<1>6. CASE \E i \in Ids : Refresh(i)
  BY <1>0, <1>6, EditInv DEF Refresh, ReadsWell, Listed
<1>7. CASE \E i \in Ids : Delete(i)
  <2>1. PICK i \in Ids : Delete(i)
    BY <1>7
  <2> USE DEF IInv, Delete, Begin, ReadsWell, disk
  <2>2. TypeOK'
    BY <2>1 DEF TypeOK, Operations, DoomedBy
  <2>3. Table' /\ Adds' /\ Edits' /\ Keeps' /\ Whole'
    BY <2>1 DEF Table, Adding, Adds, Edits, Keeps, Whole
  <2>4. OnDisk'
    BY <2>1 DEF OnDisk, Listed, In, Table
  <2>5. Deletes'
    BY <2>1 DEF Deletes, DoomedBy, Listed, In
  <2>6. Single(index)' /\ Single(draft)'
    BY <2>1 DEF Single, In, Unlisted
  <2> QED
    BY <2>2, <2>3, <2>4, <2>5, <2>6
<1>8. CASE \E i \in Ids : SetActive(i)
  BY <1>8, ActiveInv DEF SetActive, FirstStep
<1>9. CASE ResetActive
  BY <1>9, ActiveInv DEF ResetActive, FirstStep
<1>10. CASE Rollback
  BY <1>10, ActiveInv DEF Rollback
<1> QED
  BY <1>1, <1>2, <1>3, <1>4, <1>5, <1>6, <1>7, <1>8, <1>9, <1>10 DEF Begins

-----------------------------------------------------------------------------
\* An operation that ends where the registry may change no more, or that
\* was cut short and noted so, keeps the invariant.
LEMMA DoneInv ==
  ASSUME IInv, Done,
         index' \in {index, draft}, files' \in SUBSET Ids,
         cut \subseteq cut', cut' \subseteq Ids,
         \A i \in Ids : Listed(i)' => i \in files' \/ i \in cut',
         activeId' \in Ids \cup {NoId},
         active' \in Ids \cup {Absent, Cut, Minimal},
         bak' \in Ids \cup {Absent, Cut, Minimal},
         faults' \in 0 .. MaxFaults,
         faults' = 0 => active' # Cut /\ bak' # Cut
  PROVE  IInv'
<1> USE DEF IInv, Done
<1>1. TypeOK'
  BY EmptyIsEmpty, StoreAssumption DEF TypeOK
<1>2. Table' /\ Adds' /\ Edits' /\ Deletes' /\ Keeps' /\ Whole'
  BY DEF Table, Adding, Adds, Edits, Deletes, Keeps, Whole
<1>3. OnDisk'
  BY DEF OnDisk
<1>4. Single(draft)'
  BY EmptyIsEmpty DEF Single, In
<1>5. Single(index)'
  BY DEF Single, In
<1> QED
  BY <1>1, <1>2, <1>3, <1>4, <1>5

\* Each change an operation makes to the disk keeps the invariant.
LEMMA ChangesInv == IInv /\ Changes => IInv'
<1> SUFFICES ASSUME IInv, Changes PROVE IInv'
  OBVIOUS
<1> USE DEF IInv
<1>1. CASE WriteFile
  <2> USE <1>1 DEF WriteFile, GoOn
  <2>1. target \in Ids
    BY DEF Table, Adding
  <2>2. TypeOK'
    BY <2>1 DEF TypeOK
  <2>3. Table' /\ Edits' /\ Deletes' /\ Keeps' /\ Whole'
    BY DEF Table, Adding, Edits, Deletes, Keeps, Whole, Listed, In
  <2>4. OnDisk'
    BY DEF OnDisk, Listed, In, Table, DoomedBy
  <2>5. Adds'
    BY DEF Adds, Adding, Listed, In
  <2>6. Single(index)' /\ Single(draft)'
    BY DEF Single, In
  <2> QED
    BY <2>2, <2>3, <2>4, <2>5, <2>6
<1>2. CASE WriteIndex
  <2> USE <1>2 DEF WriteIndex
  <2>1. \A i \in Ids : In(i, draft) => i \in files \/ i \in cut
    <3>1. CASE op = "delete"
      BY <3>1 DEF Deletes, OnDisk, Listed, In, Unlisted
    <3>2. CASE Adding
      BY <3>2 DEF Adds, OnDisk, Adding
    <3>3. CASE op \in {"update", "setSection", "refresh"}
      BY <3>3 DEF Edits, OnDisk
    <3> QED
      BY <3>1, <3>2, <3>3 DEF Table, Adding, TypeOK, Operations
  <2>2. CASE op = "delete" /\ activeId = target
    <3> USE <2>2 DEF GoOn
    <3>1. TypeOK'
      BY DEF TypeOK
    <3>2. Table' /\ Adds' /\ Edits' /\ Deletes' /\ Keeps' /\ Whole'
      BY DEF Table, Adding, Adds, Edits, Deletes, Keeps, Whole
    <3>3. OnDisk'
      BY <2>1 DEF OnDisk, Listed, In
    <3>4. Single(index)' /\ Single(draft)'
      BY DEF Single, In
    <3> QED
      BY <3>1, <3>2, <3>3, <3>4
  <2>3. CASE ~(op = "delete" /\ activeId = target)
    BY <2>1, <2>3, DoneInv DEF Finish, TypeOK, Listed, In, Whole
  <2> QED
    BY <2>2, <2>3
<1>3. CASE RemoveFile
  <2> USE <1>3 DEF RemoveFile
  <2>1. op = "delete"
    BY DEF Table, Adding, TypeOK, Operations
  <2>2. CASE doomed = {}
    <3> USE <2>1, <2>2 DEF GoOn
    <3>1. TypeOK'
      BY DEF TypeOK
    <3>2. Table' /\ Adds' /\ Edits' /\ Keeps' /\ Whole'
      BY DEF Table, Adding, Adds, Edits, Keeps, Whole
    <3>3. OnDisk' /\ Deletes'
      BY DEF OnDisk, Deletes, Listed, In, DoomedBy
    <3>4. Single(index)' /\ Single(draft)'
      BY DEF Single, In
    <3> QED
      BY <3>1, <3>2, <3>3, <3>4
  <2>3. CASE doomed # {}
    <3>1. PICK d \in doomed : doomed' = doomed \ {d} /\ files' = files \ {d}
      BY <2>3
    <3>2. UNCHANGED <<op, step, target, draft, misread, cut, faults>>
      BY <2>3
    <3> USE <2>1, <3>1, <3>2
    <3>3. TypeOK'
      BY DEF TypeOK
    <3>4. Table' /\ Adds' /\ Edits' /\ Keeps' /\ Whole'
      BY DEF Table, Adding, Adds, Edits, Keeps, Whole
    <3>5. OnDisk' /\ Deletes'
      BY DEF OnDisk, Deletes, Listed, In, DoomedBy
    <3>6. Single(index)' /\ Single(draft)'
      BY DEF Single, In
    <3> QED
      BY <3>3, <3>4, <3>5, <3>6
  <2> QED
    BY <2>2, <2>3
<1>4. CASE Undo
  <2> USE <1>4 DEF Undo, Finish
  <2>1. Adding /\ ~Listed(target)
    BY DEF Table, Adding, Adds, TypeOK, Operations
  <2>2. \A i \in Ids : Listed(i) => i \in files' \/ i \in cut
    BY <2>1 DEF OnDisk, Adding
  <2> QED
    BY <2>2, DoneInv DEF TypeOK, Listed, In, Whole
<1>5. CASE BackUp
  <2> USE <1>5 DEF BackUp, GoOn
  <2>1. op \in {"setActive", "reset"}
    BY DEF Table, Adding, TypeOK, Operations
  <2>2. TypeOK'
    BY DEF TypeOK
  <2>3. Table' /\ Adds' /\ Edits' /\ Deletes' /\ Keeps' /\ Whole'
    BY <2>1 DEF Table, Adding, Adds, Edits, Deletes, Keeps, Whole
  <2>4. OnDisk'
    BY <2>1 DEF OnDisk, Listed, In
  <2>5. Single(index)' /\ Single(draft)'
    BY DEF Single, In
  <2> QED
    BY <2>2, <2>3, <2>4, <2>5
<1>6. CASE WriteActive
  <2> USE <1>6 DEF WriteActive, GoOn
  <2>1. /\ op \in {"setActive", "reset"}
        /\ op = "setActive" => target \in Ids
    BY DEF Table, Adding, TypeOK, Operations
  <2>2. TypeOK'
    BY <2>1 DEF TypeOK
  <2>3. Table' /\ Adds' /\ Edits' /\ Deletes' /\ Keeps' /\ Whole'
    BY <2>1, StoreAssumption
    DEF Table, Adding, Adds, Edits, Deletes, Keeps, Whole
  <2>4. OnDisk'
    BY <2>1 DEF OnDisk, Listed, In
  <2>5. Single(index)' /\ Single(draft)'
    BY DEF Single, In
  <2> QED
    BY <2>2, <2>3, <2>4, <2>5
<1>7. CASE WriteState
  <2> USE <1>7 DEF WriteState, Finish
  <2>1. op = "setActive" => target \in Ids
    BY DEF Table
  <2>2. \A i \in Ids : Listed(i) => i \in files \/ i \in cut
    BY DEF OnDisk
  <2> QED
    BY <2>1, <2>2, DoneInv DEF TypeOK, Listed, In, Whole
<1>8. CASE Restore
  <2> USE <1>8 DEF Restore, Finish
  <2>1. \A i \in Ids : Listed(i) => i \in files \/ i \in cut
    BY DEF OnDisk
  <2> QED
    BY <2>1, DoneInv DEF TypeOK, Listed, In, Whole
<1> QED
  BY <1>1, <1>2, <1>3, <1>4, <1>5, <1>6, <1>7, <1>8 DEF Changes

\* A failed change and a crash at any step keep the invariant.
LEMMA FaultyInv == IInv /\ Faulty => IInv'
<1> SUFFICES ASSUME IInv, Faulty PROVE IInv'
  OBVIOUS
<1> USE DEF IInv
<1>1. faults' \in 0 .. MaxFaults /\ faults' # 0
  BY StoreAssumption
  DEF Faulty, ReturnError, UndoOnError, SkipRemove, SkipBackUp, CutRestore,
      Crash, Fault, TypeOK
<1>2. \A i \in Ids : Listed(i) => i \in files \/ i \in CutShort
  BY DEF OnDisk, CutShort
<1>3. CutShort \in SUBSET Ids /\ cut \subseteq CutShort
  BY DEF CutShort, DoomedBy, TypeOK, Table
<1>4. CASE ReturnError
  BY <1>1, <1>2, <1>3, <1>4, DoneInv DEF ReturnError, disk, TypeOK, Listed, In
<1>5. CASE Crash
  BY <1>1, <1>2, <1>3, <1>5, DoneInv DEF Crash, TypeOK, Listed, In
<1>6. CASE CutRestore
  <2>1. CutShort = cut
    BY <1>6 DEF CutRestore, CutShort, Table
  <2> QED
    BY <1>1, <1>2, <1>6, <2>1, DoneInv DEF CutRestore, TypeOK, Listed, In
<1>7. CASE UndoOnError
  <2> USE <1>1, <1>7 DEF UndoOnError, disk
  <2>1. TypeOK'
    BY DEF TypeOK
  <2>2. Table' /\ Edits' /\ Deletes' /\ Keeps' /\ Whole'
    BY DEF Table, Adding, Edits, Deletes, Keeps, Whole
  <2>3. OnDisk' /\ Adds'
    BY DEF OnDisk, Adds, Adding, Listed, In
  <2>4. Single(index)' /\ Single(draft)'
    BY DEF Single, In
  <2> QED
    BY <2>1, <2>2, <2>3, <2>4
<1>8. CASE SkipRemove
  <2> USE <1>1, <1>8 DEF SkipRemove, disk
  <2>1. TypeOK'
    BY DEF TypeOK
  <2>2. Table' /\ Adds' /\ Edits' /\ Keeps' /\ Whole'
    BY DEF Table, Adding, Adds, Edits, Keeps, Whole, Listed, In
  <2>3. OnDisk' /\ Deletes'
    BY DEF OnDisk, Deletes, Listed, In, DoomedBy
  <2>4. Single(index)' /\ Single(draft)'
    BY DEF Single, In
  <2> QED
    BY <2>1, <2>2, <2>3, <2>4
<1>9. CASE SkipBackUp
  <2> USE <1>1, <1>9 DEF SkipBackUp
  <2>1. op \in {"setActive", "reset"}
    BY DEF Table, Adding, TypeOK, Operations
  <2>2. TypeOK'
    BY DEF TypeOK
  <2>3. Table' /\ Adds' /\ Edits' /\ Deletes' /\ Keeps' /\ Whole'
    BY <2>1 DEF Table, Adding, Adds, Edits, Deletes, Keeps, Whole
  <2>4. OnDisk'
    BY <2>1 DEF OnDisk, Listed, In
  <2>5. Single(index)' /\ Single(draft)'
    BY DEF Single, In
  <2> QED
    BY <2>2, <2>3, <2>4, <2>5
<1> QED
  BY <1>4, <1>5, <1>6, <1>7, <1>8, <1>9 DEF Faulty

\* The inductive invariant holds in every reachable state.
LEMMA Invariance == Spec => []IInv
<1>1. Init => IInv
  BY InitInv
<1>2. IInv /\ [Next]_vars => IInv'
  <2>1. CASE UNCHANGED vars
    BY <2>1
    DEF vars, disk, job, IInv, TypeOK, Table, Adding, OnDisk, DoomedBy, Adds,
        Edits, Deletes, Keeps, Single, Whole, Listed, In
  <2> QED
    BY <2>1, BeginsInv, ChangesInv, FaultyInv DEF Next
<1> QED
  BY <1>1, <1>2, PTL DEF Spec

-----------------------------------------------------------------------------
\* Every variable keeps its type.
THEOREM TypeCorrect == Spec => []TypeOK
  BY Invariance, PTL DEF IInv

\* A crash or a failed write at any point of any operation, in any number,
\* leaves a listed profile without its file only if a Delete was taking it.
THEOREM FilesKept == Spec => []ListedHasFile
<1>1. IInv => ListedHasFile
  BY DEF IInv, OnDisk, ListedHasFile
<1> QED
  BY <1>1, Invariance, PTL

\* However operations and faults alternate, no base ever has two overlays of
\* the visual editor, misread indexes included.
THEOREM OverlaysUnique == Spec => []OneManagedOverlay
<1>1. IInv => OneManagedOverlay
  BY DEF IInv, Single, Listed, OneManagedOverlay
<1> QED
  BY <1>1, Invariance, PTL

\* Only a Delete, or the overwriting of an index that could not be read,
\* takes a profile off the registry.
THEOREM ForgottenOnlyByDelete == Spec => OnlyDeleteForgets
<1>1. IInv /\ [Next]_vars =>
        [\A i \in Ids : Listed(i) /\ ~Listed(i)' =>
           misread \/ (op = "delete" /\ i \in DoomedBy(target))]_vars
  <2> SUFFICES ASSUME IInv, Next, NEW i \in Ids, Listed(i), ~Listed(i)'
               PROVE  misread \/ (op = "delete" /\ i \in DoomedBy(target))
    BY DEF vars
  <2>1. WriteIndex
    BY DEF Next, Begins, Changes, Faulty, ResetActive, Rollback, Create,
           Import, Update, SetSection, Refresh, Delete, SetActive, Duplicate,
           BeginNew, WriteFile, RemoveFile, Undo, BackUp, WriteActive,
           WriteState, Restore, ReturnError, UndoOnError, SkipRemove,
           SkipBackUp, CutRestore, Crash, disk, Listed, In
  <2>2. ~In(i, draft)
    BY <2>1 DEF WriteIndex, Listed, In
  <2>3. CASE op = "delete"
    BY <2>1, <2>2, <2>3 DEF WriteIndex, IInv, Deletes, Listed, In
  <2>4. CASE op # "delete"
    BY <2>1, <2>2, <2>4 DEF WriteIndex, IInv, TypeOK, Table, Keeps
  <2> QED
    BY <2>3, <2>4
<1> QED
  BY <1>1, Invariance, PTL DEF Spec, OnlyDeleteForgets

\* The first fault, wherever it strikes, leaves a whole configuration in
\* active.yaml or in the snapshot.
THEOREM CopyKept == Spec => FirstFaultKeepsACopy
<1>1. IInv /\ [Next]_vars =>
        [faults = 0 /\ faults' = 1 /\ active' = Cut
           => bak' \notin {Absent, Cut}]_vars
  <2> SUFFICES ASSUME IInv, Next, faults = 0, faults' = 1, active' = Cut
               PROVE  bak' \notin {Absent, Cut}
    BY DEF vars
  <2>1. active # Cut /\ bak # Cut
    BY DEF IInv, Whole
  <2>2. CASE Begins
    BY <2>1, <2>2
    DEF Begins, ResetActive, Rollback, Create, Import, Update, SetSection,
        Refresh, Delete, SetActive, Duplicate, BeginNew, disk
  <2>3. CASE Changes
    BY <2>3
    DEF Changes, WriteFile, WriteIndex, RemoveFile, Undo, BackUp,
        WriteActive, WriteState, Restore, GoOn, Finish
  <2>4. CASE Faulty
    <3>1. step = "restore" /\ bak' = bak
      BY <2>1, <2>4
      DEF Faulty, ReturnError, UndoOnError, SkipRemove, SkipBackUp,
          CutRestore, Crash, disk
    <3> QED
      BY <2>1, <3>1 DEF IInv, Whole
  <2> QED
    BY <2>2, <2>3, <2>4 DEF Next
<1> QED
  BY <1>1, Invariance, PTL DEF Spec, FirstFaultKeepsACopy

-----------------------------------------------------------------------------
\* What is being activated is listed, as nothing but its activation happens
\* meanwhile, and an index is misread only by a fault.
Named == (op = "setActive" => Listed(target)) /\ (misread => faults # 0)

LEMMA NamedStep == IInv /\ Named /\ [Next]_vars => Named'
<1> SUFFICES ASSUME IInv, Named, [Next]_vars
             PROVE  Named'
  OBVIOUS
<1>1. faults \in Nat
  BY DEF IInv, TypeOK
<1>2. CASE UNCHANGED vars
  BY <1>2 DEF vars, disk, job, Named, Listed, In
<1>3. CASE Begins
  <2>1. faults' = faults \/ faults' = faults + 1
    BY <1>3 DEF Begins, ResetActive, Rollback, Create, Import, Update,
         SetSection, Refresh, Delete, SetActive, Duplicate, Reads, ReadsWell
  <2>2. misread' => faults' = faults + 1
    BY <1>3 DEF Begins, ResetActive, Rollback, Create, Import, Update,
         SetSection, Refresh, Delete, SetActive, Duplicate, Reads, ReadsWell
  <2>3. op' = "setActive" => Listed(target)'
    BY <1>3 DEF Begins, Begin, ResetActive, Rollback, Create, Import, Update,
         SetSection, Refresh, Delete, SetActive, Duplicate, BeginNew,
         Composable, disk, Listed, In
  <2> QED
    BY <1>1, <2>1, <2>2, <2>3 DEF Named
<1>4. CASE Changes
  <2>1. op' = "setActive" => op = "setActive" /\ target' = target
    BY <1>4 DEF Changes, WriteFile, WriteIndex, RemoveFile, Undo, BackUp,
         WriteActive, WriteState, Restore, GoOn, Finish, Done
  <2>2. step = "index" => op # "setActive"
    BY DEF IInv, Table
  <2>3. step = "index" \/ index' = index
    BY <1>4 DEF Changes, WriteFile, WriteIndex, RemoveFile, Undo, BackUp,
         WriteActive, WriteState, Restore
  <2>4. faults' = faults /\ (misread' => misread)
    BY <1>4 DEF Changes, WriteFile, WriteIndex, RemoveFile, Undo, BackUp,
         WriteActive, WriteState, Restore, GoOn, Finish, Done
  <2> QED
    BY <2>1, <2>2, <2>3, <2>4 DEF Named, Listed, In
<1>5. CASE Faulty
  <2>1. faults' = faults + 1
    BY <1>5 DEF Faulty, ReturnError, UndoOnError, SkipRemove, SkipBackUp,
         CutRestore, Crash, Fault
  <2>2. /\ index' = index
        /\ op' = "setActive" => op = "setActive" /\ target' = target
    BY <1>5 DEF Faulty, ReturnError, UndoOnError, SkipRemove, SkipBackUp,
         CutRestore, Crash, Done, disk
  <2> QED
    BY <1>1, <2>1, <2>2 DEF Named, Listed, In
<1> QED
  BY <1>2, <1>3, <1>4, <1>5 DEF Next

\* While nothing fails, the active profile is lost only with its base: every
\* other way out of the registry takes its name out of state.json as well.
THEOREM ActiveLost == Spec => ActiveLostOnlyByCascade
<1>1. Init => Named
  BY DEF Init, Named
<1>2. IInv /\ Named /\ [Next]_vars =>
        [op' = "none" /\ faults' = 0 /\ activeId' # NoId /\ ~Listed(activeId)'
           => activeId' = activeId
                /\ \/ ~Listed(activeId)
                   \/ op = "delete" /\ index[activeId].base = target]_vars
  <2> SUFFICES ASSUME IInv, Named, Next, op' = "none", faults' = 0,
                      activeId' # NoId, ~Listed(activeId)'
               PROVE  activeId' = activeId
                        /\ \/ ~Listed(activeId)
                           \/ op = "delete" /\ index[activeId].base = target
    OBVIOUS
  <2>1. ~Begins
    BY DEF Begins, Begin, ResetActive, Rollback, Create, Import, Update,
         SetSection, Refresh, Delete, SetActive, Duplicate, BeginNew
  <2>2. ~Faulty
    <3>1. faults + 1 # 0
      BY DEF IInv, TypeOK
    <3> QED
      BY <3>1 DEF Faulty, ReturnError, UndoOnError, SkipRemove, SkipBackUp,
           CutRestore, Crash, Fault
  <2>3. Changes
    BY <2>1, <2>2 DEF Next
  <2>4. ~(WriteFile \/ RemoveFile \/ BackUp \/ WriteActive)
    BY DEF WriteFile, RemoveFile, BackUp, WriteActive, GoOn, IInv, Table
  <2>5. CASE Undo \/ Restore
    BY <2>5 DEF Undo, Restore, Listed, In
  <2>6. CASE WriteState
    BY <2>6 DEF WriteState, Named, Listed, In
  <2>7. CASE WriteIndex
    <3>1. activeId' = activeId /\ ~In(activeId, draft) /\ faults = 0 /\ ~misread
          /\ step = "index" /\ op # "none"
      BY <2>7 DEF WriteIndex, GoOn, Finish, Named, Listed, In, IInv, Table
    <3>2. activeId \in Ids
      BY <3>1 DEF IInv, TypeOK
    <3>3. CASE op = "delete"
      <4>1. activeId # target
        BY <2>7, <3>3 DEF WriteIndex, GoOn
      <4>2. activeId \in DoomedBy(target) \/ draft[activeId] = index[activeId]
        BY <3>1, <3>2, <3>3 DEF IInv, Deletes
      <4> QED
        BY <3>1, <3>3, <4>1, <4>2 DEF DoomedBy, Listed, In
    <3>4. CASE op # "delete"
      BY <3>1, <3>2, <3>4 DEF IInv, Keeps
    <3> QED
      BY <3>3, <3>4
  <2> QED
    BY <2>3, <2>4, <2>5, <2>6, <2>7 DEF Changes
<1> QED
  BY <1>1, <1>2, NamedStep, Invariance, PTL DEF Spec, ActiveLostOnlyByCascade

-----------------------------------------------------------------------------
(* The registry that changes one call at a time. *)

\* What the operation takes the registry for.
Seen == IF misread THEN EmptyIndex ELSE index

\* A draft with the target added to what was seen.
Added ==
  /\ draft = [Seen EXCEPT ![target] = draft[target]]
  /\ Abstract!Acceptable(draft[target])
  /\ draft[target].managed => Managed(draft[target].base, Seen) = {}

Switched ==
  /\ Listed(target)
  /\ \E on \in BOOLEAN : draft = [index EXCEPT ![target].enabled = on]

\* What an operation is going to write is what its call asks for: the other parts
\* of the invariant say which profiles a draft lists, this one what it says of them.
Drafts ==
  /\ Adding /\ step \in {"file", "index"} => Added
  /\ op = "update" => Switched
  /\ op = "setSection" => draft = Seen
  /\ op = "refresh" => draft = index
  /\ op = "delete" /\ step \in {"remove", "index"} => Listed(target)
  /\ op = "setActive" => Listed(target) /\ index[target].type # "merge"
  /\ ~(Adding \/ op = "setSection") => ~misread

\* The two modules mean the same by an entry.
LEMMA SameEntries ==
  /\ Abstract!Meta = Meta
  /\ Abstract!Unlisted = Unlisted
  /\ Abstract!Nobody = EmptyIndex
  /\ \A i \in Ids : Abstract!Has(i) <=> Listed(i)
  BY DEF Abstract!Meta, Meta, Abstract!Unlisted, Unlisted, Abstract!Nobody,
         EmptyIndex, Abstract!Has, Listed, In

\* While an operation goes on and the registry stays, so does its draft.
LEMMA DraftsKept ==
  ASSUME Drafts, UNCHANGED <<index, op, target, draft, misread>>,
         \/ step' = step
         \/ step \in {"file", "remove"} /\ step' = "index"
         \/ step' \notin {"file", "remove", "index"},
         op = "delete" => step # "file", Adding => step # "remove"
  PROVE  Drafts'
<1>1. Seen' = Seen
  BY DEF Seen
<1>2. Adding' = Adding
  BY DEF Adding
<1>3. Listed(target)' = Listed(target)
  BY DEF Listed, In
<1>4. Added => Added'
  BY <1>1 DEF Added, Abstract!Acceptable, Abstract!Has, Managed, In
<1>5. Switched => Switched'
  BY <1>3 DEF Switched
<1> QED
  BY <1>1, <1>2, <1>3, <1>4, <1>5 DEF Drafts

\* An operation that is over has none.
LEMMA DraftsDone ==
  ASSUME Done
  PROVE  Drafts'
  BY DEF Done, Drafts, Adding

\* Beginning to add a profile drafts it.
LEMMA AddDraft ==
  ASSUME IInv, NEW o \in {"create", "duplicate", "import"}, NEW i \in Ids,
         NEW m \in Meta, NEW seen \in {index, EmptyIndex},
         Abstract!Acceptable(m), m.managed => Managed(m.base, seen) = {},
         Reads(seen), BeginNew(o, i, m, seen)
  PROVE  Drafts'
<1>1. /\ op' = o /\ step' = "file" /\ target' = i
      /\ draft' = [seen EXCEPT ![i] = m] /\ index' = index
  BY DEF BeginNew, Begin, disk
<1>2. seen \in [Ids -> Meta \cup {Unlisted}]
  BY ReadsRegistry DEF IInv
<1>3. draft'[i] = m
  BY <1>1, <1>2
<1>4. Seen' = seen
  BY <1>1 DEF Reads, Seen
<1>5. Added'
  BY <1>1, <1>3, <1>4 DEF Added, Abstract!Acceptable, Abstract!Has, Managed, In
<1>6. Adding'
  BY <1>1 DEF Adding
<1> QED
  BY <1>1, <1>5, <1>6 DEF Drafts

\* What an operation drafts when it begins is what its call asks for.
LEMMA BeginsDraft == IInv /\ Begins => Drafts'
<1> SUFFICES ASSUME IInv, Begins PROVE Drafts'
  OBVIOUS
<1>1. CASE \E i \in Ids : Create(i)
  <2>1. PICK i \in Ids, type \in {"local", "merge"}, managed \in BOOLEAN,
             base \in {NoId, Gone} \cup {j \in Ids : Listed(j)},
             seen \in {index, EmptyIndex} :
               /\ Reads(seen)
               /\ CreateAllowed(New(type, base, managed), seen)
               /\ BeginNew("create", i, New(type, base, managed), seen)
    BY <1>1 DEF Create
  <2>2. New(type, base, managed) \in Meta
    BY DEF New, Meta
  <2>3. Abstract!Acceptable(New(type, base, managed))
    BY <2>1, <2>2, SameEntries DEF Abstract!Acceptable, CreateAllowed, New
  <2> QED
    BY <2>1, <2>2, <2>3, AddDraft DEF CreateAllowed
<1>2. CASE \E i \in Ids : Import(i)
  <2>1. New("remote", NoId, FALSE) \in Meta /\ ~New("remote", NoId, FALSE).managed
    BY DEF New, Meta
  <2>2. Abstract!Acceptable(New("remote", NoId, FALSE))
    BY <2>1, SameEntries DEF Abstract!Acceptable, New
  <2> QED
    BY <1>2, <2>1, <2>2, AddDraft DEF Import
<1>3. CASE \E i, j \in Ids : Duplicate(i, j)
  <2>1. New("local", NoId, FALSE) \in Meta /\ ~New("local", NoId, FALSE).managed
    BY DEF New, Meta
  <2>2. Abstract!Acceptable(New("local", NoId, FALSE))
    BY <2>1, SameEntries DEF Abstract!Acceptable, New
  <2> QED
    BY <1>3, <2>1, <2>2, AddDraft DEF Duplicate
<1>4. CASE \E i \in Ids : Update(i)
  <2>1. PICK i \in Ids, s \in {"file", "index"}, on \in BOOLEAN :
               /\ Listed(i)
               /\ Begin("update", i, s, [index EXCEPT ![i].enabled = on])
               /\ ReadsWell /\ UNCHANGED <<disk, doomed, cut>>
    BY <1>4 DEF Update
  <2>2. Switched'
    BY <2>1 DEF Begin, disk, Switched, Listed, In
  <2> QED
    BY <2>1, <2>2 DEF Begin, ReadsWell, Drafts, Adding
<1>5. CASE \E i \in Ids : SetSection(i)
  BY <1>5 DEF SetSection, Begin, Reads, Seen, Drafts, Adding, disk
<1>6. CASE \E i \in Ids : Refresh(i)
  BY <1>6 DEF Refresh, Begin, ReadsWell, Drafts, Adding, disk
<1>7. CASE \E i \in Ids : Delete(i)
  BY <1>7 DEF Delete, Begin, ReadsWell, Drafts, Adding, disk, Listed, In
<1>8. CASE \E i \in Ids : SetActive(i)
  BY <1>8 DEF SetActive, Composable, Begin, ReadsWell, Drafts, Adding, disk,
              Listed, In
<1>9. CASE ResetActive \/ Rollback
  BY <1>9 DEF ResetActive, Rollback, Begin, ReadsWell, Drafts, Adding
<1> QED
  BY <1>1, <1>2, <1>3, <1>4, <1>5, <1>6, <1>7, <1>8, <1>9 DEF Begins

\* No step of an operation changes its draft.
LEMMA DraftsStep == IInv /\ Drafts /\ [Next]_vars => Drafts'
<1> SUFFICES ASSUME IInv, Drafts, [Next]_vars PROVE Drafts'
  OBVIOUS
<1>1. /\ op = "delete" => step # "file"
      /\ Adding => step # "remove"
  BY DEF IInv, Table
<1>2. CASE UNCHANGED vars
  BY <1>1, <1>2, DraftsKept DEF vars, disk, job
<1>3. CASE Begins
  BY <1>3, BeginsDraft
<1>4. CASE Changes
  <2>1. CASE WriteFile \/ RemoveFile \/ BackUp \/ WriteActive
    BY <1>1, <2>1, DraftsKept DEF WriteFile, RemoveFile, BackUp, WriteActive, GoOn
  <2>2. CASE Undo \/ WriteState \/ Restore
    BY <2>2, DraftsDone DEF Undo, WriteState, Restore, Finish
  <2>3. CASE WriteIndex
    <3>1. CASE op = "delete" /\ activeId = target
      BY <2>3, <3>1 DEF WriteIndex, GoOn, Drafts, Adding
    <3>2. CASE ~(op = "delete" /\ activeId = target)
      BY <2>3, <3>2, DraftsDone DEF WriteIndex, Finish
    <3> QED
      BY <3>1, <3>2
  <2> QED
    BY <1>4, <2>1, <2>2, <2>3 DEF Changes
<1>5. CASE Faulty
  <2>1. CASE ReturnError \/ CutRestore \/ Crash
    BY <2>1, DraftsDone DEF ReturnError, CutRestore, Crash
  <2>2. CASE UndoOnError \/ SkipRemove \/ SkipBackUp
    BY <1>1, <2>2, DraftsKept DEF UndoOnError, SkipRemove, SkipBackUp, disk
  <2> QED
    BY <1>5, <2>1, <2>2 DEF Faulty
<1> QED
  BY <1>2, <1>3, <1>4, <1>5 DEF Next

\* The write of the index is where a call takes effect.
LEMMA WriteIndexMaps ==
  ASSUME IInv, Drafts, WriteIndex
  PROVE  Abstract!RegistryNext \/ UNCHANGED Abstract!registry
<1>1. /\ index' = draft /\ activeId' = activeId /\ step = "index"
      /\ op # "delete" => misread' = FALSE
      /\ op = "delete" => misread' = misread \/ misread' = FALSE
  BY DEF WriteIndex, GoOn, Finish, Done
<1>2. /\ index \in [Ids -> Meta \cup {Unlisted}]
      /\ draft \in [Ids -> Meta \cup {Unlisted}]
      /\ misread \in BOOLEAN
  BY DEF IInv, TypeOK
<1>3. /\ op \in {"create", "duplicate", "import", "update", "setSection",
                "refresh", "delete"}
      /\ target \in Ids
  BY <1>1 DEF IInv, Table, Adding, TypeOK, Operations
<1>4. CASE Adding
  <2>1. Added /\ ~Listed(target)
    BY <1>1, <1>4 DEF Drafts, IInv, Adds
  <2> DEFINE m == draft[target]
  <2>2. /\ Abstract!Acceptable(m)
        /\ m \in Meta
        /\ index' = [Seen EXCEPT ![target] = m]
        /\ m.managed => Managed(m.base, Seen) = {}
    BY <1>1, <2>1, SameEntries DEF Added, Abstract!Acceptable
  <2>3. misread' = FALSE
    BY <1>1, <1>4 DEF Adding
  <2> HIDE DEF m
  <2>4. CASE ~misread
    <3>1. Seen = index
      BY <2>4 DEF Seen
    <3>2. m.managed => Abstract!Unmanaged(m.base)
      BY <2>2, <3>1, SameEntries DEF Abstract!Unmanaged, Managed, Listed
    <3>3. Abstract!Add(target)
      <4>1. misread' = misread
        BY <1>2, <2>3, <2>4
      <4>2. index' = [index EXCEPT ![target] = m] /\ activeId' = activeId /\ m \in Meta
        BY <1>1, <2>2, <3>1
      <4>3. ~Abstract!Has(target)
        BY <1>3, <2>1, SameEntries
      <4> QED
        BY <2>2, <2>4, <3>2, <4>1, <4>2, <4>3, SameEntries DEF Abstract!Add
    <3> QED
      BY <1>3, <3>3 DEF Abstract!RegistryNext
  <2>5. CASE misread
    <3>1. Seen = Abstract!Nobody
      BY <2>5, SameEntries DEF Seen
    <3>2. Abstract!Overwrite
      BY <1>1, <1>3, <2>1, <2>2, <2>3, <2>5, <3>1, SameEntries DEF Abstract!Overwrite
    <3> QED
      BY <3>2 DEF Abstract!RegistryNext
  <2> QED
    BY <2>4, <2>5
<1>5. CASE op = "update"
  <2>1. Switched /\ ~misread /\ misread' = FALSE
    BY <1>1, <1>5 DEF Drafts, Adding
  <2>2. Abstract!Switch(target)
    BY <1>1, <1>2, <1>3, <2>1, SameEntries DEF Switched, Abstract!Switch
  <2> QED
    BY <1>3, <2>2 DEF Abstract!RegistryNext
<1>6. CASE op = "setSection"
  <2>1. index' = Seen /\ misread' = FALSE
    BY <1>1, <1>6 DEF Drafts
  <2>2. CASE ~misread
    BY <1>1, <1>2, <2>1, <2>2 DEF Seen, Abstract!registry
  <2>3. CASE misread
    BY <1>1, <2>1, <2>3, SameEntries DEF Seen, Abstract!Overwrite, Abstract!RegistryNext
  <2> QED
    BY <2>2, <2>3
<1>7. CASE op = "refresh"
  BY <1>1, <1>2, <1>7 DEF Drafts, Adding, Abstract!registry
<1>8. CASE op = "delete"
  <2>1. Listed(target) /\ ~misread /\ misread' = misread
    BY <1>1, <1>2, <1>8 DEF Drafts, Adding
  <2>2. \A j \in Ids :
          draft[j] = IF j = target \/ index[j].base = target THEN Unlisted ELSE index[j]
    <3> SUFFICES ASSUME NEW j \in Ids
                 PROVE  draft[j] = IF j = target \/ index[j].base = target
                                     THEN Unlisted ELSE index[j]
      OBVIOUS
    <3>1. draft[j] = IF j \in DoomedBy(target) THEN Unlisted ELSE index[j]
      BY <1>1, <1>8 DEF IInv, Deletes
    <3>2. ~Listed(j) => index[j] = Unlisted
      BY <1>2, Entry DEF Listed
    <3> QED
      BY <3>1, <3>2 DEF DoomedBy
  <2>3. index' = [j \in Ids |-> IF j = target \/ index[j].base = target
                                  THEN Unlisted ELSE index[j]]
    BY <1>1, <1>2, <2>2
  <2>4. Abstract!Remove(target)
    BY <1>1, <1>3, <2>1, <2>3, SameEntries DEF Abstract!Remove
  <2> QED
    BY <1>3, <2>4 DEF Abstract!RegistryNext
<1> QED
  BY <1>3, <1>4, <1>5, <1>6, <1>7, <1>8 DEF Adding

\* The store is a registry that changes one call at a time, however many files a
\* call writes and wherever it crashes or fails, for any number of profiles and
\* faults: what is added, switched or removed is so at once or never, only what was
\* accepted is added, and what an unreadable index costs is the only loss.
THEOREM StoreImplements == Spec => ImplementsRegistry
<1>1. Init => Drafts /\ Abstract!RegistryInit
  BY SameEntries DEF Init, Drafts, Adding, Abstract!RegistryInit
<1>2. IInv /\ Drafts /\ [Next]_vars => [Abstract!RegistryNext]_(Abstract!registry)
  <2> SUFFICES ASSUME IInv, Drafts, [Next]_vars
               PROVE  Abstract!RegistryNext \/ UNCHANGED Abstract!registry
    OBVIOUS
  <2>1. misread \in BOOLEAN
    BY DEF IInv, TypeOK
  <2>2. CASE WriteIndex
    BY <2>2, WriteIndexMaps
  <2>3. CASE WriteState
    <3>1. /\ index' = index /\ ~misread /\ misread' = FALSE
          /\ activeId' = IF op = "setActive" THEN target ELSE NoId
      BY <2>3 DEF WriteState, Finish, Done, IInv, Table, Adding, Drafts
    <3>2. CASE op = "setActive"
      <4>1. target \in Ids /\ Listed(target) /\ index[target].type # "merge"
        BY <3>2 DEF IInv, Table, Drafts
      <4> QED
        BY <2>1, <3>1, <3>2, <4>1, SameEntries DEF Abstract!Choose, Abstract!RegistryNext
    <3>3. CASE op # "setActive"
      BY <2>1, <3>1, <3>3 DEF Abstract!ChooseNone, Abstract!RegistryNext
    <3> QED
      BY <3>2, <3>3
  <2>4. CASE ~WriteIndex /\ ~WriteState
    <3> DEFINE looks == misread' = misread \/ misread' = TRUE \/ misread' = FALSE
               stays == index' = index /\ activeId' = activeId
    <3>1. stays /\ looks
      <4>1. CASE Begins
        <5>1. stays
          BY <4>1 DEF Begins, ResetActive, Rollback, Create, Import, Update, SetSection,
                      Refresh, Delete, SetActive, Duplicate, BeginNew, disk
        <5>2. looks
          BY <4>1 DEF Begins, ResetActive, Rollback, Create, Import, Update, SetSection,
                      Refresh, Delete, SetActive, Duplicate, Reads, ReadsWell
        <5> QED
          BY <5>1, <5>2
      <4>2. CASE Changes
        BY <2>4, <4>2 DEF Changes, WriteFile, RemoveFile, Undo, BackUp, WriteActive,
                          Restore, GoOn, Finish, Done
      <4>3. CASE Faulty
        BY <4>3 DEF Faulty, ReturnError, UndoOnError, SkipRemove, SkipBackUp, CutRestore,
                    Crash, Done, disk
      <4>4. CASE UNCHANGED vars
        BY <4>4 DEF vars, disk, job
      <4> HIDE DEF looks, stays
      <4> QED
        BY <4>1, <4>2, <4>3, <4>4 DEF Next
    <3> DEFINE maps == Abstract!RegistryNext \/ UNCHANGED Abstract!registry
    <3>2. misread' = misread => maps
      BY <3>1 DEF Abstract!registry
    <3>3. misread = FALSE /\ misread' = TRUE => maps
      BY <3>1 DEF Abstract!Misread, Abstract!RegistryNext
    <3>4. misread = TRUE /\ misread' = FALSE => maps
      BY <3>1 DEF Abstract!GiveUp, Abstract!RegistryNext
    <3>5. /\ misread = TRUE \/ misread = FALSE
          /\ misread' = TRUE \/ misread' = FALSE
      BY <2>1, <3>1
    <3>6. misread = TRUE /\ misread' = TRUE => misread' = misread
      BY Zenon
    <3>7. misread = FALSE /\ misread' = FALSE => misread' = misread
      BY Zenon
    <3> HIDE DEF maps
    <3>8. maps
      BY <3>2, <3>3, <3>4, <3>5, <3>6, <3>7
    <3> QED
      BY <3>8 DEF maps
  <2> QED
    BY <2>2, <2>3, <2>4
<1> QED
  BY <1>1, <1>2, DraftsStep, Invariance, PTL
  DEF Spec, ImplementsRegistry, Abstract!RegistrySpec
=============================================================================
