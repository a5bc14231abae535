------------------------- MODULE ProfilesPageProofs -------------------------
(* Proofs about ProfilesPage, for any number of profiles and of requests.   *)
EXTENDS ProfilesPage, SequenceTheorems, TLAPS

Changes  == Targeted \cup {"import"}
Anybody  == Ids \cup {Nobody}
Shape    == [op : Changes \cup {"none", "list"}, id : Anybody,
             at : {"sent", "read", "done", "orphan"}, list : Seq(Ids),
             stamp : Anybody, old : BOOLEAN]
Requests == {c \in Shape : /\ c.op \in Targeted => c.id \in Ids
                           /\ c.at = "sent" => ~c.old}

(***************************************************************************)
(* The inductive invariant, in named parts.                                *)
(***************************************************************************)

\* The module's types, and the shape that access to fields takes for granted.
Types == TypeOK /\ call \in [Slots -> Requests]

\* Its answer makes the page fetch the list once more, or is yet to be read.
Renewing(c) == \/ c.op \in Changes /\ c.at = "done"
               \/ c.op = "list" /\ c.at = "sent"

\* The newest listing.
Fresh(c) == c.op = "list" /\ c.at \in {"read", "done"} /\ ~c.old

\* The newest listing is what the server has, or is not the last one: a change
\* served since it was read is answered after it or has been answered already.
ListingsTrue ==
  \A k \in Slots : Fresh(call[k]) =>
    \/ \E j \in Slots : Renewing(call[j])
    \/ /\ call[k].list = index
       /\ call[k].at = "done" /\ active \in ToSet(index) =>
            call[k].stamp = active

\* The page shows what the server has, or will: a change is under way, or a
\* listing that is the newest.
PageTrue ==
  \/ outdated
  \/ \E k \in Slots : \/ Renewing(call[k]) \/ Fresh(call[k])
                      \/ call[k].op \in Changes /\ call[k].at = "sent"
  \/ /\ profiles = index
     /\ active \in ToSet(index) => activeID = active

\* The selection under a prompt is what the prompt is about.
PromptTrue ==
  confirmDel => ~importing /\ (replaced \/ (~OffRows /\ SelectedID = asked))

\* The cursor is before the rows only since the table had none.
RowTrue == SelectsARow /\ (cursor = NoRow => emptied)

IInv == Types /\ ListingsTrue /\ PageTrue /\ PromptTrue

-----------------------------------------------------------------------------
(* Lists and requests *)

LEMMA Removed ==
  ASSUME NEW S, NEW s \in Seq(S), NEW i \in DOMAIN s
  PROVE  RemoveAt(s, i) \in Seq(S)
<1>1. i \in 1 .. Len(s) /\ Len(s) \in Nat
  BY LenProperties
<1>2. SubSeq(s, 1, i - 1) \in Seq(S) /\ SubSeq(s, i + 1, Len(s)) \in Seq(S)
  BY <1>1, SubSeqProperties
<1> QED
  BY <1>2, ConcatProperties DEF RemoveAt

LEMMA Listed ==
  ASSUME NEW s \in Seq(Ids), NEW id \in ToSet(s)
  PROVE  id \in Ids /\ id # Nobody
<1>1. PICK i \in DOMAIN s : id = s[i]
  BY DEF ToSet
<1>2. s[i] \in Ids
  BY <1>1, LenProperties, ElementOfSeq
<1> QED
  BY <1>1, <1>2, PageAssumption

LEMMA Sent ==
  /\ Free \in Requests /\ FetchProfiles \in Requests
  /\ ~Fresh(Free) /\ ~Renewing(Free)
  /\ ~Fresh(FetchProfiles) /\ Renewing(FetchProfiles)
<1>1. Free \in Shape
  BY EmptySeq DEF Free, Shape, Anybody, Changes, Targeted
<1>2. FetchProfiles = [Free EXCEPT !.op = "list", !.id = Nobody]
  BY DEF FetchProfiles, Request
<1>3. FetchProfiles \in Shape
  BY <1>1, <1>2 DEF Shape, Anybody
<1>4. Free.op = "none" /\ Free.at = "sent" /\ ~Free.old
  BY DEF Free
<1>5. FetchProfiles.op = "list" /\ FetchProfiles.at = "sent" /\ ~FetchProfiles.old
  BY <1>1, <1>2, <1>4 DEF Shape
<1> QED
  BY <1>1, <1>3, <1>4, <1>5 DEF Requests, Fresh, Renewing, Changes, Targeted

\* Other parts of the invariant do not see a request that is new.
LEMMA Issued ==
  ASSUME Types, NEW op \in Changes, NEW id \in Anybody,
         op \in Targeted => id \in Ids, Issue(op, id)
  PROVE  /\ call' \in [Slots -> Requests]
         /\ \A k \in Slots : Fresh(call'[k]) => call'[k] = call[k]
         /\ \A k \in Slots : Renewing(call[k]) => Renewing(call'[k])
         /\ \E k \in Slots : call'[k].op \in Changes /\ call'[k].at = "sent"
<1> DEFINE r == Request(op, id)
<1>1. Free \in Shape /\ Free.at = "sent" /\ ~Free.old
  BY Sent DEF Requests, Free
<1>2. r = [Free EXCEPT !.op = op, !.id = id]
  BY DEF Request
<1>3. r \in Requests /\ r.op = op /\ r.at = "sent"
  BY <1>1, <1>2 DEF Shape, Requests
<1>4. ~Fresh(r)
  BY <1>3 DEF Fresh
<1> HIDE DEF r
<1>5. PICK k \in Slots : call[k] = Free /\ call' = [call EXCEPT ![k] = r]
  BY DEF Issue, r
<1>6. call' \in [Slots -> Requests]
  BY <1>3, <1>5 DEF Types
<1>7. call'[k] = r /\ \A j \in Slots \ {k} : call'[j] = call[j]
  BY <1>5 DEF Types
<1> QED
  BY <1>3, <1>4, <1>5, <1>6, <1>7, Sent

LEMMA Ages ==
  ASSUME call \in [Slots -> Requests]
  PROVE  /\ Aged \in [Slots -> Requests]
         /\ \A k \in Slots : /\ ~Fresh(Aged[k])
                             /\ Renewing(Aged[k]) <=> Renewing(call[k])
                             /\ Aged[k].op = call[k].op
                             /\ Aged[k].id = call[k].id
                             /\ Aged[k].at = call[k].at
<1> SUFFICES ASSUME NEW k \in Slots
             PROVE  /\ Aged[k] \in Requests /\ ~Fresh(Aged[k])
                    /\ Renewing(Aged[k]) <=> Renewing(call[k])
                    /\ Aged[k].op = call[k].op /\ Aged[k].id = call[k].id
                    /\ Aged[k].at = call[k].at
  BY DEF Aged
<1> DEFINE c == call[k]
<1>1. c \in Requests
  OBVIOUS
<1>2. CASE Listing(k)
  <2>1. Aged[k] = [c EXCEPT !.old = TRUE]
    BY <1>2 DEF Aged
  <2> QED
    BY <1>1, <1>2, <2>1 DEF Listing, Requests, Shape, Fresh, Renewing
<1>3. CASE ~Listing(k)
  <2>1. Aged[k] = c
    BY <1>3 DEF Aged
  <2> QED
    BY <1>1, <1>3, <2>1 DEF Listing, Fresh
<1> QED
  BY <1>2, <1>3

LEMMA ServerTypes ==
  ASSUME Types, NEW c \in Requests, Succeeds(c) \/ Fails(c) \/ UNCHANGED server
  PROVE  index' \in Seq(Ids) /\ active' \in Anybody
<1> USE DEF Types, TypeOK, Anybody
<1>1. CASE Succeeds(c)
  <2>1. CASE c.op = "activate" /\ c.id \in ToSet(index) /\ active' = c.id
             /\ UNCHANGED index
    BY <2>1, Listed
  <2>2. CASE UNCHANGED server
    BY <2>2 DEF server
  <2>3. CASE /\ \E i \in DOMAIN index : index[i] = c.id /\ index' = RemoveAt(index, i)
             /\ active' = IF active = c.id THEN Nobody ELSE active
    BY <2>3, Removed
  <2>4. CASE (\E id \in Ids \ ToSet(index) : index' = Append(index, id))
             /\ UNCHANGED active
    BY <2>4, AppendProperties
  <2> QED
    BY <1>1, <2>1, <2>2, <2>3, <2>4 DEF Succeeds
<1>2. CASE Fails(c)
  BY <1>2, Listed DEF Fails, server
<1>3. CASE UNCHANGED server
  BY <1>3 DEF server
<1> QED
  BY <1>1, <1>2, <1>3

-----------------------------------------------------------------------------
(* The initial state, and a step of every kind *)

LEMMA InitInv == Init => IInv
<1> SUFFICES ASSUME Init PROVE IInv
  OBVIOUS
<1>1. PICK k \in Slots : call = [j \in Slots |-> IF j = k THEN FetchProfiles ELSE Free]
  BY DEF Init
<1>2. call \in [Slots -> Requests] /\ Renewing(call[k])
  BY <1>1, Sent
<1>3. \A j \in Slots : ~Fresh(call[j]) /\ RequestOK(call[j])
  BY <1>1, <1>2, Sent DEF Requests, Shape, RequestOK, Changes, Anybody
<1>4. Types
  BY <1>2, <1>3, EmptySeq DEF Init, NoRow, Types, TypeOK
<1>5. ListingsTrue /\ PageTrue /\ PromptTrue
  BY <1>2, <1>3 DEF Init, ListingsTrue, PageTrue, PromptTrue
<1> QED
  BY <1>4, <1>5 DEF IInv

\* What all steps of the page itself have in common.
LEMMA PageKeeps ==
  ASSUME IInv, UNCHANGED server,
         call' \in [Slots -> Requests],
         \A k \in Slots : Fresh(call'[k]) => call'[k] = call[k],
         \A k \in Slots : Renewing(call[k]) => Renewing(call'[k])
  PROVE  ListingsTrue' /\ \A k \in Slots : RequestOK(call'[k])
<1>1. index' = index /\ active' = active
  BY DEF server
<1>2. ListingsTrue'
  BY <1>1 DEF IInv, ListingsTrue, Renewing, Fresh
<1>3. \A k \in Slots : RequestOK(call'[k])
  BY DEF RequestOK, Requests, Shape, Changes, Anybody
<1> QED
  BY <1>2, <1>3

LEMMA Selects ==
  ASSUME Types, Selected
  PROVE  SelectedID \in Anybody /\ SelectedID \in Ids
<1>1. profiles \in Seq(Ids) /\ profiles # <<>> /\ cursor \in Nat
  BY DEF Types, TypeOK, Selected, SelectedID, OffRows
<1>2. Len(profiles) \in Nat \ {0}
  BY <1>1, LenProperties, EmptySeq
<1> DEFINE last == Len(profiles) - 1
           i == (IF cursor < last THEN cursor ELSE last) + 1
<1>3. i \in 1 .. Len(profiles)
  BY <1>1, <1>2
<1>4. profiles[i] \in Ids
  BY <1>1, <1>3, ElementOfSeq
<1>5. SelectedID = profiles[i]
  BY <1>1 DEF SelectedID
<1> HIDE DEF i
<1> QED
  BY <1>4, <1>5 DEF Anybody

-----------------------------------------------------------------------------
(* Keys *)

LEMMA KeyStep ==
  ASSUME IInv, Key, UNCHANGED ended
  PROVE  IInv'
<1> USE DEF IInv
<1>1. CASE Activate
  <2>1. /\ SelectedID \in Ids /\ Issue("activate", SelectedID)
        /\ UNCHANGED <<server, table, dialogs, history>>
        /\ activeID' = SelectedID
    BY <1>1, Selects DEF Activate
  <2>2. /\ call' \in [Slots -> Requests]
        /\ \A k \in Slots : Fresh(call'[k]) => call'[k] = call[k]
        /\ \A k \in Slots : Renewing(call[k]) => Renewing(call'[k])
        /\ \E k \in Slots : call'[k].op \in Changes /\ call'[k].at = "sent"
    BY <2>1, Issued DEF Changes, Targeted, Anybody
  <2>3. ListingsTrue' /\ \A k \in Slots : RequestOK(call'[k])
    BY <2>1, <2>2, PageKeeps
  <2>4. Types'
    BY <2>1, <2>2, <2>3 DEF Types, TypeOK, server, table, dialogs, history
  <2>5. PageTrue'
    BY <2>2 DEF PageTrue
  <2>6. PromptTrue'
    BY <2>1 DEF PromptTrue, SelectedID, OffRows, table, dialogs, history
  <2> QED
    BY <2>3, <2>4, <2>5, <2>6
<1>2. CASE Refresh
  <2>1. /\ SelectedID \in Ids /\ Issue("refresh", SelectedID)
        /\ UNCHANGED <<server, page, history>>
    BY <1>2, Selects DEF Refresh
  <2>2. /\ call' \in [Slots -> Requests]
        /\ \A k \in Slots : Fresh(call'[k]) => call'[k] = call[k]
        /\ \A k \in Slots : Renewing(call[k]) => Renewing(call'[k])
        /\ \E k \in Slots : call'[k].op \in Changes /\ call'[k].at = "sent"
    BY <2>1, Issued DEF Changes, Targeted, Anybody
  <2>3. ListingsTrue' /\ \A k \in Slots : RequestOK(call'[k])
    BY <2>1, <2>2, PageKeeps
  <2>4. Types'
    BY <2>1, <2>2, <2>3 DEF Types, TypeOK, server, page, table, dialogs, history
  <2>5. PageTrue'
    BY <2>2 DEF PageTrue
  <2>6. PromptTrue'
    BY <2>1 DEF PromptTrue, SelectedID, OffRows, page, table, dialogs, history
  <2> QED
    BY <2>3, <2>4, <2>5, <2>6
<1>3. ASSUME /\ UNCHANGED <<server, profiles, activeID, call, outdated>>
             /\ cursor' \in Nat \cup {NoRow} /\ emptied' \in BOOLEAN
             /\ importing' \in BOOLEAN /\ confirmDel' \in BOOLEAN
             /\ asked' \in Anybody /\ replaced' \in BOOLEAN
             /\ PromptTrue'
      PROVE  IInv'
  <2>1. ListingsTrue' /\ \A k \in Slots : RequestOK(call'[k])
    BY <1>3, PageKeeps DEF Types
  <2>2. Types'
    BY <1>3, <2>1 DEF Types, TypeOK, server, table, Anybody
  <2>3. PageTrue'
    BY <1>3 DEF PageTrue, server
  <2> QED
    BY <1>3, <2>1, <2>2, <2>3
<1>4. CASE AskDelete
  <2>1. PromptTrue'
    BY <1>4 DEF AskDelete, Keys, PromptTrue, Selected, SelectedID, OffRows, table
  <2> QED
    BY <1>3, <1>4, <2>1, Selects DEF AskDelete, Selected, Types, TypeOK, table, Anybody
<1>5. CASE OpenImport
  BY <1>3, <1>5 DEF OpenImport, Keys, PromptTrue, history, SelectedID, OffRows, table,
                    Types, TypeOK, Anybody
<1>6. CASE MoveCursor
  <2>1. cursor' \in Nat \cup {NoRow} /\ emptied' \in BOOLEAN
    <3>1. profiles \in Seq(Ids) /\ Len(profiles) \in Nat
      BY LenProperties DEF Types, TypeOK
    <3>2. cursor' \in Nat \cup {NoRow}
      BY <1>6, <3>1 DEF MoveCursor
    <3>3. emptied' \in BOOLEAN
      BY <1>6 DEF MoveCursor
    <3> QED
      BY <3>2, <3>3
  <2>2. PromptTrue'
    BY <1>6 DEF MoveCursor, Keys, PromptTrue, dialogs
  <2> QED
    BY <1>3, <1>6, <2>1, <2>2
       DEF MoveCursor, dialogs, history, Types, TypeOK, Anybody
<1>7. ASSUME NEW yes \in BOOLEAN, Confirm(yes) PROVE IInv'
  <2>1. PromptTrue'
    BY <1>7 DEF Confirm, PromptTrue
  <2>2. CASE UNCHANGED call
    BY <1>3, <1>7, <2>1, <2>2 DEF Confirm, history, table, Types, TypeOK, Anybody
  <2>3. CASE Selected /\ Issue("delete", SelectedID)
    <3>1. /\ call' \in [Slots -> Requests]
          /\ \A k \in Slots : Fresh(call'[k]) => call'[k] = call[k]
          /\ \A k \in Slots : Renewing(call[k]) => Renewing(call'[k])
          /\ \E k \in Slots : call'[k].op \in Changes /\ call'[k].at = "sent"
      BY <2>3, Selects, Issued DEF Changes, Targeted, Anybody
    <3>2. ListingsTrue' /\ \A k \in Slots : RequestOK(call'[k])
      BY <1>7, <3>1, PageKeeps DEF Confirm
    <3>3. Types'
      BY <1>7, <3>1, <3>2 DEF Confirm, Types, TypeOK, server, history, table
    <3>4. PageTrue'
      BY <3>1 DEF PageTrue
    <3> QED
      BY <2>1, <3>2, <3>3, <3>4
  <2> QED
    BY <1>7, <2>2, <2>3 DEF Confirm
<1>8. ASSUME NEW enter \in BOOLEAN, CloseImport(enter) PROVE IInv'
  <2>1. PromptTrue'
    BY <1>8 DEF CloseImport, PromptTrue, SelectedID, OffRows, table
  <2>2. CASE UNCHANGED call
    BY <1>3, <1>8, <2>1, <2>2 DEF CloseImport, history, table, Types, TypeOK, Anybody
  <2>3. CASE Issue("import", Nobody)
    <3>1. /\ call' \in [Slots -> Requests]
          /\ \A k \in Slots : Fresh(call'[k]) => call'[k] = call[k]
          /\ \A k \in Slots : Renewing(call[k]) => Renewing(call'[k])
          /\ \E k \in Slots : call'[k].op \in Changes /\ call'[k].at = "sent"
      BY <2>3, Issued DEF Changes, Targeted, Anybody
    <3>2. ListingsTrue' /\ \A k \in Slots : RequestOK(call'[k])
      BY <1>8, <3>1, PageKeeps DEF CloseImport
    <3>3. Types'
      BY <1>8, <3>1, <3>2 DEF CloseImport, Types, TypeOK, server, history, table
    <3>4. PageTrue'
      BY <3>1 DEF PageTrue
    <3> QED
      BY <2>1, <3>2, <3>3, <3>4
  <2> QED
    BY <1>8, <2>2, <2>3 DEF CloseImport
<1> QED
  BY <1>1, <1>2, <1>4, <1>5, <1>6, <1>7, <1>8 DEF Key

-----------------------------------------------------------------------------
(* The server *)

\* Whoever changes the server behind the page makes all listings old and the
\* page outdated.
LEMMA Interferes ==
  ASSUME IInv, NEW c \in Requests, Succeeds(c) \/ Fails(c) \/ UNCHANGED server,
         call' \in [Slots -> Requests], \A k \in Slots : ~Fresh(call'[k]),
         outdated' = TRUE, UNCHANGED <<page, asked, replaced>>, ended' \in BOOLEAN
  PROVE  IInv'
<1> USE DEF IInv
<1>1. index' \in Seq(Ids) /\ active' \in Anybody
  BY ServerTypes
<1>2. \A k \in Slots : RequestOK(call'[k])
  BY DEF RequestOK, Requests, Shape, Changes, Anybody
<1>3. Types'
  BY <1>1, <1>2 DEF Types, TypeOK, page, table, dialogs, Anybody
<1>4. ListingsTrue' /\ PageTrue'
  BY DEF ListingsTrue, PageTrue
<1>5. PromptTrue'
  BY DEF PromptTrue, SelectedID, OffRows, page, table, dialogs
<1> QED
  BY <1>3, <1>4, <1>5

LEMMA ReadStep ==
  ASSUME IInv, NEW k \in Slots, ReadIndex(k), UNCHANGED ended
  PROVE  IInv'
<1> USE DEF IInv
<1> DEFINE c == call'[k]
<1>1. /\ call[k] \in Requests /\ call[k].op = "list" /\ call[k].at = "sent"
      /\ UNCHANGED <<server, page, history>>
  BY DEF ReadIndex, Types
<1>2. Aged[k] = call[k] /\ Aged \in [Slots -> Requests]
  BY <1>1, Ages DEF Types, Aged, Listing
<1>3. call' = [Aged EXCEPT ![k] = [call[k] EXCEPT !.at = "read", !.list = index]]
  BY <1>2 DEF ReadIndex
<1>4. /\ c = [call[k] EXCEPT !.at = "read", !.list = index]
      /\ \A j \in Slots \ {k} : call'[j] = Aged[j]
  BY <1>2, <1>3
<1>5. /\ c \in Requests /\ c.op = "list" /\ c.at = "read" /\ c.list = index
      /\ ~c.old
  <2>1. index \in Seq(Ids)
    BY DEF Types, TypeOK
  <2>2. c \in Shape /\ c.op = "list" /\ c.at = "read" /\ c.list = index
    BY <1>1, <1>4, <2>1 DEF Requests, Shape
  <2>3. c.old = call[k].old /\ ~call[k].old
    BY <1>1, <1>4 DEF Requests, Shape
  <2> QED
    BY <2>2, <2>3 DEF Requests, Targeted
<1>6. call' \in [Slots -> Requests]
  BY <1>2, <1>3, <1>4, <1>5
<1>7. \A j \in Slots : RequestOK(call'[j])
  BY <1>6 DEF RequestOK, Requests, Shape, Changes, Anybody
<1>8. Types'
  BY <1>1, <1>6, <1>7 DEF Types, TypeOK, server, page, table, dialogs, history
<1>9. \A j \in Slots \ {k} : ~Fresh(call'[j])
  BY <1>4, Ages DEF Types
<1>10. ListingsTrue'
  BY <1>1, <1>5, <1>9 DEF ListingsTrue, server
<1>11. PageTrue'
  BY <1>5 DEF PageTrue, Fresh
<1>12. PromptTrue'
  BY <1>1 DEF PromptTrue, SelectedID, OffRows, page, table, dialogs, history
<1> QED
  BY <1>8, <1>10, <1>11, <1>12

LEMMA StampStep ==
  ASSUME IInv, NEW k \in Slots, StampActive(k), UNCHANGED ended
  PROVE  IInv'
<1> USE DEF IInv
<1> DEFINE c == call'[k]
           stamp == IF active \in ToSet(call[k].list) THEN active ELSE Nobody
<1>1. /\ call[k] \in Requests /\ call[k].op = "list" /\ call[k].at = "read"
      /\ UNCHANGED <<server, page, history>>
  BY DEF StampActive, Types
<1>2. call' = [call EXCEPT ![k] = [call[k] EXCEPT !.at = "done", !.stamp = stamp]]
  BY DEF StampActive
<1>3. /\ c = [call[k] EXCEPT !.at = "done", !.stamp = stamp]
      /\ \A j \in Slots \ {k} : call'[j] = call[j]
  BY <1>2 DEF Types
<1>4. stamp \in Anybody
  BY DEF Types, TypeOK, Anybody
<1> HIDE DEF stamp
<1>5. /\ c \in Requests /\ c.op = "list" /\ c.at = "done"
      /\ c.list = call[k].list /\ c.old = call[k].old /\ c.stamp = stamp
  BY <1>1, <1>3, <1>4 DEF Requests, Shape
<1>6. call' \in [Slots -> Requests]
  BY <1>2, <1>3, <1>5 DEF Types
<1>7. \A j \in Slots : RequestOK(call'[j])
  BY <1>6 DEF RequestOK, Requests, Shape, Changes, Anybody
<1>8. Types'
  BY <1>1, <1>6, <1>7 DEF Types, TypeOK, server, page, table, dialogs, history
<1>9. \A j \in Slots : /\ Fresh(call'[j]) <=> Fresh(call[j])
                       /\ Renewing(call'[j]) <=> Renewing(call[j])
                       /\ call'[j].op = call[j].op
  BY <1>1, <1>3, <1>5 DEF Fresh, Renewing, Changes, Targeted
<1>10. ListingsTrue'
  <2> SUFFICES ASSUME NEW j \in Slots, Fresh(call'[j]),
                      ~ \E i \in Slots : Renewing(call'[i])
               PROVE  /\ call'[j].list = index'
                      /\ call'[j].at = "done" /\ active' \in ToSet(index') =>
                           call'[j].stamp = active'
    BY DEF ListingsTrue
  <2>1. /\ call[j].list = index
        /\ call[j].at = "done" /\ active \in ToSet(index) => call[j].stamp = active
    BY <1>9 DEF ListingsTrue
  <2>2. index' = index /\ active' = active
    BY <1>1 DEF server
  <2>3. CASE j = k
    BY <1>5, <2>1, <2>2, <2>3 DEF stamp
  <2>4. CASE j # k
    BY <1>3, <2>1, <2>2, <2>4
  <2> QED
    BY <2>3, <2>4
<1>11. \A j \in Slots : call[j].op \in Changes => call'[j] = call[j]
  BY <1>1, <1>3 DEF Changes, Targeted
<1>12. PageTrue'
  BY <1>1, <1>9, <1>11 DEF PageTrue, server, page, table, history
<1>13. PromptTrue'
  BY <1>1 DEF PromptTrue, SelectedID, OffRows, page, table, dialogs, history
<1> QED
  BY <1>8, <1>10, <1>12, <1>13

\* A change is answered when the listings read before it are still about.
LEMMA ServeStep ==
  ASSUME IInv, NEW k \in Slots, Serve(k), UNCHANGED ended
  PROVE  IInv'
<1> USE DEF IInv
<1> DEFINE c == call'[k]
<1>1. /\ call[k] \in Requests /\ call[k].at = "sent" /\ Succeeds(call[k])
      /\ UNCHANGED <<page, history>>
  BY DEF Serve, Types
<1>2. call[k].op \in Changes
  BY <1>1 DEF Succeeds, Changes, Targeted
<1>3. call' = [call EXCEPT ![k] = [call[k] EXCEPT !.at = "done"]]
  BY DEF Serve
<1>4. /\ c = [call[k] EXCEPT !.at = "done"]
      /\ \A j \in Slots \ {k} : call'[j] = call[j]
  BY <1>3 DEF Types
<1>5. c \in Requests /\ c.op \in Changes /\ c.at = "done"
  BY <1>1, <1>2, <1>4 DEF Requests, Shape
<1>6. call' \in [Slots -> Requests]
  BY <1>3, <1>4, <1>5 DEF Types
<1>7. \A j \in Slots : RequestOK(call'[j])
  BY <1>6 DEF RequestOK, Requests, Shape, Changes, Anybody
<1>8. index' \in Seq(Ids) /\ active' \in Anybody
  BY <1>1, ServerTypes
<1>9. Types'
  BY <1>1, <1>6, <1>7, <1>8 DEF Types, TypeOK, Anybody, page, table, dialogs, history
<1>10. Renewing(c)
  BY <1>5 DEF Renewing
<1>11. ListingsTrue' /\ PageTrue'
  BY <1>10 DEF ListingsTrue, PageTrue
<1>12. PromptTrue'
  BY <1>1 DEF PromptTrue, SelectedID, OffRows, page, table, dialogs, history
<1> QED
  BY <1>9, <1>11, <1>12

LEMMA FailStep ==
  ASSUME IInv, NEW k \in Slots, Fail(k) \/ ServeOrphan(k), UNCHANGED ended
  PROVE  IInv'
<1>1. /\ call[k] \in Requests
      /\ Succeeds(call[k]) \/ Fails(call[k]) \/ UNCHANGED server
      /\ call' = [Aged EXCEPT ![k] = Free]
      /\ outdated' = TRUE /\ UNCHANGED <<page, asked, replaced>>
  BY DEF Fail, ServeOrphan, IInv, Types
<1>2. Aged \in [Slots -> Requests] /\ \A j \in Slots : ~Fresh(Aged[j])
  BY Ages DEF IInv, Types
<1>3. call' \in [Slots -> Requests] /\ \A j \in Slots : ~Fresh(call'[j])
  BY <1>1, <1>2, Sent
<1>4. ended' \in BOOLEAN
  BY DEF IInv, Types, TypeOK
<1> QED
  BY <1>1, <1>3, <1>4, Interferes

LEMMA OthersStep ==
  ASSUME IInv, OthersChange, UNCHANGED ended
  PROVE  IInv'
<1>1. PICK op \in Changes, id \in Ids : Succeeds(Request(op, id))
  BY DEF OthersChange, Changes
<1>2. Request(op, id) \in Requests
  <2>1. Free \in Shape /\ ~Free.old
    BY Sent DEF Requests, Free
  <2> QED
    BY <2>1 DEF Request, Requests, Shape, Anybody
<1>3. Aged \in [Slots -> Requests] /\ \A j \in Slots : ~Fresh(Aged[j])
  BY Ages DEF IInv, Types
<1>4. ended' \in BOOLEAN
  BY DEF IInv, Types, TypeOK
<1> QED
  BY <1>1, <1>2, <1>3, <1>4, Interferes DEF OthersChange

-----------------------------------------------------------------------------
(* Answers *)

LEMMA LoadedStep ==
  ASSUME IInv, NEW k \in Slots, ProfilesLoaded(k), UNCHANGED ended
  PROVE  IInv'
<1> USE DEF IInv
<1> DEFINE c == call[k]
<1>1. /\ c \in Requests /\ c.op = "list" /\ c.at = "done"
      /\ call' = [call EXCEPT ![k] = Free]
      /\ profiles' = c.list /\ replaced' = (replaced \/ confirmDel)
      /\ activeID' = IF c.stamp # Nobody THEN c.stamp ELSE activeID
      /\ UNCHANGED <<server, dialogs, asked>>
  BY DEF ProfilesLoaded, SetProfiles, Types
<1>2. outdated' = c.old
  BY DEF ProfilesLoaded
<1>3. /\ call' \in [Slots -> Requests]
      /\ \A j \in Slots : Fresh(call'[j]) => call'[j] = call[j]
      /\ \A j \in Slots : Renewing(call[j]) => Renewing(call'[j])
  <2>1. ~Renewing(c)
    BY <1>1 DEF Renewing, Changes, Targeted
  <2> QED
    BY <1>1, <2>1, Sent DEF Types
<1>4. ListingsTrue' /\ \A j \in Slots : RequestOK(call'[j])
  BY <1>1, <1>3, PageKeeps
<1>5. cursor' \in Nat \cup {NoRow} /\ emptied' \in BOOLEAN
  <2>1. c.list \in Seq(Ids) /\ Len(c.list) \in Nat
    BY <1>1, LenProperties DEF Requests, Shape
  <2>2. /\ cursor' = IF cursor < Len(c.list) THEN cursor ELSE Len(c.list) - 1
        /\ emptied' = (emptied \/ c.list = <<>>)
    BY DEF ProfilesLoaded, SetProfiles
  <2>3. cursor \in Nat \cup {NoRow}
    BY DEF Types, TypeOK
  <2>4. cursor' \in Nat \cup {NoRow}
    BY <2>1, <2>2, <2>3 DEF NoRow
  <2>5. emptied' \in BOOLEAN
    BY <2>2
  <2> QED
    BY <2>4, <2>5
<1>6. /\ profiles' \in Seq(Ids) /\ activeID' \in Anybody
      /\ replaced' \in BOOLEAN
  BY <1>1 DEF Requests, Shape, Types, TypeOK, Anybody
<1>7. outdated' \in BOOLEAN
  BY <1>1, <1>2 DEF Requests, Shape
<1>8. Types'
  BY <1>1, <1>3, <1>4, <1>5, <1>6, <1>7 DEF Types, TypeOK, server, dialogs, Anybody
<1>9. PageTrue'
  <2>1. CASE c.old
    BY <1>2, <2>1 DEF PageTrue
  <2>2. CASE \E j \in Slots : Renewing(call[j])
    BY <1>3, <2>2 DEF PageTrue
  <2>3. CASE ~c.old /\ ~ \E j \in Slots : Renewing(call[j])
    <3>1. c.list = index /\ (active \in ToSet(index) => c.stamp = active)
      BY <1>1, <2>3 DEF ListingsTrue, Fresh
    <3>2. active \in ToSet(index) => active # Nobody
      BY Listed DEF Types, TypeOK
    <3> QED
      BY <1>1, <3>1, <3>2 DEF PageTrue, server
  <2> QED
    BY <2>1, <2>2, <2>3
<1>10. PromptTrue'
  BY <1>1 DEF PromptTrue, dialogs
<1> QED
  BY <1>4, <1>8, <1>9, <1>10

LEMMA OpStep ==
  ASSUME IInv, NEW k \in Slots, ProfileOp(k), UNCHANGED ended
  PROVE  IInv'
<1> USE DEF IInv
<1>1. /\ call' = [call EXCEPT ![k] = FetchProfiles]
      /\ UNCHANGED <<server, page, history>>
  BY DEF ProfileOp
<1>2. call'[k] = FetchProfiles /\ \A j \in Slots \ {k} : call'[j] = call[j]
  BY <1>1 DEF Types
<1>3. /\ call' \in [Slots -> Requests]
      /\ \A j \in Slots : Fresh(call'[j]) => call'[j] = call[j]
      /\ \A j \in Slots : Renewing(call[j]) => Renewing(call'[j])
  BY <1>1, <1>2, Sent DEF Types
<1>4. ListingsTrue' /\ \A j \in Slots : RequestOK(call'[j])
  BY <1>1, <1>3, PageKeeps
<1>5. Types'
  BY <1>1, <1>3, <1>4 DEF Types, TypeOK, server, page, table, dialogs, history
<1>6. PageTrue'
  BY <1>2, Sent DEF PageTrue
<1>7. PromptTrue'
  BY <1>1 DEF PromptTrue, SelectedID, OffRows, page, table, dialogs, history
<1> QED
  BY <1>4, <1>5, <1>6, <1>7

LEMMA TimeOutStep ==
  ASSUME IInv, NEW k \in Slots, TimeOut(k), UNCHANGED ended
  PROVE  IInv'
<1> DEFINE c == call'[k]
<1>1. /\ call[k] \in Requests /\ outdated' = TRUE
      /\ UNCHANGED <<server, page, asked, replaced>>
  BY DEF TimeOut, IInv, Types
<1>2. Aged \in [Slots -> Requests] /\ \A j \in Slots : ~Fresh(Aged[j])
  BY Ages DEF IInv, Types
<1>3. /\ c = IF call[k].at = "sent" /\ call[k].op # "list"
               THEN [call[k] EXCEPT !.at = "orphan"] ELSE Free
      /\ call' = [Aged EXCEPT ![k] = c]
  BY <1>2 DEF TimeOut
<1>4. c \in Requests /\ ~Fresh(c)
  <2>1. CASE call[k].at = "sent" /\ call[k].op # "list"
    BY <1>1, <1>3, <2>1 DEF Requests, Shape, Fresh
  <2>2. CASE ~(call[k].at = "sent" /\ call[k].op # "list")
    BY <1>3, <2>2, Sent
  <2> QED
    BY <2>1, <2>2
<1> HIDE DEF c
<1>5. call' \in [Slots -> Requests] /\ \A j \in Slots : ~Fresh(call'[j])
  BY <1>2, <1>3, <1>4
<1>6. ended' \in BOOLEAN
  BY DEF IInv, Types, TypeOK
<1> QED
  BY <1>1, <1>5, <1>6, Interferes

-----------------------------------------------------------------------------

LEMMA PanicStep ==
  ASSUME IInv, Panic
  PROVE  IInv'
<1>1. call' \in [Slots -> Requests] /\ \A k \in Slots : ~Fresh(call'[k])
  BY Sent DEF Panic
<1>2. UNCHANGED server /\ outdated' = TRUE /\ UNCHANGED <<page, asked, replaced>>
      /\ ended' \in BOOLEAN
  BY DEF Panic
<1> QED
  BY <1>1, <1>2, Sent, Interferes

LEMMA StepInv == IInv /\ [Next]_vars => IInv'
<1> SUFFICES ASSUME IInv, [Next]_vars PROVE IInv'
  OBVIOUS
<1>1. CASE Key /\ UNCHANGED ended
  BY <1>1, KeyStep
<1>2. CASE Server /\ UNCHANGED ended
  BY <1>2, ReadStep, StampStep, ServeStep, FailStep, OthersStep DEF Server
<1>3. CASE Answer /\ UNCHANGED ended
  BY <1>3, LoadedStep, OpStep, TimeOutStep DEF Answer
<1>4. CASE UNCHANGED vars
  <2>1. UNCHANGED <<server, page, ended, history, call>>
    BY <1>4 DEF vars
  <2>2. ListingsTrue' /\ \A k \in Slots : RequestOK(call'[k])
    BY <2>1, PageKeeps DEF IInv, Types
  <2>3. Types'
    BY <2>1, <2>2 DEF IInv, Types, TypeOK, server, page, table, dialogs, history
  <2>4. PageTrue' /\ PromptTrue'
    BY <2>1 DEF IInv, PageTrue, PromptTrue, SelectedID, OffRows, server, page, table, dialogs, history
  <2> QED
    BY <2>2, <2>3, <2>4 DEF IInv
<1> QED
  BY <1>1, <1>2, <1>3, <1>4, PanicStep DEF Next

\* Where the cursor is, after the steps that move it or the rows.
LEMMA RowStep == IInv /\ RowTrue /\ [Next]_vars => RowTrue'
<1> SUFFICES ASSUME IInv, RowTrue, [Next]_vars PROVE RowTrue'
  OBVIOUS
<1>1. ASSUME UNCHANGED <<table, ended>> PROVE RowTrue'
  BY <1>1 DEF RowTrue, SelectsARow, OffRows, table
<1>2. CASE Server /\ UNCHANGED ended
  <2>1. UNCHANGED page
    BY <1>2 DEF Server, OthersChange, ReadIndex, StampActive, Serve, Fail, ServeOrphan
  <2> QED
    BY <1>1, <1>2, <2>1 DEF page
<1>3. CASE Key /\ ~ended /\ UNCHANGED ended
  <2>1. CASE MoveCursor
    <3>1. profiles \in Seq(Ids) /\ Len(profiles) \in Nat /\ profiles' = profiles
      BY <2>1, LenProperties DEF MoveCursor, IInv, Types, TypeOK
    <3>2. CASE profiles = <<>>
      BY <1>3, <2>1, <3>1, <3>2 DEF MoveCursor, RowTrue, SelectsARow
    <3>3. CASE profiles # <<>>
      <4>1. cursor' \in 0 .. Len(profiles) - 1 /\ cursor' # NoRow
        BY <2>1, <3>1, <3>3 DEF MoveCursor, NoRow
      <4> QED
        BY <1>3, <3>1, <4>1 DEF RowTrue, SelectsARow
    <3> QED
      BY <3>2, <3>3
  <2>2. CASE ~MoveCursor
    <3>1. UNCHANGED table
      BY <1>3, <2>2 DEF Key, Activate, Refresh, AskDelete, OpenImport, Confirm,
                        CloseImport, table, page
    <3> QED
      BY <1>1, <1>3, <3>1
  <2> QED
    BY <2>1, <2>2
<1>4. CASE Answer /\ ~ended /\ UNCHANGED ended
  <2>1. ASSUME NEW k \in Slots, ProfilesLoaded(k) PROVE RowTrue'
    <3> DEFINE list == call[k].list
    <3>1. list \in Seq(Ids) /\ Len(list) \in Nat /\ (list # <<>> => Len(list) # 0)
      <4>1. list \in Seq(Ids)
        BY DEF IInv, Types, Requests, Shape
      <4> QED
        BY <4>1, LenProperties, EmptySeq
    <3>2. /\ profiles' = list
          /\ cursor' = IF cursor < Len(list) THEN cursor ELSE Len(list) - 1
          /\ emptied' = (emptied \/ list = <<>>)
      BY <2>1 DEF ProfilesLoaded, SetProfiles
    <3>3. cursor \in Nat \cup {NoRow} /\ (cursor = NoRow => emptied)
      BY DEF IInv, Types, TypeOK, RowTrue
    <3> HIDE DEF list
    <3>4. list = <<>> \/ emptied => emptied'
      BY <3>2
    <3>5. CASE list = <<>>
      BY <1>4, <3>2, <3>4, <3>5 DEF RowTrue, SelectsARow
    <3>6. CASE list # <<>>
      <4>1. cursor' \in 0 .. Len(list) - 1 \/ (cursor = NoRow /\ cursor' = NoRow)
        BY <3>1, <3>2, <3>3, <3>6 DEF NoRow
      <4>2. cursor' = NoRow => cursor = NoRow
        BY <3>1, <4>1 DEF NoRow
      <4> QED
        BY <1>4, <3>2, <3>3, <3>4, <4>1, <4>2 DEF RowTrue, SelectsARow
    <3> QED
      BY <3>5, <3>6
  <2>2. ASSUME NEW k \in Slots, ProfileOp(k) \/ TimeOut(k) PROVE RowTrue'
    BY <1>1, <1>4, <2>2 DEF ProfileOp, TimeOut, page
  <2> QED
    BY <1>4, <2>1, <2>2 DEF Answer
<1>5. CASE Panic
  BY <1>5 DEF Panic, page, table, RowTrue, SelectsARow, OffRows
<1>6. CASE UNCHANGED vars
  BY <1>1, <1>6 DEF vars, page
<1> QED
  BY <1>2, <1>3, <1>4, <1>5, <1>6 DEF Next

LEMMA Invariance == Spec => []IInv
BY InitInv, StepInv, PTL DEF Spec

-----------------------------------------------------------------------------

\* Every variable of the tab keeps its type, for any number of profiles and of
\* requests under way: a key that needs a selection sends no request without one
\* (profiles.go 139-160), and the table's cursor is an index or -1.
THEOREM TypeCorrect == Spec => []TypeOK
BY Invariance, PTL DEF IInv, Types

\* A key that needs a row finds one, and none ends the program, unless the table
\* had no rows since the cursor was last put on one, whatever lists replace one
\* another under it (profiles.go 111, 190-197).
THEOREM RowSelected == Spec => []SelectsARow
<1>1. Init => RowTrue
  BY DEF Init, RowTrue, SelectsARow, NoRow
<1>2. RowTrue => SelectsARow
  BY DEF RowTrue
<1> QED
  BY <1>1, <1>2, RowStep, Invariance, PTL DEF Spec

\* Once every request is answered the tab shows the server's list and its active
\* profile (SetProfiles, the ProfileOpMsg of route_msg.go), however many requests
\* were under way at once and in whatever order they were served and answered.
THEOREM AnswersShowTheServer == Spec => []ShowsTheServer
<1>1. IInv => ShowsTheServer
  <2> SUFFICES ASSUME IInv, \A k \in Slots : call[k] = Free, ~outdated
               PROVE  /\ profiles = index
                      /\ active \in ToSet(index) => activeID = active
    BY DEF ShowsTheServer
  <2>1. Free.op = "none" /\ ~Renewing(Free) /\ ~Fresh(Free)
    BY Sent DEF Free
  <2> QED
    BY <2>1 DEF IInv, PageTrue, Changes, Targeted
<1> QED
  BY <1>1, Invariance, PTL

\* A delete that is sent is for the profile of the prompt, unless a list came in
\* under it (the confirm dialog of tui/pages/profiles), for any number of lists
\* under way.
THEOREM DeletesTheAsked == Spec => DeletesWhatWasAsked
<1> DEFINE Same == \A k \in Slots : call[k] = Free /\ call'[k].op = "delete"
                     => call'[k].id = asked \/ replaced
<1>1. IInv /\ [Next]_vars => [Same]_vars
  <2> SUFFICES ASSUME IInv, Next,
                      NEW k \in Slots, call[k] = Free, call'[k].op = "delete"
               PROVE  call'[k].id = asked \/ replaced
    OBVIOUS
  <2>1. call \in [Slots -> Requests] /\ Free.op = "none" /\ Free.at = "sent"
    BY DEF IInv, Types, Free
  <2>2. Free \in Shape /\ FetchProfiles.op = "list"
    BY Sent, <2>1 DEF Requests, FetchProfiles, Request, Shape
  <2>3. ASSUME NEW op, NEW id, Issue(op, id)
        PROVE  op = "delete" /\ call'[k].id = id
    <3>1. PICK j \in Slots : call[j] = Free /\ call' = [call EXCEPT ![j] = Request(op, id)]
      BY <2>3 DEF Issue
    <3>2. j = k
      BY <2>1, <3>1
    <3>3. call'[k] = [Free EXCEPT !.op = op, !.id = id]
      BY <2>1, <3>1, <3>2 DEF Request
    <3> QED
      BY <2>2, <3>3 DEF Shape
  <2>4. CASE Key
    <3>1. ~UNCHANGED call
      BY <2>1
    <3>2. \E yes \in BOOLEAN : Confirm(yes)
      BY <2>3, <2>4, <3>1
         DEF Key, Activate, Refresh, AskDelete, OpenImport, MoveCursor, CloseImport
    <3>3. confirmDel /\ Issue("delete", SelectedID)
      BY <3>1, <3>2 DEF Confirm
    <3> QED
      BY <2>3, <3>3 DEF IInv, PromptTrue
  <2>5. /\ Aged \in [Slots -> Requests]
        /\ Aged[k].op = "none"
    BY <2>1, Ages
  <2>6. ASSUME NEW j \in Slots, \/ ReadIndex(j) \/ StampActive(j) \/ Serve(j)
                                \/ Fail(j) \/ ServeOrphan(j)
                                \/ ProfilesLoaded(j) \/ ProfileOp(j) \/ TimeOut(j)
        PROVE  FALSE
    <3>1. CASE j # k
      <4>1. call'[k] \in {call[k], Aged[k]}
        BY <2>1, <2>5, <2>6, <3>1
           DEF ReadIndex, StampActive, Serve, Fail, ServeOrphan, ProfilesLoaded,
               ProfileOp, TimeOut
      <4> QED
        BY <2>1, <2>5, <4>1
    <3>2. CASE j = k
      BY <2>1, <2>6, <3>2
         DEF ReadIndex, StampActive, Serve, Succeeds, Fail, Fails, ServeOrphan,
             ProfilesLoaded, ProfileOp, TimeOut, Targeted
    <3> QED
      BY <3>1, <3>2
  <2>7. ~OthersChange
    BY <2>5 DEF OthersChange
  <2>8. ~Panic
    BY <2>1 DEF Panic
  <2> QED
    BY <2>4, <2>6, <2>7, <2>8 DEF Next, Server, Answer
<1> QED
  BY <1>1, Invariance, PTL DEF Spec, DeletesWhatWasAsked
=============================================================================
