---------------------------- MODULE ProfilesPage ----------------------------
(***************************************************************************)
(* The Subscriptions tab of the terminal client (tui/pages/profiles, with  *)
(* tui/route_msg.go): a list fetched from the control API, a cursor, the   *)
(* mark of the active profile and a prompt before a delete.                *)
(*                                                                         *)
(* Every request is a command that runs on its own; its answer comes back  *)
(* as a message to the one Update loop, in any order.  The client gives up *)
(* after 30 s (client/client.go), the server does not.                     *)
(*                                                                         *)
(* A request's effect at the server is one step (modules ProfileStore and  *)
(* Activation have the steps of a delete or an activation); listing is two *)
(* reads, as in control/profiles.go.  Profiles are their ids.  Left out:   *)
(* other tabs, which take keys away from this one and nothing else, the    *)
(* overlays that a delete takes along, and the status that is fetched with *)
(* the list (StateStream).  The table is a widget of bubbles v2: its rows  *)
(* are set without a look at a cursor below them.                          *)
(***************************************************************************)
EXTENDS Integers, SequencesExt

CONSTANTS
  Ids,      \* bound: profiles there can be
  Slots,    \* bound: requests under way at once
  Nobody    \* no profile: ""

ASSUME PageAssumption == Nobody \notin Ids

VARIABLES
  index,       \* server: the profiles in the order of index.json
  active,      \* server: the activeId of state.json
  profiles,    \* m.profiles
  cursor,      \* m.table.Cursor(), from 0; NoRow once the table had no rows
  activeID,
  importing,
  confirmDel,
  ended,       \* the program has panicked
  call,        \* [Slots -> request]
  emptied,     \* history: the table had no rows since the cursor was put on one
  asked,       \* history: the profile selected when the prompt came up
  replaced,    \* history: the list was replaced under the prompt
  outdated     \* history: since the newest listing shown was read, a request
               \* failed or somebody else changed something

server  == <<index, active>>
table   == <<profiles, cursor, emptied>>
dialogs == <<importing, confirmDel>>
page    == <<table, activeID, dialogs>>
history == <<asked, replaced, outdated>>
vars    == <<server, page, ended, call, history>>

NoRow == 0 - 1

\* A request: sent; if for a list, read and then stamped with the active
\* profile; done; or given up by the client, but not by the server (orphan).
\* old: a listing that is not the newest, or that outdated speaks of.
Free == [op |-> "none", id |-> Nobody, at |-> "sent", list |-> <<>>,
         stamp |-> Nobody, old |-> FALSE]
Request(op, id) == [Free EXCEPT !.op = op, !.id = id]
FetchProfiles   == Request("list", Nobody)

Targeted == {"activate", "refresh", "delete"}

RequestOK(c) ==
  /\ c.op \in Targeted \cup {"none", "list", "import"}
  /\ c.op \in Targeted => c.id \in Ids
  /\ c.at \in {"sent", "read", "done", "orphan"}
  /\ c.list \in Seq(Ids)
  /\ c.stamp \in Ids \cup {Nobody}
  /\ c.old \in BOOLEAN

TypeOK ==
  /\ index \in Seq(Ids) /\ active \in Ids \cup {Nobody}
  /\ profiles \in Seq(Ids)
  /\ cursor \in Nat \cup {NoRow}
  /\ ended \in BOOLEAN /\ emptied \in BOOLEAN
  /\ activeID \in Ids \cup {Nobody}
  /\ importing \in BOOLEAN /\ confirmDel \in BOOLEAN
  /\ \A k \in Slots : RequestOK(call[k])
  /\ asked \in Ids \cup {Nobody}
  /\ replaced \in BOOLEAN /\ outdated \in BOOLEAN

\* The client asks for the list.  What the server has by then, it was given
\* by others.
Init ==
  /\ index = <<>> /\ active = Nobody
  /\ profiles = <<>> /\ cursor = 0 /\ activeID = Nobody
  /\ importing = FALSE /\ confirmDel = FALSE
  /\ ended = FALSE /\ emptied = FALSE
  /\ \E k \in Slots :
       call = [j \in Slots |-> IF j = k THEN FetchProfiles ELSE Free]
  /\ asked = Nobody /\ replaced = FALSE /\ outdated = FALSE

\* There are rows, and the cursor is before them: then the index that
\* SelectedID takes, min(cursor, len - 1), is out of range.
OffRows == profiles # <<>> /\ cursor = NoRow

SelectedID ==
  LET last == Len(profiles) - 1
  IN IF profiles = <<>> THEN Nobody
     ELSE profiles[(IF cursor < last THEN cursor ELSE last) + 1]

Selected == ~OffRows /\ SelectedID # Nobody

Issue(op, id) ==
  \E k \in Slots : /\ call[k] = Free
                   /\ call' = [call EXCEPT ![k] = Request(op, id)]

-----------------------------------------------------------------------------
(* Keys.  The form and the prompt swallow all of them. *)

Keys == ~importing /\ ~confirmDel

\* "a": the mark is set at once.
Activate ==
  /\ Keys /\ Selected
  /\ activeID' = SelectedID
  /\ Issue("activate", SelectedID)
  /\ UNCHANGED <<server, table, dialogs, history>>

\* "u"
Refresh ==
  /\ Keys /\ Selected
  /\ Issue("refresh", SelectedID)
  /\ UNCHANGED <<server, page, history>>

\* "d"
AskDelete ==
  /\ Keys /\ Selected
  /\ confirmDel' = TRUE
  /\ asked' = SelectedID /\ replaced' = FALSE
  /\ UNCHANGED <<server, table, activeID, importing, call, outdated>>

\* "y" deletes what is selected now; any other key cancels.
Confirm(yes) ==
  /\ confirmDel
  /\ confirmDel' = FALSE
  /\ yes => ~OffRows
  /\ IF yes /\ Selected THEN Issue("delete", SelectedID) ELSE UNCHANGED call
  /\ UNCHANGED <<server, table, activeID, importing, history>>

\* "i" opens the form; "enter" with a URL imports, "esc" does not.
OpenImport ==
  /\ Keys
  /\ importing' = TRUE
  /\ UNCHANGED <<server, table, activeID, confirmDel, call, history>>

CloseImport(enter) ==
  /\ importing
  /\ importing' = FALSE
  /\ IF enter THEN Issue("import", Nobody) ELSE UNCHANGED call
  /\ UNCHANGED <<server, table, activeID, confirmDel, history>>

\* Mutant of MoveCursor: the prompt lets the keys of the table through.
MoveCursor_InPrompt ==
  /\ ~importing
  /\ IF profiles = <<>> THEN cursor' = NoRow /\ emptied' = TRUE
                       ELSE cursor' \in 0 .. Len(profiles) - 1 /\ emptied' = FALSE
  /\ UNCHANGED <<server, profiles, activeID, dialogs, call, history>>

\* The keys of the table put the cursor on a row, or on none if there is none.
MoveCursor ==
  /\ Keys
  /\ IF profiles = <<>> THEN cursor' = NoRow /\ emptied' = TRUE
                       ELSE cursor' \in 0 .. Len(profiles) - 1 /\ emptied' = FALSE
  /\ UNCHANGED <<server, profiles, activeID, dialogs, call, history>>

\* "a", "u", "d", or "y" under the prompt, without a row for the cursor: the
\* program ends, and what the server makes of its requests is like others' work.
Panic ==
  /\ ~importing /\ OffRows
  /\ ended' = TRUE
  /\ call' = [k \in Slots |-> Free]
  /\ outdated' = TRUE
  /\ UNCHANGED <<server, page, asked, replaced>>

-----------------------------------------------------------------------------
(* The server *)

\* A listing read by now does not tell the page of this step.
Listing(k) == call[k].op = "list" /\ call[k].at \in {"read", "done"}

Aged == [k \in Slots |-> IF Listing(k) THEN [call[k] EXCEPT !.old = TRUE]
                                       ELSE call[k]]

\* List() ...
ReadIndex(k) ==
  /\ call[k].op = "list" /\ call[k].at = "sent"
  /\ call' = [Aged EXCEPT ![k].at = "read", ![k].list = index]
  /\ UNCHANGED <<server, page, history>>

\* ... and then GetActiveID().
StampActive(k) ==
  /\ call[k].op = "list" /\ call[k].at = "read"
  /\ call' = [call EXCEPT ![k].at = "done",
                          ![k].stamp = IF active \in ToSet(call[k].list)
                                         THEN active ELSE Nobody]
  /\ UNCHANGED <<server, page, history>>

Succeeds(c) ==
  \/ /\ c.op = "activate" /\ c.id \in ToSet(index)
     /\ active' = c.id
     /\ UNCHANGED index
  \/ /\ c.op = "refresh" /\ c.id \in ToSet(index)
     /\ UNCHANGED server
  \/ /\ c.op = "delete"
     /\ \E i \in DOMAIN index : index[i] = c.id /\ index' = RemoveAt(index, i)
     /\ active' = IF active = c.id THEN Nobody ELSE active
  \/ /\ c.op = "import"
     /\ \E id \in Ids \ ToSet(index) : index' = Append(index, id)
     /\ UNCHANGED active

\* A failed activation goes back to the profile it took for the previous one,
\* or stays with the new one.  Other failures leave things as they were.
Fails(c) ==
  \/ /\ c.op = "activate" /\ c.id \in ToSet(index)
     /\ active' \in ToSet(index) \cup {active}
     /\ UNCHANGED index
  \/ c.op \in Targeted \cup {"import"} /\ UNCHANGED server

Serve(k) ==
  /\ call[k].at = "sent"
  /\ Succeeds(call[k])
  /\ call' = [call EXCEPT ![k].at = "done"]
  /\ UNCHANGED <<page, history>>

\* The page is not told of failures: the root shows the error.
Fail(k) ==
  /\ call[k].at = "sent"
  /\ Fails(call[k]) \/ (call[k].op = "list" /\ UNCHANGED server)
  /\ call' = [Aged EXCEPT ![k] = Free]
  /\ outdated' = TRUE
  /\ UNCHANGED <<page, asked, replaced>>

\* The client's 30 s are over.
TimeOut(k) ==
  /\ call[k].op # "none" /\ call[k].at # "orphan"
  /\ call' = [Aged EXCEPT ![k] = IF call[k].at = "sent" /\ call[k].op # "list"
                                   THEN [call[k] EXCEPT !.at = "orphan"]
                                   ELSE Free]
  /\ outdated' = TRUE
  /\ UNCHANGED <<server, page, asked, replaced>>

ServeOrphan(k) ==
  /\ call[k].at = "orphan"
  /\ Succeeds(call[k]) \/ Fails(call[k])
  /\ call' = [Aged EXCEPT ![k] = Free]
  /\ outdated' = TRUE
  /\ UNCHANGED <<page, asked, replaced>>

\* The dashboard, another terminal, the scheduler.
OthersChange ==
  /\ \E op \in Targeted \cup {"import"}, id \in Ids : Succeeds(Request(op, id))
  /\ call' = Aged
  /\ outdated' = TRUE
  /\ UNCHANGED <<page, asked, replaced>>

-----------------------------------------------------------------------------
(* Answers *)

\* Mutant of SetProfiles: the rows change under a cursor that stays.
SetProfiles_Cursor(list, stamp) ==
  /\ profiles' = list
  /\ activeID' = IF stamp # Nobody THEN stamp ELSE activeID
  /\ cursor' = cursor
  /\ emptied' = (emptied \/ list = <<>>)

\* The mark stays if no profile of the list is stamped.  The table takes a
\* cursor beyond its rows back to the last one: to none, if there is none.
SetProfiles(list, stamp) ==
  /\ profiles' = list
  /\ activeID' = IF stamp # Nobody THEN stamp ELSE activeID
  /\ cursor' = IF cursor < Len(list) THEN cursor ELSE Len(list) - 1
  /\ emptied' = (emptied \/ list = <<>>)

\* ProfilesLoadedMsg
ProfilesLoaded(k) ==
  /\ call[k].op = "list" /\ call[k].at = "done"
  /\ SetProfiles(call[k].list, call[k].stamp)
  /\ call' = [call EXCEPT ![k] = Free]
  /\ replaced' = (replaced \/ confirmDel)
  /\ outdated' = call[k].old
  /\ UNCHANGED <<server, dialogs, asked>>

\* Mutant of ProfileOp: only what changes the list makes the page fetch it.
ProfileOp_Selective(k) ==
  /\ call[k].op \in Targeted \cup {"import"} /\ call[k].at = "done"
  /\ call' = [call EXCEPT ![k] = IF call[k].op = "activate" THEN Free
                                                            ELSE FetchProfiles]
  /\ UNCHANGED <<server, page, history>>

\* ProfileOpMsg
ProfileOp(k) ==
  /\ call[k].op \in Targeted \cup {"import"} /\ call[k].at = "done"
  /\ call' = [call EXCEPT ![k] = FetchProfiles]
  /\ UNCHANGED <<server, page, history>>

-----------------------------------------------------------------------------
Key == \/ Activate \/ Refresh \/ AskDelete \/ OpenImport \/ MoveCursor
       \/ \E yes \in BOOLEAN : Confirm(yes)
       \/ \E enter \in BOOLEAN : CloseImport(enter)

Server == \/ OthersChange
          \/ \E k \in Slots : \/ ReadIndex(k) \/ StampActive(k) \/ Serve(k)
                              \/ Fail(k) \/ ServeOrphan(k)

Answer == \E k \in Slots : ProfilesLoaded(k) \/ ProfileOp(k) \/ TimeOut(k)

Next == \/ Server /\ UNCHANGED ended
        \/ ~ended /\ (Key \/ Answer) /\ UNCHANGED ended
        \/ ~ended /\ Panic

Spec == Init /\ [][Next]_vars

-----------------------------------------------------------------------------
(* Properties *)

\* The cursor is on a row, and no key ends the program, unless the table has
\* been without rows since the cursor was last put on one: then the cursor is
\* before the rows, where a list that comes in later leaves it, until a key of
\* the table moves it (profiles.go 111, 190-197).
SelectsARow ==
  /\ profiles # <<>> =>
       cursor \in 0 .. Len(profiles) - 1 \/ (emptied /\ cursor = NoRow)
  /\ ended => emptied /\ OffRows

\* The profile deleted is the one the prompt was about, unless an answer has
\* replaced the list since: nothing else moves the selection under a prompt.
DeletesWhatWasAsked ==
  [][\A k \in Slots :
       call[k] = Free /\ call'[k].op = "delete"
         => call'[k].id = asked \/ replaced]_vars

\* Whatever order requests were served and answered in, once none is under way
\* the page shows the server's list and marks the active profile, unless it
\* showed listings out of order, was told of a failure or others interfered.
ShowsTheServer ==
  (\A k \in Slots : call[k] = Free) /\ ~outdated =>
    /\ profiles = index
    /\ active \in ToSet(index) => activeID = active
=============================================================================
