--------------------------- MODULE ConnectionsPage ---------------------------
(***************************************************************************)
(* The Connections tab of the terminal client (tui/pages/connections, with *)
(* tui/tui.go and tui/route_connections.go): the connections of the last   *)
(* listing, a cursor over them, a prompt, and the ticks that fetch the     *)
(* listing again while the tab is shown.                                   *)
(*                                                                         *)
(* A tick goes to whichever tab is shown when it lands, arms the next one  *)
(* if that is this tab and is the last of its chain otherwise.  Every      *)
(* press of "1" starts a chain.  The kernel's list is in no order: it      *)
(* ranges over a map.  Left out: the traffic of a connection, the keys of  *)
(* the other tabs, leaving the program.                                    *)
(***************************************************************************)
EXTENDS Integers, SequencesExt, FiniteSetsExt

CONSTANTS
  Conns,      \* ids of connections
  NoConn,
  Slots,      \* bound: requests under way at once
  MaxTicks    \* bound: chains of ticks at once

ASSUME ConnectionsAssumption ==
  IsFiniteSet(Conns) /\ NoConn \notin Conns /\ MaxTicks \in Nat

VARIABLES
  live,       \* kernel: its connections
  tab,        \* m.activeTab: "connections" or "other"
  shown,      \* m.conns, their ids
  cursor,
  confirmAll, \* the prompt of "X" is up
  ticks,      \* chains of ticks
  call,       \* [Slots -> request]
  visited     \* history: a number was pressed

page == <<tab, shown, cursor, confirmAll, ticks, visited>>
vars == <<live, page, call>>

\* A request: sent, done, or given up by the client only (orphan).
Free == [op |-> "none", conn |-> NoConn, at |-> "sent", list |-> <<>>]
Fetch == [Free EXCEPT !.op = "fetch"]
CloseAll == [Free EXCEPT !.op = "closeAll"]
Close(c) == [Free EXCEPT !.op = "close", !.conn = c]

Listings == UNION {SetToSeqs(s) : s \in SUBSET Conns}

TypeOK ==
  /\ live \subseteq Conns
  /\ tab \in {"connections", "other"}
  /\ shown \in Listings /\ cursor \in Nat
  /\ confirmAll \in BOOLEAN /\ visited \in BOOLEAN
  /\ ticks \in 0 .. MaxTicks
  /\ \A k \in Slots :
       /\ call[k].op \in {"none", "fetch", "close", "closeAll"}
       /\ call[k].op = "close" <=> call[k].conn \in Conns
       /\ call[k].at \in {"sent", "done", "orphan"}
       /\ call[k].list \in Listings

\* The tab is the first one shown, and fetched once.
Init ==
  /\ live \in SUBSET Conns
  /\ tab = "connections"
  /\ shown = <<>> /\ cursor = 0
  /\ confirmAll = FALSE
  /\ ticks = 0
  /\ \E k \in Slots : call = [j \in Slots |-> IF j = k THEN Fetch ELSE Free]
  /\ visited = FALSE

Issue(req) ==
  \E k \in Slots : call[k] = Free /\ call' = [call EXCEPT ![k] = req]

-----------------------------------------------------------------------------
(* Keys: the shown tab's first, then those of the program *)

OnTab == tab = "connections" /\ ~confirmAll

MoveCursor(delta) ==
  /\ OnTab
  /\ cursor' = IF cursor + delta \in 0 .. Len(shown) - 1 THEN cursor + delta
                                                         ELSE cursor
  /\ UNCHANGED <<live, tab, shown, confirmAll, ticks, visited, call>>

\* "x"
CloseCurrent ==
  /\ OnTab /\ shown # <<>>
  /\ Issue(Close(shown[cursor + 1]))
  /\ UNCHANGED <<live, page>>

\* "X"
AskCloseAll ==
  /\ OnTab
  /\ confirmAll' = TRUE
  /\ UNCHANGED <<live, tab, shown, cursor, ticks, visited, call>>

\* Any key answers the prompt.
Confirm ==
  /\ tab = "connections" /\ confirmAll
  /\ confirmAll' = FALSE
  /\ Issue(CloseAll) \/ UNCHANGED call
  /\ UNCHANGED <<live, tab, shown, cursor, ticks, visited>>

\* "r"
Refresh ==
  /\ OnTab
  /\ Issue(Fetch)
  /\ UNCHANGED <<live, page>>

\* A key gets to the program if the shown tab does not want it.
GlobalKey == tab = "connections" => ~confirmAll

\* "1": a chain of ticks starts, also if the tab is shown already.
Visit ==
  /\ GlobalKey
  /\ ticks < MaxTicks
  /\ tab' = "connections" /\ visited' = TRUE
  /\ ticks' = ticks + 1
  /\ UNCHANGED <<live, shown, cursor, confirmAll, call>>

\* "2" to "5".  There is no stream to close: the ticks find out by themselves.
Leave ==
  /\ GlobalKey
  /\ tab' = "other" /\ visited' = TRUE
  /\ UNCHANGED <<live, shown, cursor, confirmAll, ticks, call>>

\* Mutant of Tick: the refresh arms no next one.
Tick_Once ==
  /\ ticks > 0
  /\ ticks' = ticks - 1
  /\ IF tab = "connections" THEN Issue(Fetch) ELSE UNCHANGED call
  /\ UNCHANGED <<live, tab, shown, cursor, confirmAll, visited>>

\* ConnectionTickMsg
Tick ==
  /\ ticks > 0
  /\ IF tab = "connections"
       THEN Issue(Fetch) /\ UNCHANGED ticks
       ELSE ticks' = ticks - 1 /\ UNCHANGED call
  /\ UNCHANGED <<live, tab, shown, cursor, confirmAll, visited>>

-----------------------------------------------------------------------------
(* The kernel *)

List(k) ==
  /\ call[k].op = "fetch" /\ call[k].at = "sent"
  /\ \E l \in SetToSeqs(live) :
       call' = [call EXCEPT ![k].at = "done", ![k].list = l]
  /\ UNCHANGED <<live, page>>

Obeys(c) ==
  /\ c.op \in {"close", "closeAll"}
  /\ live' = IF c.op = "close" THEN live \ {c.conn} ELSE {}

Serve(k) ==
  /\ call[k].at = "sent"
  /\ Obeys(call[k])
  /\ call' = [call EXCEPT ![k].at = "done"]
  /\ UNCHANGED page

\* No kernel, or the answer is an error: the root shows it, the page is not told.
Fail(k) ==
  /\ call[k].op # "none" /\ call[k].at = "sent"
  /\ call' = [call EXCEPT ![k] = Free]
  /\ UNCHANGED <<live, page>>

\* The client's 30 s are over.
TimeOut(k) ==
  /\ call[k].at # "orphan" /\ call[k].op # "none"
  /\ call' = [call EXCEPT ![k] =
                IF call[k].op # "fetch" /\ call[k].at = "sent"
                  THEN [@ EXCEPT !.at = "orphan"] ELSE Free]
  /\ UNCHANGED <<live, page>>

ServeOrphan(k) ==
  /\ call[k].at = "orphan"
  /\ Obeys(call[k])
  /\ call' = [call EXCEPT ![k] = Free]
  /\ UNCHANGED page

\* Connections begin and end.
Traffic ==
  /\ live' \in SUBSET Conns
  /\ UNCHANGED <<page, call>>

-----------------------------------------------------------------------------
(* Answers *)

\* Mutant of ConnectionsLoaded: the cursor is not looked at.
ConnectionsLoaded_KeepsCursor(k) ==
  /\ call[k].op = "fetch" /\ call[k].at = "done"
  /\ shown' = call[k].list
  /\ call' = [call EXCEPT ![k] = Free]
  /\ UNCHANGED <<live, tab, cursor, confirmAll, ticks, visited>>

\* ConnectionsLoadedMsg
ConnectionsLoaded(k) ==
  /\ call[k].op = "fetch" /\ call[k].at = "done"
  /\ shown' = call[k].list
  /\ cursor' = IF cursor < Len(shown') THEN cursor ELSE Max({0, Len(shown') - 1})
  /\ call' = [call EXCEPT ![k] = Free]
  /\ UNCHANGED <<live, tab, confirmAll, ticks, visited>>

\* ConnectionOpMsg
ConnectionOp(k) ==
  /\ call[k].op \in {"close", "closeAll"} /\ call[k].at = "done"
  /\ call' = [call EXCEPT ![k] = Fetch]
  /\ UNCHANGED <<live, page>>

-----------------------------------------------------------------------------
Key == \/ \E delta \in {-1, 1} : MoveCursor(delta)
       \/ CloseCurrent \/ AskCloseAll \/ Confirm \/ Refresh
       \/ Visit \/ Leave

Kernel == \/ Traffic
          \/ \E k \in Slots : List(k) \/ Serve(k) \/ Fail(k) \/ ServeOrphan(k)

Answer(k) == ConnectionsLoaded(k) \/ ConnectionOp(k)

Next == Key \/ Tick \/ Kernel \/ \E k \in Slots : Answer(k) \/ TimeOut(k)

Spec == Init /\ [][Next]_vars

\* A tick lands, and finds a slot free again and again; what was answered
\* arrives; every request is answered, given up, or fails; a kernel asked for
\* the list again and again gives it, and obeys what nobody waits for.
Fairness ==
  /\ SF_vars(Tick)
  /\ \A k \in Slots :
       /\ WF_vars(Answer(k))
       /\ WF_vars(Serve(k) \/ List(k) \/ Fail(k) \/ TimeOut(k))
       /\ WF_vars(ServeOrphan(k))
  /\ SF_vars(\E k \in Slots : List(k))
  /\ SF_vars(\E k \in Slots : ConnectionsLoaded(k))

FairSpec == Spec /\ Fairness

-----------------------------------------------------------------------------
(* Properties *)

\* The row under the cursor exists whenever there is one: "x" takes the id of
\* a row without looking, whatever listings have come in since the last key.
CursorOnARow ==
  IF shown = <<>> THEN cursor = 0 ELSE cursor < Len(shown)

\* The prompt to close everything never waits on a tab that is not shown,
\* where the user would answer it with a key meant for something else.
PromptInSight == confirmAll => tab = "connections"

\* The parts of the page fit together: cursor and rows, prompt and tab.
PageOK == TypeOK /\ CursorOnARow /\ PromptInSight

\* Whoever stays on the tab after pressing its number gets to see the
\* connections there are, if these stop changing: no crossing of listings,
\* failures, visits and chains of ticks ends the refreshing.
ShowsTheConnections ==
  \A s \in SUBSET Conns :
    <>[](tab = "connections" /\ visited /\ live = s) => <>[](ToSet(shown) = s)
=============================================================================
