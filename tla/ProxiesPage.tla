---------------------------- MODULE ProxiesPage ----------------------------
(***************************************************************************)
(* The Proxy tab of the terminal client (tui/pages/proxies, with           *)
(* tui/route_msg.go): the groups of the kernel, each with its members if   *)
(* it is expanded, a cursor over these rows, the part of them that fits    *)
(* the screen, and tests of a group's delay.                               *)
(*                                                                         *)
(* Requests go through the clash proxy to the kernel, which may have been  *)
(* restarted with another profile in between.  Each runs on its own and    *)
(* its answer is a message to the one Update loop; answers come in any     *)
(* order.  Left out: the mode (a value of its own, with two messages of    *)
(* its own), the delays themselves, and the other tabs, which only take    *)
(* keys away from this one.  A group has the same members in every profile *)
(* that has the group; the code takes them from each listing.              *)
(***************************************************************************)
EXTENDS Integers, SequencesExt

CONSTANTS
  Groups,
  All,        \* [Groups -> Seq(nodes)]: the members of a group
  Layouts,    \* bound: the orders of groups a profile may have
  Heights,    \* bound: lines the terminal has for rows
  Slots,      \* bound: requests under way at once
  Nothing     \* no group or member

Nodes == UNION {ToSet(All[g]) : g \in Groups}

ASSUME ProxiesAssumption ==
  /\ Nothing \notin Groups \cup Nodes
  /\ All \in [Groups -> Seq(Nodes)] /\ \A g \in Groups : All[g] # <<>>
  /\ Layouts \subseteq Seq(Groups) /\ \A l \in Layouts : IsInjective(l)
  /\ Heights \subseteq Nat \ {0}

VARIABLES
  order,      \* kernel: its groups
  now,        \* kernel: [Groups -> selected member]
  groups,     \* m.groups
  shown,      \* the Now of m.resp.Proxies
  expanded,
  cursor,
  scrollTop,
  vh,         \* visibleHeight() of the last SetSize
  testing,    \* groups with testing[g]
  call,       \* [Slots -> request]
  resized,    \* history: the height changed after scrollTop was adjusted
  outdated    \* history: since the newest answer shown was given, a request
              \* failed or somebody else changed something

kernel == <<order, now>>
data   == <<groups, shown>>
window == <<expanded, cursor, scrollTop, vh>>
vars   == <<kernel, data, window, testing, call, resized, outdated>>

\* A request: sent, done, or given up by the client only (orphan).
Free == [op |-> "none", group |-> Nothing, arg |-> Nothing, at |-> "sent",
         groups |-> <<>>, now |-> [g \in Groups |-> Nothing], old |-> FALSE]

Request(op, g, x) == [Free EXCEPT !.op = op, !.group = g, !.arg = x]
List == Request("list", Nothing, Nothing)

Selections == [Groups -> Nodes \cup {Nothing}]

TypeOK ==
  /\ order \in Layouts /\ now \in Selections
  /\ groups \in Layouts \cup {<<>>} /\ shown \in Selections
  /\ expanded \subseteq Groups /\ testing \subseteq Groups
  /\ cursor \in Nat /\ scrollTop \in Nat /\ vh \in Heights
  /\ \A k \in Slots :
       /\ call[k].op \in {"none", "list", "select", "delay"}
       /\ call[k].at \in {"sent", "done", "orphan"}
       /\ call[k].op \in {"select", "delay"} => call[k].group \in Groups
       /\ call[k].groups \in Layouts \cup {<<>>}
  /\ resized \in BOOLEAN /\ outdated \in BOOLEAN

\* The tab before its first visit.
Init ==
  /\ order \in Layouts
  /\ now = [g \in Groups |-> All[g][1]]
  /\ groups = <<>> /\ shown = [g \in Groups |-> Nothing]
  /\ expanded = {} /\ cursor = 0 /\ scrollTop = 0 /\ vh \in Heights
  /\ testing = {}
  /\ call = [k \in Slots |-> Free]
  /\ resized = FALSE /\ outdated = TRUE

-----------------------------------------------------------------------------
(* Rows *)

\* buildRows: a group, then its members if it is expanded.
Rows(gs, ex) ==
  FlattenSeq([i \in DOMAIN gs |->
    <<[group |-> gs[i], member |-> Nothing]>>
      \o IF gs[i] \in ex
           THEN [j \in DOMAIN All[gs[i]] |->
                   [group |-> gs[i], member |-> All[gs[i]][j]]]
           ELSE <<>>])

rows == Rows(groups, expanded)
Here == rows[cursor + 1]

\* adjustScroll: no lines left empty at the end if there are rows above, then
\* the cursor within the window.
Adjusted(top, c, n) ==
  LET fit  == IF top + vh <= n THEN top ELSE IF n < vh THEN 0 ELSE n - vh
      low  == IF c < fit THEN c ELSE fit
  IN  IF n = 0 THEN 0 ELSE IF c >= low + vh THEN c - vh + 1 ELSE low

\* The window after a change of rows or cursor.
Shows(gs, ex, c) ==
  /\ groups' = gs /\ expanded' = ex /\ cursor' = c
  /\ scrollTop' = Adjusted(scrollTop, c, Len(Rows(gs, ex)))
  /\ resized' = FALSE
  /\ UNCHANGED vh

Issue(req) ==
  \E k \in Slots : call[k] = Free /\ call' = [call EXCEPT ![k] = req]

-----------------------------------------------------------------------------
(* Keys *)

\* "up" and "down"
MoveCursor(delta) ==
  /\ IF rows = <<>>
       THEN Shows(groups, expanded, 0)
       ELSE Shows(groups, expanded,
                  CHOOSE c \in 0 .. Len(rows) - 1 :
                    \/ c = cursor + delta
                    \/ c = cursor /\ cursor + delta \notin 0 .. Len(rows) - 1)
  /\ UNCHANGED <<kernel, shown, testing, call, outdated>>

\* "enter" on a group
Toggle ==
  /\ cursor < Len(rows) /\ Here.member = Nothing
  /\ Shows(groups, (expanded \cup {Here.group}) \ (expanded \cap {Here.group}),
           cursor)
  /\ UNCHANGED <<kernel, shown, testing, call, outdated>>

\* "enter" on a member
Switch ==
  /\ cursor < Len(rows) /\ Here.member # Nothing
  /\ Issue(Request("select", Here.group, Here.member))
  /\ UNCHANGED <<kernel, data, window, testing, resized, outdated>>

\* Mutant of Collapse: the cursor stays where it is.
Collapse_KeepsCursor ==
  /\ cursor < Len(rows)
  /\ Shows(groups, expanded \ {Here.group}, cursor)
  /\ UNCHANGED <<kernel, shown, testing, call, outdated>>

\* "left": the cursor goes to the row of the group.
Collapse ==
  /\ cursor < Len(rows)
  /\ \E i \in DOMAIN rows :
       /\ rows[i] = [group |-> Here.group, member |-> Nothing]
       /\ Shows(groups, expanded \ {Here.group}, i - 1)
  /\ UNCHANGED <<kernel, shown, testing, call, outdated>>

\* "d"
TestDelay ==
  /\ cursor < Len(rows) /\ Here.member = Nothing
  /\ Here.group \notin testing
  /\ testing' = testing \cup {Here.group}
  /\ Issue(Request("delay", Here.group, Nothing))
  /\ UNCHANGED <<kernel, data, window, resized, outdated>>

\* "r", or the number of the tab
Refresh ==
  /\ Issue(List)
  /\ UNCHANGED <<kernel, data, window, testing, resized, outdated>>

\* The terminal gets another size: SetSize does not adjust scrollTop.
Resize ==
  /\ vh' \in Heights \ {vh}
  /\ resized' = TRUE
  /\ UNCHANGED <<kernel, data, expanded, cursor, scrollTop, testing, call,
                 outdated>>

-----------------------------------------------------------------------------
(* The kernel *)

\* A listing that is on its way does not know of a change.
Aged ==
  [k \in Slots |-> IF call[k].op = "list" /\ call[k].at = "done"
                     THEN [call[k] EXCEPT !.old = TRUE] ELSE call[k]]

Read(k) ==
  /\ call[k].op = "list" /\ call[k].at = "sent"
  /\ call' = [Aged EXCEPT ![k].at = "done", ![k].groups = order, ![k].now = now]
  /\ UNCHANGED <<kernel, data, window, testing, resized, outdated>>

\* A group that is gone, or lacks the member, refuses the selection.
Obeys(c) ==
  /\ c.op = "select" /\ c.group \in ToSet(order)
  /\ now' = [now EXCEPT ![c.group] = c.arg]
  /\ UNCHANGED order

Serve(k) ==
  /\ call[k].at = "sent"
  /\ Obeys(call[k]) \/ (call[k].op = "delay" /\ UNCHANGED kernel)
  /\ call' = [call EXCEPT ![k].at = "done"]
  /\ UNCHANGED <<data, window, testing, resized, outdated>>

\* The root shows an error and the page never hears of it; only the end of a
\* delay test reaches it whatever it brings.
Told(c) == testing' = testing \ {c.group}

\* No kernel runs, or it refuses.
Fail(k) ==
  /\ call[k].op # "none" /\ call[k].at = "sent"
  /\ call' = [Aged EXCEPT ![k] = Free]
  /\ IF call[k].op = "delay" THEN Told(call[k]) ELSE UNCHANGED testing
  /\ outdated' = TRUE
  /\ UNCHANGED <<kernel, data, window, resized>>

\* The client's 30 s are over.
TimeOut(k) ==
  /\ call[k].op # "none" /\ call[k].at # "orphan"
  /\ call' = [Aged EXCEPT ![k] =
                IF call[k].at = "sent" /\ call[k].op = "select"
                  THEN [call[k] EXCEPT !.at = "orphan"] ELSE Free]
  /\ IF call[k].op = "delay" THEN Told(call[k]) ELSE UNCHANGED testing
  /\ outdated' = TRUE
  /\ UNCHANGED <<kernel, data, window, resized>>

ServeOrphan(k) ==
  /\ call[k].at = "orphan"
  /\ Obeys(call[k]) \/ UNCHANGED kernel
  /\ call' = [Aged EXCEPT ![k] = Free]
  /\ outdated' = TRUE
  /\ UNCHANGED <<data, window, testing, resized>>

\* The kernel is restarted with another profile; or another client, or the kernel
\* by itself (a url-test or fallback group, after a test), selects another member.
OthersChange ==
  /\ \/ order' \in Layouts \ {order} /\ UNCHANGED now
     \/ \E g \in ToSet(order) : \E n \in ToSet(All[g]) \ {now[g]} :
          now' = [now EXCEPT ![g] = n] /\ UNCHANGED order
  /\ call' = Aged
  /\ outdated' = TRUE
  /\ UNCHANGED <<data, window, testing, resized>>

-----------------------------------------------------------------------------
(* Answers *)

\* Mutant of ProxiesLoaded: the cursor is not looked at.
ProxiesLoaded_KeepsCursor(k) ==
  /\ call[k].op = "list" /\ call[k].at = "done"
  /\ Shows(call[k].groups, expanded, cursor)
  /\ shown' = call[k].now
  /\ call' = [call EXCEPT ![k] = Free]
  /\ outdated' = call[k].old
  /\ UNCHANGED <<kernel, testing>>

\* ProxiesLoadedMsg: a cursor past the end goes back to the top.
ProxiesLoaded(k) ==
  /\ call[k].op = "list" /\ call[k].at = "done"
  /\ LET n == Len(Rows(call[k].groups, expanded))
     IN  Shows(call[k].groups, expanded, IF cursor < n THEN cursor ELSE 0)
  /\ shown' = call[k].now
  /\ call' = [call EXCEPT ![k] = Free]
  /\ outdated' = call[k].old
  /\ UNCHANGED <<kernel, testing>>

\* Mutant of OpDone: the page shows what it has asked for.
OpDone_Trusts(k) ==
  /\ call[k].op = "select" /\ call[k].at = "done"
  /\ call' = [call EXCEPT ![k] = Free]
  /\ UNCHANGED <<kernel, data, window, testing, resized, outdated>>

\* ProxyOpMsg
OpDone(k) ==
  /\ call[k].op = "select" /\ call[k].at = "done"
  /\ call' = [call EXCEPT ![k] = List]
  /\ UNCHANGED <<kernel, data, window, testing, resized, outdated>>

\* GroupDelayMsg
GroupDelay(k) ==
  /\ call[k].op = "delay" /\ call[k].at = "done"
  /\ Told(call[k])
  /\ call' = [call EXCEPT ![k] = Free]
  /\ UNCHANGED <<kernel, data, window, resized, outdated>>

-----------------------------------------------------------------------------
Key == \/ \E delta \in {-1, 1} : MoveCursor(delta)
       \/ Toggle \/ Switch \/ Collapse
       \/ TestDelay \/ Refresh \/ Resize

Server == \/ OthersChange
          \/ \E k \in Slots : Read(k) \/ Serve(k) \/ Fail(k) \/ ServeOrphan(k)

Answer == \E k \in Slots : \/ ProxiesLoaded(k) \/ OpDone(k) \/ GroupDelay(k)
                           \/ TimeOut(k)

Next == Key \/ Server \/ Answer

Spec == Init /\ [][Next]_vars

-----------------------------------------------------------------------------
(* Properties *)

\* The frame can be drawn (its slice of the rows starts within them) and the
\* cursor is on a row, whatever listings, keys and sizes come in whatever
\* order.  Unless the terminal was resized since, the cursor is in sight and
\* no line is left empty while there are rows above.
CursorInSight ==
  /\ scrollTop <= Len(rows)
  /\ rows # <<>> => cursor < Len(rows)
  /\ rows # <<>> /\ ~resized =>
       /\ cursor \in scrollTop .. scrollTop + vh - 1
       /\ scrollTop = 0 \/ scrollTop + vh <= Len(rows)

\* A group is marked as being tested exactly while one test of it is under
\* way: no mark outlives its test, though the groups may have been replaced,
\* the test refused or given up, and no second test is sent.
MarkedWhileTested ==
  \A g \in Groups :
    LET tests == {k \in Slots : call[k].op = "delay" /\ call[k].group = g}
    IN  /\ g \in testing <=> tests # {}
        /\ \A j, k \in tests : j = k

\* The parts of the page fit together: cursor, window and rows, marks and tests.
PageOK == TypeOK /\ CursorInSight /\ MarkedWhileTested

\* Expanding and collapsing leave the cursor on the same group, so that the
\* next key acts on the group the user was looking at.
KeepsTheGroup ==
  [][expanded' # expanded =>
       cursor' < Len(rows') /\ Here'.group = Here.group]_vars

\* Once no request is under way the page shows the kernel's groups and their
\* selections, unless listings were shown out of order, a request failed or
\* somebody else changed something.
ShowsTheKernel ==
  (\A k \in Slots : call[k] = Free) /\ ~outdated
    => groups = order /\ shown = now
=============================================================================
