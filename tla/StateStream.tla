----------------------------- MODULE StateStream -----------------------------
(***************************************************************************)
(* How the terminal client learns the status of the kernel: through the    *)
(* event stream GET kernel/logs (control/control.go, sse/sse.go on the     *)
(* server; tui/client/sse.go, tui/shared/sse.go, tui/sse.go here), and by  *)
(* asking every second (tui/shared/cmd.go, tui/cmd.go).  The supervisor    *)
(* is module KernelStatus.                                                 *)
(*                                                                         *)
(* A callback runs under the supervisor's mutex, so a broadcast and the    *)
(* non-blocking send to stateCh are one step.  The handler takes an event  *)
(* from the channel and blocks while it pushes it; what it has pushed      *)
(* (socket buffers, the client's channel, Bubble Tea's queue) is a FIFO.   *)
(* Answers to polls overtake each other and the stream.                    *)
(*                                                                         *)
(* Left out: log lines, which have a channel of their own and only delay   *)
(* the handler.                                                            *)
(***************************************************************************)
EXTENDS KernelStatus, Naturals, Sequences

CONSTANTS
  StateCap,   \* capacity of stateCh
  WireCap,    \* bound: what socket and client buffer before Push blocks
  Polls,      \* bound: polls under way at once
  Unknown     \* no status: m.state == nil

ASSUME StreamAssumption ==
  /\ StateCap \in Nat \ {0}
  /\ WireCap \in Nat \ {0}
  /\ Unknown \notin Statuses /\ "idle" \notin Statuses /\ "asked" \notin Statuses

VARIABLES
  subscribed,  \* is the handler's callback in stateCbs?
  handler,     \* handleKernelLogs: its next step
  held,        \* the event it is pushing
  stateCh,
  connected,   \* does the client still listen?
  wire,        \* pushed, not yet seen by the client's Update
  view,        \* m.state
  poll,        \* [Polls -> "idle", "asked" or the status in the answer]
  dropped      \* history: stateCh was full at the last broadcast

server == <<subscribed, handler, held, stateCh, dropped>>
client == <<connected, wire, view>>
vars   == <<kernel, server, client, poll>>

Shown == Statuses \cup {Unknown}

TypeOK ==
  /\ KernelTypeOK
  /\ subscribed \in BOOLEAN
  /\ handler \in {"none", "seed", "push", "loop", "gone"}
  /\ held \in Shown
  /\ stateCh \in Seq(Statuses) /\ Len(stateCh) <= StateCap
  /\ connected \in BOOLEAN
  /\ wire \in Seq(Statuses) /\ Len(wire) <= WireCap
  /\ view \in Shown
  /\ poll \in [Polls -> Statuses \cup {"idle", "asked"}]
  /\ dropped \in BOOLEAN

\* The client starts at any time: the kernel is in any state it can be in.
Init ==
  /\ KernelInit
  /\ subscribed = FALSE /\ handler = "none" /\ held = Unknown
  /\ stateCh = <<>> /\ dropped = FALSE
  /\ connected = TRUE /\ wire = <<>> /\ view = Unknown
  /\ poll = [k \in Polls |-> "idle"]

-----------------------------------------------------------------------------
(* The supervisor *)

\* Mutant of Send: the snapshot was taken before the status was set.
Send_OldSnapshot ==
  IF subscribed /\ Len(stateCh) < StateCap
    THEN stateCh' = Append(stateCh, status) /\ dropped' = FALSE
    ELSE UNCHANGED stateCh /\ dropped' = subscribed

\* The handler's callback: when the channel is full the event is dropped.
Send ==
  IF subscribed /\ Len(stateCh) < StateCap
    THEN stateCh' = Append(stateCh, told') /\ dropped' = FALSE
    ELSE UNCHANGED stateCh /\ dropped' = subscribed

Broadcast ==
  /\ Telling
  /\ Send
  /\ UNCHANGED <<subscribed, handler, held, client, poll>>

Quiet == Silent /\ UNCHANGED <<server, client, poll>>

\* Dispose forgets all callbacks; the stream stays open.
Detach ==
  /\ phase = "idle" /\ stopRequested
  /\ subscribed
  /\ subscribed' = FALSE
  /\ UNCHANGED <<kernel, handler, held, stateCh, dropped, client, poll>>

-----------------------------------------------------------------------------
(* handleKernelLogs *)

\* The request of Subscribe arrives: OnLog and OnState.
Register ==
  /\ handler = "none" /\ connected
  /\ handler' = "seed"
  /\ subscribed' = TRUE
  /\ UNCHANGED <<kernel, held, stateCh, dropped, client, poll>>

\* State(), to be pushed first.
Seed ==
  /\ handler = "seed"
  /\ handler' = "push"
  /\ held' = status
  /\ UNCHANGED <<kernel, subscribed, stateCh, dropped, client, poll>>

Push ==
  /\ handler = "push"
  /\ connected /\ Len(wire) < WireCap
  /\ wire' = Append(wire, held)
  /\ held' = Unknown
  /\ handler' = "loop"
  /\ UNCHANGED <<kernel, subscribed, stateCh, dropped, connected, view, poll>>

Take ==
  /\ handler = "loop"
  /\ stateCh # <<>>
  /\ held' = Head(stateCh)
  /\ stateCh' = Tail(stateCh)
  /\ handler' = "push"
  /\ UNCHANGED <<kernel, subscribed, dropped, client, poll>>

\* The request's context is done or a Push failed: OffLog, OffState.
Return ==
  /\ handler \in {"push", "loop"} /\ ~connected
  /\ handler' = "gone"
  /\ subscribed' = FALSE
  /\ held' = Unknown /\ stateCh' = <<>> /\ dropped' = FALSE
  /\ UNCHANGED <<kernel, client, poll>>

-----------------------------------------------------------------------------
(* The client *)

\* KernelStateMsg; the command that waits for the next event is issued again.
Receive ==
  /\ wire # <<>>
  /\ view' = Head(wire)
  /\ wire' = Tail(wire)
  /\ UNCHANGED <<kernel, server, connected, poll>>

\* The request fails, the connection breaks or the program quits, with part
\* of what was on the wire still to come.  Nobody subscribes again.
Disconnect ==
  /\ connected
  /\ connected' = FALSE
  /\ \E n \in 0 .. Len(wire) : wire' = SubSeq(wire, 1, n)
  /\ UNCHANGED <<kernel, server, view, poll>>

\* Mutant of Ask: the tick is not renewed once a status is known.
Ask_Once(k) ==
  /\ poll[k] = "idle" /\ view = Unknown
  /\ poll' = [poll EXCEPT ![k] = "asked"]
  /\ UNCHANGED <<kernel, server, client>>

\* FetchStatus, at the start and on every TickMsg.
Ask(k) ==
  /\ poll[k] = "idle"
  /\ poll' = [poll EXCEPT ![k] = "asked"]
  /\ UNCHANGED <<kernel, server, client>>

\* GET kernel/status reads State(); so does the answer of a lifecycle call.
Answer(k) ==
  /\ poll[k] = "asked"
  /\ poll' = [poll EXCEPT ![k] = status]
  /\ UNCHANGED <<kernel, server, client>>

\* StatusErrorMsg: no answer in time, or none that can be used.
PollFails(k) ==
  /\ poll[k] # "idle"
  /\ poll' = [poll EXCEPT ![k] = "idle"]
  /\ UNCHANGED <<kernel, server, client>>

\* StatusLoadedMsg
Land(k) ==
  /\ poll[k] \in Statuses
  /\ view' = poll[k]
  /\ poll' = [poll EXCEPT ![k] = "idle"]
  /\ UNCHANGED <<kernel, server, connected, wire>>

-----------------------------------------------------------------------------
Stream == Register \/ Seed \/ Push \/ Take \/ Return \/ Receive

Polling == \E k \in Polls : Ask(k) \/ Answer(k) \/ PollFails(k) \/ Land(k)

Next == Broadcast \/ Quiet \/ Detach \/ Stream \/ Disconnect \/ Polling

(***************************************************************************)
(* Fairness.  Goroutines run and what is sent arrives, or the connection   *)
(* breaks; the tick comes every second; a server that is asked again and   *)
(* again does answer.  Nothing is assumed of the supervisor.               *)
(***************************************************************************)
Fairness ==
  /\ WF_vars(Push) /\ WF_vars(Take) /\ WF_vars(Return) /\ WF_vars(Receive)
  /\ \A k \in Polls : WF_vars(Ask(k)) /\ SF_vars(Answer(k)) /\ SF_vars(Land(k))

Spec     == Init /\ [][Next]_vars
FairSpec == Spec /\ Fairness

-----------------------------------------------------------------------------
(* Properties *)

\* The newest of the events that are on their way, if any.
Newest ==
  IF stateCh # <<>> THEN stateCh[Len(stateCh)]
  ELSE IF handler = "push" THEN held
  ELSE IF wire # <<>> THEN wire[Len(wire)]
  ELSE Unknown

\* What the stream says last is the present status, unless its last event was
\* dropped or the status was changed without a broadcast: registering before
\* seeding leaves no gap, although the seed may overtake older events.
StreamIsCurrent ==
  subscribed /\ connected /\ ~dropped /\ told = status
    => Newest \in {status, Unknown}

\* Whatever the stream loses and however answers overtake one another, the
\* client shows the status of the kernel once that stops changing.
Converges ==
  []<><<status' # status>>_vars \/ <>[](view = status)
=============================================================================
