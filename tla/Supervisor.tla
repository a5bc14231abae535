----------------------------- MODULE Supervisor -----------------------------
(***************************************************************************)
(* The kernel supervisor, internal/server/supervisor/supervisor.go.        *)
(*                                                                         *)
(* Lifecycle calls (Start, Stop, Restart, Dispose) and the callback of the *)
(* backoff timer hold lifeMu from end to end, so at most one of them is    *)
(* under way: `op` names it, `pc` is its next step, and pc = "idle" means  *)
(* that lifeMu is free.  A call that waits for lifeMu has no state.  Every *)
(* other goroutine (a watchExit per process, the timer callbacks) runs     *)
(* between any two critical sections of mu, so an action is one critical   *)
(* section of mu together with the effects that follow it outside mu and   *)
(* that nobody but the same goroutine can observe.                         *)
(*                                                                         *)
(* A process is named by its spawn number.  Its exit arms at most one      *)
(* backoff timer and its becoming ready at most one stability timer, so    *)
(* both timers carry the number of the process.                            *)
(***************************************************************************)
EXTENDS Integers

CONSTANTS
  MaxSpawns,    \* bound: exec.Cmd.Start fails once this many were spawned
  MaxRestarts,  \* Options.MaxRestarts
  AutoRestart   \* Options.AutoRestart

ASSUME SupervisorAssumption ==
  /\ MaxSpawns \in Nat
  /\ MaxRestarts \in Nat
  /\ AutoRestart \in BOOLEAN

Procs == 1 .. MaxSpawns
None  == 0                       \* a nil *childProc or *time.Timer

VARIABLES
  \* guarded by mu
  status,           \* state.Status
  told,             \* the status the OnState callbacks were last given
  child,            \* the tracked process
  intentionalStop,
  restartCount,
  restartTimer,     \* pointer to the backoff timer
  stableTimer,      \* pointer to the stability timer
  \* the runtime's timers: "armed", then "fired" (callback started), or "off"
  backoff,          \* [Procs -> timer state]
  stability,        \* [Procs -> timer state]
  \* the operating system and the watchExit goroutines
  proc,             \* [Procs -> {"unborn", "alive", "dead"}]
  killed,           \* processes that were sent SIGKILL
  watcher,          \* [Procs -> next step of watchExit]
  \* the holder of lifeMu
  op, pc,
  cur,              \* its childProc
  \* history: is the last request made by a user one to run the kernel?
  wanted,
  \* history: has the watchdog started a kernel over a tracked one?
  overlap

timers == <<restartTimer, stableTimer, backoff, stability>>
os     == <<proc, killed>>
holder == <<op, pc, cur>>
ghost  == <<wanted, overlap>>
vars   == <<status, told, child, intentionalStop, restartCount, timers, os,
            watcher, holder, ghost>>

Statuses == {"stopped", "starting", "running", "stopping", "errored"}
Alive    == {p \in Procs : proc[p] = "alive"}

TypeOK ==
  /\ status \in Statuses
  /\ told \in Statuses
  /\ child \in Procs \cup {None}
  /\ intentionalStop \in BOOLEAN
  /\ restartCount \in 0 .. MaxRestarts
  /\ restartTimer \in Procs \cup {None}
  /\ stableTimer \in Procs \cup {None}
  /\ backoff \in [Procs -> {"off", "armed", "fired"}]
  /\ stability \in [Procs -> {"off", "armed", "fired"}]
  /\ proc \in [Procs -> {"unborn", "alive", "dead"}]
  /\ killed \in SUBSET Procs
  /\ watcher \in [Procs -> {"none", "wait", "schedule", "done"}]
  /\ op \in {"none", "start", "stop", "restart", "dispose", "timer"}
  /\ pc \in {"idle", "begin", "spawn", "track", "poll", "request", "answered",
             "arm", "notReady", "reap", "term", "detach"}
  /\ cur \in Procs \cup {None}
  /\ wanted \in BOOLEAN
  /\ overlap \in BOOLEAN

Init ==
  /\ status = "stopped"
  /\ told = "stopped"
  /\ child = None
  /\ intentionalStop = FALSE
  /\ restartCount = 0
  /\ restartTimer = None
  /\ stableTimer = None
  /\ backoff = [p \in Procs |-> "off"]
  /\ stability = [p \in Procs |-> "off"]
  /\ proc = [p \in Procs |-> "unborn"]
  /\ killed = {}
  /\ watcher = [p \in Procs |-> "none"]
  /\ op = "none"
  /\ pc = "idle"
  /\ cur = None
  /\ wanted = FALSE
  /\ overlap = FALSE

-----------------------------------------------------------------------------
(* Timers.  Timer.Stop prevents an armed timer from firing and does nothing *)
(* to one whose callback has started.                                      *)

Stopped(ts, t) == [p \in Procs |-> IF p = t /\ ts[p] = "armed"
                                     THEN "off" ELSE ts[p]]

\* cancelRestartTimerLocked
CancelRestartTimer ==
  /\ backoff' = Stopped(backoff, restartTimer)
  /\ restartTimer' = None

\* cancelStabilityResetLocked
CancelStabilityReset ==
  /\ stability' = Stopped(stability, stableTimer)
  /\ stableTimer' = None

\* broadcastStateLocked, with the status just set.
Broadcast(s) == status' = s /\ told' = s

Goto(step) == pc' = step /\ UNCHANGED <<op, cur>>

\* lifeMu is released; the locals of the call are gone.
Release == op' = "none" /\ pc' = "idle" /\ cur' = None

-----------------------------------------------------------------------------
(* doStart *)

\* Start: a kernel that runs or starts is left alone.
Start ==
  /\ pc = "idle"
  /\ status \notin {"running", "starting"}
  /\ op' = "start" /\ pc' = "begin" /\ cur' = None
  /\ wanted' = TRUE
  /\ UNCHANGED <<status, told, child, intentionalStop, restartCount, timers,
                 os, watcher, overlap>>

\* Mutant of BeginStart: the flag of an earlier stop is not cleared.
BeginStart_KeepsFlag ==
  /\ pc = "begin"
  /\ Broadcast("starting")
  /\ overlap' = (overlap \/ (op = "timer" /\ child # None))
  /\ Goto("spawn")
  /\ UNCHANGED <<child, intentionalStop, restartCount, timers, os, watcher,
                 wanted>>

\* The first critical section of doStart.
BeginStart ==
  /\ pc = "begin"
  /\ intentionalStop' = FALSE
  /\ Broadcast("starting")
  /\ overlap' = (overlap \/ (op = "timer" /\ child # None))
  /\ Goto("spawn")
  /\ UNCHANGED <<child, restartCount, timers, os, watcher, wanted>>

\* injectClashConfig, a pipe or exec.Cmd.Start failed: failStart.
FailStart ==
  /\ pc = "spawn"
  /\ Broadcast("errored")
  /\ Release
  /\ UNCHANGED <<child, intentionalStop, restartCount, timers, os, watcher,
                 ghost>>

\* cmd.Start: the process exists, the supervisor does not track it yet.
SpawnKernel ==
  /\ pc = "spawn"
  /\ \E p \in Procs :
       /\ proc[p] = "unborn"
       /\ \A q \in Procs : q < p => proc[q] # "unborn"
       /\ proc' = [proc EXCEPT ![p] = "alive"]
       /\ cur' = p
  /\ pc' = "track"
  /\ UNCHANGED <<status, told, child, intentionalStop, restartCount, timers,
                 killed, watcher, op, ghost>>

\* s.child = c, then the watchExit goroutine is started.
Track ==
  /\ pc = "track"
  /\ child' = cur
  /\ watcher' = [watcher EXCEPT ![cur] = "wait"]
  /\ Broadcast(status)
  /\ Goto("poll")
  /\ UNCHANGED <<intentionalStop, restartCount, timers, os, ghost>>

(* pollReady: at the head of the loop the deadline and the status are      *)
(* checked, then a request is sent with mu released.                       *)

PollTimeout ==
  /\ pc = "poll"
  /\ Goto("notReady")
  /\ UNCHANGED <<status, told, child, intentionalStop, restartCount, timers,
                 os, watcher, ghost>>

PollGiveUp ==
  /\ pc = "poll"
  /\ status = "errored"
  /\ Goto("notReady")
  /\ UNCHANGED <<status, told, child, intentionalStop, restartCount, timers,
                 os, watcher, ghost>>

PollRequest ==
  /\ pc = "poll"
  /\ status # "errored"
  /\ Goto("request")
  /\ UNCHANGED <<status, told, child, intentionalStop, restartCount, timers,
                 os, watcher, ghost>>

\* No answer, or not a 200: sleep and loop.
PollRetry ==
  /\ pc = "request"
  /\ Goto("poll")
  /\ UNCHANGED <<status, told, child, intentionalStop, restartCount, timers,
                 os, watcher, ghost>>

\* A 200 arrives.  Whoever listens on the controller address sent it: any
\* kernel that is alive, not necessarily the one just spawned.
PollAnswer ==
  /\ pc = "request"
  /\ Alive # {}
  /\ Goto("answered")
  /\ UNCHANGED <<status, told, child, intentionalStop, restartCount, timers,
                 os, watcher, ghost>>

\* Mutant of SetRunning: the callbacks are not told.
SetRunning_Untold ==
  /\ pc = "answered"
  /\ status' = "running"
  /\ Goto("arm")
  /\ UNCHANGED <<told, child, intentionalStop, restartCount, timers, os,
                 watcher, ghost>>

\* The status is overwritten without a second look at it.
SetRunning ==
  /\ pc = "answered"
  /\ Broadcast("running")
  /\ Goto("arm")
  /\ UNCHANGED <<child, intentionalStop, restartCount, timers, os, watcher,
                 ghost>>

\* armStabilityReset, after which doStart returns the running state.
ArmStability ==
  /\ pc = "arm"
  /\ IF AutoRestart
       THEN /\ stability' = [Stopped(stability, stableTimer)
                               EXCEPT ![cur] = "armed"]
            /\ stableTimer' = cur
       ELSE UNCHANGED <<stability, stableTimer>>
  /\ Release
  /\ UNCHANGED <<status, told, child, intentionalStop, restartCount,
                 restartTimer, backoff, os, watcher, ghost>>

\* Not ready: errored, then SIGKILL for the process group.
NotReady ==
  /\ pc = "notReady"
  /\ IF status = "errored" THEN UNCHANGED <<status, told>>
                           ELSE Broadcast("errored")
  /\ killed' = killed \cup {cur}
  /\ Goto("reap")
  /\ UNCHANGED <<child, intentionalStop, restartCount, timers, proc, watcher,
                 ghost>>

\* <-c.done
Reaped ==
  /\ pc = "reap"
  /\ watcher[cur] = "done"
  /\ Release
  /\ UNCHANGED <<status, told, child, intentionalStop, restartCount, timers,
                 os, watcher, ghost>>

-----------------------------------------------------------------------------
(* doStop (Stop inlines the same body) *)

\* Where the call goes on once doStop has returned.
AfterStop(o) ==
  CASE o = "stop"    -> Release
    [] o = "restart" -> op' = o /\ pc' = "begin" /\ cur' = None
    [] o = "dispose" -> op' = o /\ pc' = "detach" /\ cur' = None

BeginStop(o) ==
  /\ pc = "idle"
  /\ intentionalStop' = TRUE
  /\ restartCount' = 0
  /\ CancelRestartTimer
  /\ CancelStabilityReset
  /\ wanted' = (o = "restart")
  /\ IF child = None
       THEN status' = "stopped" /\ AfterStop(o)
       ELSE status' = "stopping" /\ op' = o /\ pc' = "term" /\ cur' = child
  /\ UNCHANGED <<told, child, os, watcher, overlap>>

\* Mutant of StopTimeout: no escalation to SIGKILL.
StopTimeout_NoKill ==
  /\ pc = "term"
  /\ UNCHANGED vars

\* StopTimeout elapsed after SIGTERM: escalate.
StopTimeout ==
  /\ pc = "term"
  /\ cur \notin killed
  /\ killed' = killed \cup {cur}
  /\ UNCHANGED <<status, told, child, intentionalStop, restartCount, timers,
                 proc, watcher, holder, ghost>>

\* Mutant of StopDone: it does not wait for the process to be gone.
StopDone_NoWait ==
  /\ pc = "term"
  /\ child' = None
  /\ status' = "stopped"
  /\ AfterStop(op)
  /\ UNCHANGED <<told, intentionalStop, restartCount, timers, os, watcher,
                 ghost>>

\* <-c.done, then the closing critical section.
StopDone ==
  /\ pc = "term"
  /\ watcher[cur] = "done"
  /\ child' = None
  /\ status' = "stopped"
  /\ AfterStop(op)
  /\ UNCHANGED <<told, intentionalStop, restartCount, timers, os, watcher,
                 ghost>>

\* Dispose cancels the timers once more and drops the callbacks.
Detach ==
  /\ pc = "detach"
  /\ CancelRestartTimer
  /\ CancelStabilityReset
  /\ Release
  /\ UNCHANGED <<status, told, child, intentionalStop, restartCount, os,
                 watcher, ghost>>

-----------------------------------------------------------------------------
(* The operating system and watchExit *)

\* A kernel exits: it crashes, or it obeys SIGTERM or SIGKILL.
KernelExit(p) ==
  /\ proc[p] = "alive"
  /\ proc' = [proc EXCEPT ![p] = "dead"]
  /\ UNCHANGED <<status, told, child, intentionalStop, restartCount, timers,
                 killed, watcher, holder, ghost>>

\* May an unexpected exit be retried?
HasBudget == AutoRestart /\ restartCount < MaxRestarts

\* A process that is no longer the tracked one: close(done), nothing else.
SupersededExit(p) ==
  /\ watcher[p] = "wait"
  /\ proc[p] = "dead"
  /\ child # p
  /\ watcher' = [watcher EXCEPT ![p] = "done"]
  /\ UNCHANGED <<status, told, child, intentionalStop, restartCount, timers,
                 os, holder, ghost>>

\* Mutant of TrackedExit: the status is left to the start that is due.
TrackedExit_KeepsStatus(p) ==
  LET crashed == status \in {"starting", "running", "stopping"}
                   /\ ~intentionalStop
      retry   == crashed /\ HasBudget
  IN  /\ watcher[p] = "wait"
      /\ proc[p] = "dead"
      /\ child = p
      /\ child' = None
      /\ CancelStabilityReset
      /\ Broadcast(IF retry THEN status ELSE IF crashed THEN "errored" ELSE "stopped")
      /\ restartCount' = IF retry THEN restartCount + 1 ELSE restartCount
      /\ watcher' = [watcher EXCEPT ![p] = IF retry THEN "schedule" ELSE "done"]
      /\ UNCHANGED <<intentionalStop, restartTimer, backoff, os, holder,
                     ghost>>

\* cmd.Wait returned for the tracked process.  done is closed right after,
\* or after scheduleRestart when a retry is due.
TrackedExit(p) ==
  LET crashed == status \in {"starting", "running", "stopping"}
                   /\ ~intentionalStop
      retry   == crashed /\ HasBudget
  IN  /\ watcher[p] = "wait"
      /\ proc[p] = "dead"
      /\ child = p
      /\ child' = None
      /\ CancelStabilityReset
      /\ Broadcast(IF crashed THEN "errored" ELSE "stopped")
      /\ restartCount' = IF retry THEN restartCount + 1 ELSE restartCount
      /\ watcher' = [watcher EXCEPT ![p] = IF retry THEN "schedule" ELSE "done"]
      /\ UNCHANGED <<intentionalStop, restartTimer, backoff, os, holder,
                     ghost>>

\* Mutant of ScheduleRestart: the timer is stopped after the new one was
\* stored in the pointer.
ScheduleRestart_StopsNew(p) ==
  /\ watcher[p] = "schedule"
  /\ backoff' = Stopped([backoff EXCEPT ![p] = "armed"], p)
  /\ restartTimer' = p
  /\ watcher' = [watcher EXCEPT ![p] = "done"]
  /\ UNCHANGED <<status, told, child, intentionalStop, restartCount,
                 stableTimer, stability, os, holder, ghost>>

\* scheduleRestart, in a critical section of its own, then close(done).
ScheduleRestart(p) ==
  /\ watcher[p] = "schedule"
  /\ backoff' = [Stopped(backoff, restartTimer) EXCEPT ![p] = "armed"]
  /\ restartTimer' = p
  /\ watcher' = [watcher EXCEPT ![p] = "done"]
  /\ UNCHANGED <<status, told, child, intentionalStop, restartCount,
                 stableTimer, stability, os, holder, ghost>>

-----------------------------------------------------------------------------
(* Timer callbacks.  Firing starts a goroutine that then waits for a lock. *)

BackoffFires(p) ==
  /\ backoff[p] = "armed"
  /\ backoff' = [backoff EXCEPT ![p] = "fired"]
  /\ UNCHANGED <<status, told, child, intentionalStop, restartCount,
                 restartTimer, stableTimer, stability, os, watcher, holder,
                 ghost>>

\* Mutant of BackoffCallback: it does not look at the stop flag.
BackoffCallback_NoBail(p) ==
  /\ pc = "idle"
  /\ backoff[p] = "fired"
  /\ backoff' = [backoff EXCEPT ![p] = "off"]
  /\ restartTimer' = None
  /\ op' = "timer" /\ pc' = "begin" /\ cur' = None
  /\ UNCHANGED <<status, told, child, intentionalStop, restartCount,
                 stableTimer, stability, os, watcher, ghost>>

\* The callback got lifeMu.  It forgets the pointer, whichever timer that is
\* by now, and starts a kernel unless the user asked for a stop.
BackoffCallback(p) ==
  /\ pc = "idle"
  /\ backoff[p] = "fired"
  /\ backoff' = [backoff EXCEPT ![p] = "off"]
  /\ restartTimer' = None
  /\ IF intentionalStop
       THEN UNCHANGED holder
       ELSE op' = "timer" /\ pc' = "begin" /\ cur' = None
  /\ UNCHANGED <<status, told, child, intentionalStop, restartCount,
                 stableTimer, stability, os, watcher, ghost>>

StabilityFires(p) ==
  /\ stability[p] = "armed"
  /\ stability' = [stability EXCEPT ![p] = "fired"]
  /\ UNCHANGED <<status, told, child, intentionalStop, restartCount,
                 restartTimer, stableTimer, backoff, os, watcher, holder,
                 ghost>>

\* The crash counter is reset if the kernel runs when the callback gets mu.
StabilityCallback(p) ==
  /\ stability[p] = "fired"
  /\ stability' = [stability EXCEPT ![p] = "off"]
  /\ stableTimer' = None
  /\ restartCount' = IF status = "running" THEN 0 ELSE restartCount
  /\ UNCHANGED <<status, told, child, intentionalStop, restartTimer, backoff,
                 os, watcher, holder, ghost>>

-----------------------------------------------------------------------------
User == Start \/ \E o \in {"stop", "restart", "dispose"} : BeginStop(o)

\* The steps of the call that holds lifeMu.
Lifecycle ==
  \/ BeginStart \/ FailStart \/ SpawnKernel \/ Track
  \/ PollTimeout \/ PollGiveUp \/ PollRequest \/ PollRetry \/ PollAnswer
  \/ SetRunning \/ ArmStability \/ NotReady \/ Reaped
  \/ StopTimeout \/ StopDone \/ Detach

Background ==
  \E p \in Procs :
    \/ KernelExit(p)
    \/ SupersededExit(p) \/ TrackedExit(p) \/ ScheduleRestart(p)
    \/ BackoffFires(p) \/ BackoffCallback(p)
    \/ StabilityFires(p) \/ StabilityCallback(p)

Next == User \/ Lifecycle \/ Background

Spec == Init /\ [][Next]_vars

-----------------------------------------------------------------------------
(* What the rest of the server may rely on: module KernelStatus. *)

\* A call that waits to begin, or that only has timers to cancel, is not yet
\* or no longer one as far as the status goes.
phase ==
  CASE pc \in {"idle", "begin", "detach"} -> "idle"
    [] pc = "term" -> "stop"
    [] OTHER -> "start"

Abstract == INSTANCE KernelStatus WITH stopRequested <- intentionalStop

-----------------------------------------------------------------------------
(* Properties *)

\* The supervisor implements KernelStatus: for instance, `stopping` is left
\* only by a broadcast exit, no lifecycle call returns in a passing status,
\* and the callbacks miss a change only when a stop begins.
ImplementsKernelStatus == Abstract!KernelSpec

\* What State() may show while no lifecycle call is under way: a transient
\* status ("starting", "stopping") never outlives its call, or Start would
\* do nothing ever after; and once Stop or Dispose returned, the status is
\* "stopped" and no process is tracked until somebody asks for a start,
\* whatever late exits and timer callbacks still arrive.
SettledWhenIdle ==
  pc = "idle" =>
    /\ status \in {"stopped", "running", "errored"}
    /\ intentionalStop => status = "stopped" /\ child = None

\* Two kernels at once need a watchdog callback that ran doStart although a
\* process was tracked: Start, Stop, Restart and Dispose, in any order and
\* with crashes between their steps, never make a second one by themselves.
OneKernelUnlessOverlap ==
  ~overlap => \A p, q \in Alive : p = q

\* A kernel is spawned only while the last user request is one to run it: a
\* backoff that fires around a Stop or a Dispose never revives the kernel.
SpawnOnlyWhenWanted ==
  [][Alive' \ Alive # {} => wanted]_vars

\* "running" without a kernel, a status that makes Start return early, has one
\* cause: the kernel's exit was handled while pollReady, which looks at the
\* status before it asks, had the answer of that kernel on its way.  No exit, no
\* stop and no retry brings the two together otherwise (supervisor.go 510-532).
RunningWithoutKernelOnlyLate ==
  [][status' = "running" /\ child' = None
       => (status = "running" /\ child = None) \/ pc = "answered"]_vars

-----------------------------------------------------------------------------
(* What the comments of the code say and the code does not do *)

\* "Supervisor manages one mihomo subprocess at a time."
AtMostOneKernel == \A p, q \in Alive : p = q
=============================================================================
