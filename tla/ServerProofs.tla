---------------------------- MODULE ServerProofs ----------------------------
(* Proofs about the supervisor alone, for every MaxSpawns, MaxRestarts and  *)
(* AutoRestart, and about the server around it, for any number of handlers  *)
(* and all of its bounds.                                                   *)
EXTENDS Server, TLAPS

(***************************************************************************)
(* The inductive invariant, in named parts.                                *)
(***************************************************************************)

\* Where in a lifecycle call which locals make sense.
Control ==
  /\ pc = "term"  => op \in {"stop", "restart", "dispose"}
  /\ pc = "begin" => op \in {"start", "restart", "timer"}
  /\ pc \in {"track", "poll", "request", "answered", "arm", "notReady",
             "reap", "term"} => cur \in Procs

\* The stop flag is up while a call stops, down once a call has begun to start.
Flag ==
  /\ pc \in {"term", "detach"} => intentionalStop
  /\ pc \in {"spawn", "track", "poll", "request", "answered", "arm",
             "notReady", "reap"} => ~intentionalStop

\* The tracked process is one whose watchExit still waits; a call that works
\* on a process is the only one that could have tracked it.
Tracking ==
  /\ child # None => watcher[child] = "wait"
  /\ pc \in {"poll", "request", "answered", "arm", "notReady", "reap", "term"}
       => child \in {None, cur}
  /\ pc = "detach" => child = None

\* The status a call may leave behind.
Settling ==
  /\ pc = "arm"    => status \in {"stopped", "running", "errored"}
  /\ pc = "reap"   => status \in {"stopped", "errored"}
  /\ pc = "detach" => status = "stopped"
  /\ SettledWhenIdle

\* Whoever may come to spawn does so on behalf of a user.
Intent ==
  /\ pc \in {"begin", "spawn", "track"} => wanted
  /\ op = "restart" => wanted
  /\ \/ wanted \/ intentionalStop
     \/ \A p \in Procs : watcher[p] = "none" /\ backoff[p] = "off"

\* Without an overlap, a call that is about to spawn has no tracked process,
\* and a live kernel is the tracked one or the one about to be tracked.
Single ==
  ~overlap =>
    /\ pc = "idle" /\ child # None => status = "running"
    /\ pc = "arm"  /\ child # None => status = "running"
    /\ pc = "begin" /\ op # "timer" => child = None
    /\ pc \in {"spawn", "track"} => child = None
    /\ \A p \in Alive : p = child \/ (p = cur /\ pc = "track")

\* A process that is being stopped is tracked until its exit has set the
\* status, and a start after a stop finds no process.
Stopping ==
  /\ pc = "term" =>
       \/ child = cur
       \/ child = None /\ watcher[cur] = "done" /\ status = "stopped"
  /\ pc = "begin" /\ intentionalStop => child = None

IInv == /\ TypeOK /\ Control /\ Flag /\ Tracking /\ Settling /\ Intent /\ Single
        /\ Stopping

-----------------------------------------------------------------------------
\* Timer.Stop leaves a table of timers a table of timers, and arms none.
LEMMA StoppedTable ==
  ASSUME NEW ts \in [Procs -> {"off", "armed", "fired"}], NEW t
  PROVE  /\ Stopped(ts, t) \in [Procs -> {"off", "armed", "fired"}]
         /\ \A p \in Procs : ts[p] = "off" => Stopped(ts, t)[p] = "off"
  BY DEF Stopped

\* A server that has just been created satisfies the invariant.
LEMMA InitInv == Init => IInv
<1> SUFFICES ASSUME Init PROVE IInv
  OBVIOUS
<1>1. TypeOK
  <2>1. 0 \in 0 .. MaxRestarts
    BY SupervisorAssumption
  <2> QED
    BY <2>1 DEF Init, TypeOK, None, Statuses
<1>2. Control /\ Flag /\ Tracking /\ Settling /\ Intent
  BY DEF Init, Control, Flag, Tracking, Settling, SettledWhenIdle, Intent
<1>3. Single /\ Stopping
  BY DEF Init, Single, Stopping, Alive
<1> QED
  BY <1>1, <1>2, <1>3 DEF IInv

\* Every step of a user call, of the call that holds lifeMu, of a kernel, of
\* watchExit and of a timer keeps the invariant.
LEMMA StepInv == IInv /\ [Next]_vars => IInv'
<1> SUFFICES ASSUME IInv, [Next]_vars PROVE IInv'
  OBVIOUS
<1> USE SupervisorAssumption
    DEF IInv, TypeOK, Control, Flag, Tracking, Settling, SettledWhenIdle,
        Intent, Single, Stopping, Broadcast, Procs, None, Statuses, Alive,
        timers, os, holder, ghost
<1>1. CASE Start
  BY <1>1 DEF Start
<1>2. CASE BeginStart
  <2>1. /\ status' = "starting" /\ told' = "starting" /\ pc' = "spawn"
        /\ op' = op /\ cur' = cur /\ child' = child /\ ~intentionalStop'
    BY <1>2 DEF BeginStart, Goto
  <2>2. /\ overlap' \in BOOLEAN
        /\ ~overlap' => ~overlap /\ (op = "timer" => child = None)
    BY <1>2 DEF BeginStart
  <2>3. wanted
    BY <1>2 DEF BeginStart
  <2>4. TypeOK' /\ Control' /\ Flag' /\ Tracking' /\ Settling'
    BY <1>2, <2>1, <2>2 DEF BeginStart
  <2>5. Intent' /\ Stopping'
    BY <1>2, <2>1, <2>3 DEF BeginStart
  <2>6. Single'
    BY <1>2, <2>1, <2>2 DEF BeginStart
  <2> QED
    BY <2>4, <2>5, <2>6
<1>3. CASE FailStart
  BY <1>3 DEF FailStart, Release
<1>4. CASE SpawnKernel
  BY <1>4 DEF SpawnKernel
<1>5. CASE Track
  BY <1>5 DEF Track, Goto
<1>6. CASE PollTimeout
  BY <1>6 DEF PollTimeout, Goto
<1>7. CASE PollGiveUp
  BY <1>7 DEF PollGiveUp, Goto
<1>8. CASE PollRequest
  BY <1>8 DEF PollRequest, Goto
<1>9. CASE PollRetry
  BY <1>9 DEF PollRetry, Goto
<1>10. CASE PollAnswer
  BY <1>10 DEF PollAnswer, Goto
<1>11. CASE SetRunning
  BY <1>11 DEF SetRunning, Goto
<1>12. CASE ArmStability
  <2>1. stability' \in [Procs -> {"off", "armed", "fired"}]
             /\ stableTimer' \in Procs \cup {None}
    <3>1. CASE AutoRestart
      <4>1. Stopped(stability, stableTimer)
              \in [Procs -> {"off", "armed", "fired"}]
        BY StoppedTable
      <4>2. /\ stability' = [Stopped(stability, stableTimer)
                              EXCEPT ![cur] = "armed"]
            /\ stableTimer' = cur
        BY <1>12, <3>1 DEF ArmStability
      <4> QED  BY <1>12, <4>1, <4>2 DEF ArmStability
    <3>2. CASE ~AutoRestart
      BY <1>12, <3>2 DEF ArmStability
    <3> QED  BY <3>1, <3>2
  <2> QED  BY <1>12, <2>1 DEF ArmStability, Release
<1>13. CASE NotReady
  <2>1. /\ status' = "errored" /\ told' \in Statuses
        /\ killed' = killed \cup {cur} /\ pc' = "reap"
    BY <1>13 DEF NotReady, Goto
  <2>2. TypeOK'
    BY <1>13, <2>1 DEF NotReady, Goto
  <2>3. Settling' /\ Intent' /\ Stopping'
    BY <1>13, <2>1 DEF NotReady, Goto
  <2>4. Control' /\ Flag' /\ Tracking' /\ Single'
    BY <1>13, <2>1 DEF NotReady, Goto
  <2> QED
    BY <2>2, <2>3, <2>4
<1>14. CASE Reaped
  BY <1>14 DEF Reaped, Release
<1>15. CASE StopTimeout
  BY <1>15 DEF StopTimeout
<1>16. CASE StopDone
  <2>1. /\ child' = None /\ status' = "stopped"
        /\ cur' = None /\ intentionalStop
    <3>1. /\ pc = "term" /\ child' = None /\ status' = "stopped"
          /\ AfterStop(op)
      BY <1>16 DEF StopDone
    <3>2. op \in {"stop", "restart", "dispose"} /\ intentionalStop
      BY <3>1
    <3> QED  BY <3>1, <3>2 DEF AfterStop, Release
  <2>2. CASE op = "stop"
    <3>1. pc' = "idle" /\ op' = "none"
      BY <1>16, <2>2 DEF StopDone, AfterStop, Release
    <3> QED  BY <1>16, <2>1, <3>1 DEF StopDone
  <2>3. CASE op = "restart"
    <3>1. pc' = "begin" /\ op' = "restart"
      BY <1>16, <2>3 DEF StopDone, AfterStop
    <3> QED  BY <1>16, <2>1, <2>3, <3>1 DEF StopDone
  <2>4. CASE op = "dispose"
    <3>1. pc' = "detach" /\ op' = "dispose"
      BY <1>16, <2>4 DEF StopDone, AfterStop
    <3> QED  BY <1>16, <2>1, <2>4, <3>1 DEF StopDone
  <2> QED
    BY <1>16, <2>2, <2>3, <2>4 DEF StopDone
<1>17. CASE Detach
  BY <1>17, StoppedTable
  DEF Detach, CancelRestartTimer, CancelStabilityReset, Release
<1>18. CASE \E o \in {"stop", "restart", "dispose"} : BeginStop(o)
  <2> PICK o \in {"stop", "restart", "dispose"} : BeginStop(o)
    BY <1>18
  <2>1. /\ backoff' \in [Procs -> {"off", "armed", "fired"}]
        /\ stability' \in [Procs -> {"off", "armed", "fired"}]
        /\ restartTimer' = None /\ stableTimer' = None
        /\ wanted' <=> o = "restart"
    BY StoppedTable DEF BeginStop, CancelRestartTimer, CancelStabilityReset
  <2>2. CASE child = None
    <3>1. CASE o = "stop"
      BY <2>1, <2>2, <3>1 DEF BeginStop, AfterStop, Release
    <3>2. CASE o = "restart"
      BY <2>1, <2>2, <3>2 DEF BeginStop, AfterStop
    <3>3. CASE o = "dispose"
      BY <2>1, <2>2, <3>3 DEF BeginStop, AfterStop
    <3> QED  BY <3>1, <3>2, <3>3
  <2>3. CASE child # None
    BY <2>1, <2>3 DEF BeginStop
  <2> QED  BY <2>2, <2>3
<1>19. CASE \E p \in Procs : KernelExit(p)
  BY <1>19 DEF KernelExit
<1>20. CASE \E p \in Procs : SupersededExit(p)
  BY <1>20 DEF SupersededExit
<1>21. CASE \E p \in Procs : TrackedExit(p)
  <2> PICK p \in Procs : TrackedExit(p)
    BY <1>21
  <2>1. /\ child = p /\ child' = None
        /\ status' \in {"errored", "stopped"} /\ told' = status'
        /\ intentionalStop => status' = "stopped"
    BY DEF TrackedExit
  <2>2. /\ stability' \in [Procs -> {"off", "armed", "fired"}]
        /\ stableTimer' = None
    BY StoppedTable DEF TrackedExit, CancelStabilityReset
  <2>3. restartCount' \in 0 .. MaxRestarts
    BY DEF TrackedExit, HasBudget
  <2>4. /\ watcher' \in [Procs -> {"none", "wait", "schedule", "done"}]
        /\ intentionalStop => watcher' = [watcher EXCEPT ![p] = "done"]
        /\ watcher[p] = "wait"
    BY DEF TrackedExit
  <2>5. TypeOK'
    BY <2>1, <2>2, <2>3, <2>4 DEF TrackedExit
  <2>6. Control' /\ Flag' /\ Tracking' /\ Settling' /\ Single'
    BY <2>1, <2>4 DEF TrackedExit
  <2>7. Intent'
    BY <2>4 DEF TrackedExit
  <2>8. Stopping'
    BY <2>1, <2>4 DEF TrackedExit
  <2> QED
    BY <2>5, <2>6, <2>7, <2>8
<1>22. CASE \E p \in Procs : ScheduleRestart(p)
  BY <1>22, StoppedTable DEF ScheduleRestart
<1>23. CASE \E p \in Procs : BackoffFires(p)
  BY <1>23 DEF BackoffFires
<1>24. CASE \E p \in Procs : BackoffCallback(p)
  BY <1>24 DEF BackoffCallback
<1>25. CASE \E p \in Procs : StabilityFires(p)
  BY <1>25 DEF StabilityFires
<1>26. CASE \E p \in Procs : StabilityCallback(p)
  BY <1>26 DEF StabilityCallback
<1>27. CASE UNCHANGED vars
  BY <1>27 DEF vars
<1> QED
  BY <1>1, <1>2, <1>3, <1>4, <1>5, <1>6, <1>7, <1>8, <1>9, <1>10, <1>11,
     <1>12, <1>13, <1>14, <1>15, <1>16, <1>17, <1>18, <1>19, <1>20, <1>21,
     <1>22, <1>23, <1>24, <1>25, <1>26, <1>27
  DEF Next, User, Lifecycle, Background

\* The inductive invariant holds in every reachable state.
LEMMA Invariance == Spec => []IInv
<1>1. Init => IInv
  BY InitInv
<1>2. IInv /\ [Next]_vars => IInv'
  BY StepInv
<1> QED
  BY <1>1, <1>2, PTL DEF Spec

-----------------------------------------------------------------------------
\* Every variable keeps its type; in particular the crash counter never
\* exceeds MaxRestarts, whichever timers fire late.
THEOREM TypeCorrect == Spec => []TypeOK
  BY Invariance, PTL DEF IInv

\* No call leaves a transient status behind, and a stopped supervisor stays
\* stopped, with no tracked process, until somebody asks for a start.
THEOREM Settled == Spec => []SettledWhenIdle
  BY Invariance, PTL DEF IInv, Settling

\* Two live kernels need a watchdog callback that ran doStart over a tracked
\* process: lifeMu does serialize everything else.
THEOREM SingleKernel == Spec => []OneKernelUnlessOverlap
<1>1. IInv => OneKernelUnlessOverlap
  BY DEF IInv, Single, Tracking, Control, TypeOK, OneKernelUnlessOverlap,
         Alive, Procs, None
<1> QED
  BY <1>1, Invariance, PTL

\* Stop and Dispose are final: no crash handler or timer callback spawns a
\* kernel after them until a user asks for one.
THEOREM StopIsFinal == Spec => SpawnOnlyWhenWanted
<1>1. IInv /\ [Next]_vars => [Alive' \ Alive # {} => wanted]_vars
  <2> SUFFICES ASSUME IInv, Next, NEW p \in Alive' \ Alive
               PROVE  wanted
    BY DEF vars
  <2>1. SpawnKernel
    BY DEF Next, User, Lifecycle, Background, Alive, os, Start, BeginStart,
           FailStart, Track, PollTimeout, PollGiveUp, PollRequest, PollRetry,
           PollAnswer, SetRunning, ArmStability, NotReady, Reaped,
           StopTimeout, StopDone, Detach, BeginStop, KernelExit,
           SupersededExit, TrackedExit, ScheduleRestart, BackoffFires,
           BackoffCallback, StabilityFires, StabilityCallback, IInv, TypeOK
  <2> QED
    BY <2>1 DEF SpawnKernel, IInv, Intent
<1> QED
  BY <1>1, Invariance, PTL DEF Spec, SpawnOnlyWhenWanted

-----------------------------------------------------------------------------
\* A kernel is "running" without a process for one reason only: the answer to
\* pollReady came after the exit had been handled.  Every other step that
\* leaves the process untracked sets another status, and every other step that
\* leaves the status alone leaves the process alone.
THEOREM OnlyLateAnswers == Spec => RunningWithoutKernelOnlyLate
<1>1. IInv /\ [Next]_vars
        => [status' = "running" /\ child' = None
              => (status = "running" /\ child = None) \/ pc = "answered"]_vars
  <2> SUFFICES ASSUME IInv, Next, status' = "running", child' = None
               PROVE  (status = "running" /\ child = None) \/ pc = "answered"
    OBVIOUS
  <2>1. CASE User
    BY <2>1 DEF User, Start, BeginStop
  <2>2. CASE Lifecycle
    BY <2>2 DEF Lifecycle, BeginStart, FailStart, SpawnKernel, Track,
         PollTimeout, PollGiveUp, PollRequest, PollRetry, PollAnswer, SetRunning,
         ArmStability, NotReady, Reaped, StopTimeout, StopDone, Detach,
         Broadcast, IInv, Control, Procs, None
  <2>3. CASE Background
    BY <2>3 DEF Background, KernelExit, SupersededExit, TrackedExit,
         ScheduleRestart, BackoffFires, BackoffCallback, StabilityFires,
         StabilityCallback, Broadcast
  <2> QED
    BY <2>1, <2>2, <2>3 DEF Next
<1> QED
  BY <1>1, Invariance, PTL DEF Spec, RunningWithoutKernelOnlyLate

-----------------------------------------------------------------------------
\* The supervisor implements the abstract specification of its status: every
\* step of it is a step of KernelStatus or changes nothing there.
THEOREM Implements == Spec => ImplementsKernelStatus
<1>1. Init => Abstract!KernelInit
  BY DEF Init, Abstract!KernelInit, phase
<1>2. IInv /\ [Next]_vars => [Abstract!KernelNext]_Abstract!kernel
  <2> SUFFICES ASSUME IInv, [Next]_vars
               PROVE  Abstract!KernelNext \/ UNCHANGED Abstract!kernel
    OBVIOUS
  <2> USE DEF Abstract!KernelNext, Abstract!kernel, Abstract!Telling,
              Abstract!Silent, Abstract!Tell, phase, Broadcast, Goto, Release
  <2>1. CASE BeginStart
    BY <2>1 DEF BeginStart, Abstract!BeginStart
  <2>2. CASE FailStart
    BY <2>2 DEF FailStart, Abstract!Fail
  <2>3. CASE Track
    BY <2>3 DEF Track, Abstract!Spawned
  <2>4. CASE SetRunning
    BY <2>4 DEF SetRunning, Abstract!Ready
  <2>5. CASE NotReady
    BY <2>5 DEF NotReady, Abstract!Fail
  <2>6. CASE ArmStability
    BY <2>6 DEF ArmStability, Abstract!EndStart, IInv, Settling
  <2>7. CASE Reaped
    BY <2>7 DEF Reaped, Abstract!EndStart, IInv, Settling
  <2>8. ASSUME NEW o \in {"stop", "restart", "dispose"}, BeginStop(o)
        PROVE  Abstract!BeginStop
    BY <2>8 DEF BeginStop, AfterStop, Abstract!BeginStop
  <2>9. CASE StopDone
    <3>1. status = "stopped"
      BY <2>9 DEF StopDone, IInv, Control, Stopping, Tracking, Procs, None
    <3>2. status' = "stopped" /\ phase' = "idle"
      BY <2>9 DEF StopDone, AfterStop, IInv, Control
    <3>3. phase = "stop" /\ UNCHANGED <<told, intentionalStop>>
      BY <2>9 DEF StopDone
    <3> QED
      BY <3>1, <3>2, <3>3 DEF Abstract!EndStop
  <2>10. ASSUME NEW p \in Procs, TrackedExit(p)
         PROVE  Abstract!Exit
    <3>1. ~(phase = "idle" /\ intentionalStop)
      BY <2>10 DEF TrackedExit, IInv, Settling, SettledWhenIdle, Stopping,
                   Tracking, Procs, None
    <3>2. UNCHANGED <<phase, intentionalStop>>
      BY <2>10 DEF TrackedExit, holder
    <3> QED
      BY <2>10, <3>1, <3>2 DEF TrackedExit, Abstract!Exit
  <2>11. CASE UNCHANGED vars
    BY <2>11 DEF vars, holder
  <2>12. CASE \/ Start \/ SpawnKernel \/ PollTimeout \/ PollGiveUp
              \/ PollRequest \/ PollRetry \/ PollAnswer \/ StopTimeout
              \/ Detach
              \/ \E p \in Procs :
                   \/ KernelExit(p) \/ SupersededExit(p) \/ ScheduleRestart(p)
                   \/ BackoffFires(p) \/ BackoffCallback(p)
                   \/ StabilityFires(p) \/ StabilityCallback(p)
    BY <2>12
    DEF Start, SpawnKernel, PollTimeout, PollGiveUp, PollRequest, PollRetry,
        PollAnswer, StopTimeout, Detach, KernelExit, SupersededExit,
        ScheduleRestart, BackoffFires, BackoffCallback, StabilityFires,
        StabilityCallback, holder
  <2> QED
    BY <2>1, <2>2, <2>3, <2>4, <2>5, <2>6, <2>7, <2>8, <2>9, <2>10, <2>11,
       <2>12 DEF Next, User, Lifecycle, Background
<1> QED
  BY <1>1, <1>2, Invariance, PTL DEF Spec, ImplementsKernelStatus,
     Abstract!KernelSpec
-----------------------------------------------------------------------------

(***************************************************************************)
(* The inductive invariant: what the wiring adds to Supervisor's.          *)
(***************************************************************************)

WiringOK ==
  /\ call \in [Callers -> Requests \cup {"none", "dispose"}]
  /\ caller \in Callers \cup {Nobody}
  /\ stage \in {"serving", "draining", "joinSched", "dispose", "bye", "exited"}
  /\ running \in BOOLEAN
  /\ tick \in {"armed", "fired", "work", "rearm", "off"}
  /\ due \in 0 .. MaxDue
  /\ quiet \in BOOLEAN

\* A tick calls only while it is at work, and that needs a running scheduler
\* to begin and the mutex to last.
Ticking ==
  /\ Busy(Tick) => tick = "work"
  /\ stage \in {"joinSched", "dispose", "bye", "exited"} => ~running
  /\ stage \in {"dispose", "bye", "exited"} => tick # "work"

\* Whoever holds lifeMu has a call under way; Run's is the one Dispose, and
\* a Dispose only stops.
Holding ==
  /\ caller # Nobody => call[caller] \in {"start", "stop", "restart", "dispose"}
  /\ pc = "idle" => caller = Nobody
  /\ call[Main] \in {"none", "dispose"}
  /\ Busy(Main) => stage = "dispose"
  /\ op = "dispose" => pc \in {"term", "detach"}
  /\ caller = Main => op = "dispose"

\* From a quiet Dispose on nobody else calls, and once it has returned the
\* supervisor is stopped for good.
Quiet ==
  quiet =>
    /\ stage \in {"dispose", "bye", "exited"}
    /\ \A c \in Callers \ {Main} : ~Busy(c)
    /\ caller \in {Main, Nobody}
    /\ ~Busy(Main) => intentionalStop /\ pc = "idle"

SInv == WiringOK /\ Ticking /\ Holding /\ Quiet

-----------------------------------------------------------------------------
(* The supervisor's steps, as far as its callers are concerned. *)

LEMMA LifecycleStep ==
  ASSUME Lifecycle, Control
  PROVE  /\ pc # "idle"
         /\ pc' # "idle" => op' = op
         /\ op = "dispose" /\ pc \in {"term", "detach"} =>
              /\ intentionalStop' = intentionalStop
              /\ pc' \in {"term", "detach"} \/ (pc = "detach" /\ pc' = "idle")
         /\ pc' = "idle" => op' = "none"
<1>1. CASE BeginStart \/ FailStart \/ SpawnKernel \/ Track
  BY <1>1 DEF BeginStart, FailStart, SpawnKernel, Track, Goto, Release
<1>2. CASE PollTimeout \/ PollGiveUp \/ PollRequest \/ PollRetry \/ PollAnswer
  BY <1>2 DEF PollTimeout, PollGiveUp, PollRequest, PollRetry, PollAnswer, Goto
<1>3. CASE SetRunning \/ ArmStability \/ NotReady \/ Reaped
  BY <1>3 DEF SetRunning, ArmStability, NotReady, Reaped, Goto, Release
<1>4. CASE StopTimeout
  <2>1. pc = "term" /\ UNCHANGED <<op, pc, intentionalStop>>
    BY <1>4 DEF StopTimeout, holder
  <2> QED
    BY <2>1
<1>5. CASE StopDone
  <2>1. op \in {"stop", "restart", "dispose"}
    BY <1>5 DEF StopDone, Control
  <2>2. pc = "term" /\ intentionalStop' = intentionalStop /\ AfterStop(op)
    BY <1>5 DEF StopDone
  <2>3. \/ op = "stop" /\ op' = "none" /\ pc' = "idle"
        \/ op = "restart" /\ op' = op /\ pc' = "begin"
        \/ op = "dispose" /\ op' = op /\ pc' = "detach"
    BY <2>1, <2>2 DEF AfterStop, Release
  <2> QED
    BY <2>2, <2>3
<1>6. CASE Detach
  BY <1>6 DEF Detach, Release
<1> QED
  BY <1>1, <1>2, <1>3, <1>4, <1>5, <1>6 DEF Lifecycle

LEMMA BackgroundKeeps ==
  ASSUME Background
  PROVE  /\ intentionalStop' = intentionalStop
         /\ \/ pc' = pc /\ op' = op
            \/ pc = "idle" /\ ~intentionalStop /\ pc' = "begin" /\ op' = "timer"
  BY DEF Background, KernelExit, SupersededExit, TrackedExit, ScheduleRestart,
         BackoffFires, BackoffCallback, StabilityFires, StabilityCallback,
         holder

LEMMA StartBegins ==
  ASSUME Start
  PROVE  pc = "idle" /\ pc' = "begin" /\ op' = "start"
  BY DEF Start

LEMMA StopBegins ==
  ASSUME NEW o \in {"stop", "restart", "dispose"}, BeginStop(o)
  PROVE  /\ pc = "idle" /\ intentionalStop'
         /\ \/ o = "stop" /\ pc' = "idle" /\ op' = "none"
            \/ op' = o /\ pc' \in {"term", "begin", "detach"}
         /\ o = "dispose" => pc' \in {"term", "detach"}
  BY DEF BeginStop, AfterStop, Release

-----------------------------------------------------------------------------
\* No step of the server is more than a step of the supervisor: boot, ticks,
\* handlers and shutdown only decide which calls are made.
LEMMA Composes == [ServerNext]_all => [Next]_vars
<1> SUFFICES ASSUME [ServerNext]_all PROVE [Next]_vars
  OBVIOUS
<1>1. CASE \E c \in Callers : Enter(c)
  BY <1>1 DEF Enter, Next, User
<1>2. CASE \E c \in Callers : AlreadyUp(c)
  BY <1>2 DEF AlreadyUp
<1>3. CASE \E h \in Handlers : Accept(h) \/ Leave(h)
  BY <1>3 DEF Accept, Leave
<1>4. CASE CallStep \/ BackgroundStep
  BY <1>4 DEF CallStep, BackgroundStep, Next
<1>5. CASE Scheduler
  BY <1>5 DEF Scheduler, TimerFires, TickBegins, Apply, TickEnds, Rearm
<1>6. CASE Shutdown \/ Signal \/ ListenFails
  BY <1>6 DEF Shutdown, Drained, JoinSched, Disposed, Exit, ProcessEnds,
              Signal, ListenFails
<1>7. CASE UNCHANGED all
  BY <1>7 DEF all
<1> QED
  BY <1>1, <1>2, <1>3, <1>4, <1>5, <1>6, <1>7 DEF ServerNext

\* Whatever is proved of the supervisor holds in the server.
THEOREM Refines == ServerSpec => Spec
<1>1. ServerInit => Init
  BY DEF ServerInit
<1> QED
  BY <1>1, Composes, PTL DEF ServerSpec, Spec

-----------------------------------------------------------------------------
LEMMA CallersDiffer ==
  /\ Boot \in Callers /\ Tick \in Callers /\ Main \in Callers
  /\ Boot # Main /\ Tick # Main /\ Tick # Boot
  /\ Nobody \notin Callers
  /\ \A h \in Handlers : h \in Callers /\ h # Tick /\ h # Main
  BY ServerAssumption DEF Callers

LEMMA WiringInit == ServerInit => SInv
<1> SUFFICES ASSUME ServerInit PROVE SInv
  OBVIOUS
<1>1. 0 \in 0 .. MaxDue
  BY ServerAssumption
<1>2. WiringOK
  BY <1>1 DEF ServerInit, WiringOK, Requests
<1>3. call[Tick] = "none" /\ call[Main] = "none"
  <2>1. call = [c \in Callers |-> IF c = Boot THEN "start" ELSE "none"]
    BY DEF ServerInit
  <2> QED
    BY <2>1, CallersDiffer
<1>4. /\ caller = Nobody /\ stage = "serving" /\ ~quiet
      /\ pc = "idle" /\ op = "none"
  BY DEF ServerInit, Init
<1>5. Ticking /\ Holding /\ Quiet
  BY <1>3, <1>4, CallersDiffer DEF Ticking, Holding, Quiet, Busy
<1> QED
  BY <1>2, <1>5 DEF SInv

\* What becomes of the table of calls when one entry is written.
LEMMA CallStays ==
  ASSUME NEW c \in Callers, NEW v, call \in [Callers -> Requests \cup {"none", "dispose"}],
         v \in Requests \cup {"none", "dispose"}, call' = [call EXCEPT ![c] = v]
  PROVE  /\ call' \in [Callers -> Requests \cup {"none", "dispose"}]
         /\ call'[c] = v
         /\ \A d \in Callers \ {c} : call'[d] = call[d]
  OBVIOUS

\* The two ways in which a call goes on after a step of its caller.
LEMMA HeldStep ==
  ASSUME NEW c \in Callers, Held(c), WiringOK
  PROVE  /\ call' \in [Callers -> Requests \cup {"none", "dispose"}]
         /\ \A d \in Callers \ {c} : call'[d] = call[d]
         /\ \/ pc' = "idle" /\ caller' = Nobody /\ call'[c] = "none"
            \/ pc' # "idle" /\ caller' = c /\ call'[c] = call[c]
<1>1. CASE pc' = "idle"
  <2>1. caller' = Nobody /\ call' = [call EXCEPT ![c] = "none"]
    BY <1>1 DEF Held
  <2> QED
    BY <1>1, <2>1, CallStays DEF WiringOK
<1>2. CASE pc' # "idle"
  BY <1>2 DEF Held, WiringOK
<1> QED
  BY <1>1, <1>2

\* Every step of a caller, of the supervisor, of the scheduler and of Run
\* keeps the invariant.
LEMMA WiringStep == SInv /\ IInv /\ [ServerNext]_all => SInv'
<1> SUFFICES ASSUME SInv, IInv, [ServerNext]_all PROVE SInv'
  OBVIOUS
<1>0. Control /\ Flag
  BY DEF IInv
<1> USE DEF SInv
<1>1. CASE \E c \in Callers : Enter(c)
  <2> PICK c \in Callers : Enter(c)
    BY <1>1
  <2>1. /\ call'  \in [Callers -> Requests \cup {"none", "dispose"}]
        /\ \A d \in Callers \ {c} : call'[d] = call[d]
        /\ \/ pc' = "idle" /\ caller' = Nobody /\ call'[c] = "none"
           \/ pc' # "idle" /\ caller' = c /\ call'[c] = call[c]
    BY HeldStep DEF Enter
  <2>2. /\ pc = "idle" /\ caller = Nobody
        /\ UNCHANGED <<stage, running, tick, due, quiet>>
        /\ call[c] \in {"start", "stop", "restart", "dispose"}
    BY StartBegins, StopBegins DEF Enter, Holding
  <2>3. /\ op' = "dispose" => pc' \in {"term", "detach"}
        /\ call[c] = "dispose" =>
             op' = "dispose" /\ pc' \in {"term", "detach"} /\ intentionalStop'
    <3>1. CASE call[c] = "start"
      BY <3>1, <2>2, StartBegins DEF Enter
    <3>2. CASE call[c] # "start"
      BY <3>2, <2>2, StopBegins DEF Enter
    <3> QED
      BY <3>1, <3>2
  <2>4. WiringOK'
    BY <2>1, <2>2, CallersDiffer DEF WiringOK
  <2>5. Ticking'
    BY <2>1, <2>2, CallersDiffer DEF Ticking, Busy
  <2>6. Holding'
    BY <2>1, <2>2, <2>3, CallersDiffer DEF Holding, Busy
  <2>7. Quiet'
    <3>1. CASE c = Main
      BY <2>1, <2>2, <2>3, <3>1, CallersDiffer DEF Quiet, Holding, Busy
    <3>2. CASE c # Main
      BY <2>2, <3>2 DEF Quiet, Busy
    <3> QED
      BY <3>1, <3>2
  <2> QED
    BY <2>4, <2>5, <2>6, <2>7
<1>2. CASE \E c \in Callers : AlreadyUp(c)
  <2> PICK c \in Callers : AlreadyUp(c)
    BY <1>2
  <2>1. /\ call[c] = "start" /\ pc = "idle"
        /\ call' = [call EXCEPT ![c] = "none"]
        /\ UNCHANGED <<op, pc, intentionalStop, caller, stage, running, tick,
                       due, quiet>>
    BY DEF AlreadyUp, vars, holder
  <2>2. /\ call' \in [Callers -> Requests \cup {"none", "dispose"}]
        /\ call'[c] = "none"
        /\ \A d \in Callers \ {c} : call'[d] = call[d]
    BY <2>1, CallStays DEF WiringOK
  <2>3. caller = Nobody /\ c # Main
    BY <2>1 DEF Holding
  <2>4. ~quiet
    BY <2>1, <2>3 DEF Quiet, Busy
  <2> QED
    BY <2>1, <2>2, <2>3, <2>4, CallersDiffer
       DEF WiringOK, Ticking, Holding, Quiet, Busy
<1>3. CASE CallStep
  <2>1. /\ pc # "idle"
        /\ pc' # "idle" => op' = op
        /\ op = "dispose" =>
             /\ intentionalStop'
             /\ pc' \in {"term", "detach"} \/ pc' = "idle"
        /\ pc' = "idle" => op' = "none"
    BY <1>0, <1>3, LifecycleStep DEF CallStep, Holding, Flag
  <2>2. UNCHANGED <<stage, running, tick, due, quiet>>
    BY <1>3 DEF CallStep
  <2>3. CASE caller = Nobody
    <3>1. UNCHANGED <<call, caller>>
      BY <1>3, <2>3 DEF CallStep
    <3>2. quiet => Busy(Main)
      BY <2>1 DEF Quiet
    <3> QED
      BY <2>1, <2>2, <2>3, <3>1, <3>2, CallersDiffer
         DEF WiringOK, Ticking, Holding, Quiet, Busy
  <2>4. CASE caller # Nobody
    <3>1. caller \in Callers
      BY <2>4 DEF WiringOK
    <3>2. Held(caller)
      BY <1>3, <2>4 DEF CallStep
    <3>3. /\ call' \in [Callers -> Requests \cup {"none", "dispose"}]
          /\ \A d \in Callers \ {caller} : call'[d] = call[d]
          /\ \/ pc' = "idle" /\ caller' = Nobody /\ call'[caller] = "none"
             \/ pc' # "idle" /\ caller' = caller /\ call'[caller] = call[caller]
      BY <3>1, <3>2, HeldStep
    <3>4. WiringOK' /\ Ticking'
      BY <2>2, <3>1, <3>3, CallersDiffer DEF WiringOK, Ticking, Busy
    <3>5. Holding'
      BY <2>1, <2>2, <2>4, <3>1, <3>3, CallersDiffer DEF Holding, Busy
    <3>6. Quiet'
      BY <2>1, <2>2, <2>4, <3>1, <3>3, CallersDiffer DEF Quiet, Holding, Busy
    <3> QED
      BY <3>4, <3>5, <3>6
  <2> QED
    BY <2>3, <2>4
<1>4. CASE BackgroundStep
  <2>1. UNCHANGED <<call, caller, stage, running, tick, due, quiet>>
    BY <1>4 DEF BackgroundStep, wiring
  <2>2. /\ intentionalStop' = intentionalStop
        /\ \/ pc' = pc /\ op' = op
           \/ pc = "idle" /\ ~intentionalStop /\ pc' = "begin" /\ op' = "timer"
    BY <1>4, BackgroundKeeps DEF BackgroundStep
  <2>3. WiringOK' /\ Ticking'
    BY <2>1 DEF WiringOK, Ticking, Busy
  <2>4. Holding'
    BY <2>1, <2>2, CallersDiffer DEF Holding, Busy
  <2>5. Quiet'
    BY <2>1, <2>2 DEF Quiet, Busy
  <2> QED
    BY <2>3, <2>4, <2>5
<1>5. CASE \E h \in Handlers : Accept(h) \/ Leave(h)
  <2> PICK h \in Handlers : Accept(h) \/ Leave(h)
    BY <1>5
  <2>1. UNCHANGED <<op, pc, intentionalStop, caller, stage, running, tick,
                    due, quiet>>
    BY DEF Accept, Leave, vars, holder
  <2>2. PICK v \in Requests \cup {"none"} : call' = [call EXCEPT ![h] = v]
    BY DEF Accept, Leave
  <2>3. /\ call' \in [Callers -> Requests \cup {"none", "dispose"}]
        /\ \A d \in Callers \ {h} : call'[d] = call[d]
    BY <2>2, CallStays, CallersDiffer DEF WiringOK
  <2>4. call[h] \in {"none", "stream"} /\ ~quiet
    <3>1. CASE Accept(h)
      BY <3>1 DEF Accept, Busy, Quiet
    <3>2. CASE Leave(h)
      BY <3>2, CallersDiffer DEF Leave, Busy, Quiet
    <3> QED
      BY <3>1, <3>2
  <2>5. caller # h
    BY <2>4, CallersDiffer DEF Holding
  <2> QED
    BY <2>1, <2>3, <2>4, <2>5, CallersDiffer
       DEF WiringOK, Ticking, Holding, Quiet, Busy
<1>6. CASE TimerFires \/ TickBegins \/ TickEnds \/ Rearm
  <2>1. UNCHANGED <<op, pc, intentionalStop, call, caller, stage, running,
                    quiet>>
    BY <1>6 DEF TimerFires, TickBegins, TickEnds, Rearm, vars, holder
  <2>2. /\ due' \in 0 .. MaxDue
        /\ tick' \in {"armed", "fired", "work", "rearm", "off"}
        /\ tick' = "work" => running
        /\ ~Busy(Tick)
    <3>1. CASE TimerFires
      BY <3>1 DEF TimerFires, WiringOK, Ticking
    <3>2. CASE TickBegins
      BY <3>2 DEF TickBegins, WiringOK, Ticking
    <3>3. CASE TickEnds \/ Rearm
      BY <3>3 DEF TickEnds, Rearm, WiringOK, Ticking
    <3> QED
      BY <1>6, <3>1, <3>2, <3>3
  <2> QED
    BY <2>1, <2>2 DEF WiringOK, Ticking, Holding, Quiet, Busy
<1>7. CASE Apply
  <2>1. /\ tick = "work" /\ due > 0 /\ due' = due - 1 /\ ~Busy(Tick)
        /\ call' = [call EXCEPT ![Tick] = "restart"]
        /\ UNCHANGED <<op, pc, intentionalStop, caller, stage, running, tick,
                       quiet>>
    BY <1>7 DEF Apply, vars, holder
  <2>2. /\ call' \in [Callers -> Requests \cup {"none", "dispose"}]
        /\ \A d \in Callers \ {Tick} : call'[d] = call[d]
    BY <2>1, CallStays, CallersDiffer DEF WiringOK, Requests
  <2>3. due' \in 0 .. MaxDue
    BY <2>1, ServerAssumption DEF WiringOK
  <2>4. ~quiet /\ caller # Tick
    BY <2>1, CallersDiffer DEF Quiet, Ticking, Holding, Busy
  <2> QED
    BY <2>1, <2>2, <2>3, <2>4, CallersDiffer
       DEF WiringOK, Ticking, Holding, Quiet, Busy
<1>8. CASE Signal \/ Drained \/ Disposed
  <2>1. UNCHANGED <<op, pc, intentionalStop, call, caller, tick, due, quiet>>
    BY <1>8 DEF Signal, Drained, Disposed, vars, holder
  <2>2. \/ stage = "serving" /\ stage' = "draining" /\ running' = running
        \/ stage = "draining" /\ stage' = "joinSched" /\ running' = FALSE
        \/ /\ stage = "dispose" /\ ~Busy(Main)
           /\ stage' = "bye" /\ running' = running
    BY <1>8 DEF Signal, Drained, Disposed
  <2>3. WiringOK'
    BY <2>1, <2>2 DEF WiringOK
  <2>4. Ticking'
    BY <2>1, <2>2 DEF Ticking, Busy
  <2>5. Holding'
    BY <2>1, <2>2 DEF Holding, Busy
  <2>6. Quiet'
    BY <2>1, <2>2 DEF Quiet, Busy
  <2> QED
    BY <2>3, <2>4, <2>5, <2>6
<1>9. CASE JoinSched
  <2>1. /\ stage = "joinSched" /\ stage' = "dispose"
        /\ tick # "work" /\ tick' = (IF tick = "armed" THEN "off" ELSE tick)
        /\ call' = [call EXCEPT ![Main] = "dispose"]
        /\ UNCHANGED <<op, pc, intentionalStop, caller, running, due>>
    BY <1>9 DEF JoinSched, vars, holder
  <2>2. /\ quiet' = \A c \in Callers : ~Busy(c)
        /\ quiet' \in BOOLEAN
    BY <1>9 DEF JoinSched
  <2>3. /\ call' \in [Callers -> Requests \cup {"none", "dispose"}]
        /\ call'[Main] = "dispose"
        /\ \A d \in Callers \ {Main} : call'[d] = call[d]
    BY <2>1, CallStays, CallersDiffer DEF WiringOK
  <2>4. WiringOK' /\ Ticking'
    BY <2>1, <2>2, <2>3, CallersDiffer DEF WiringOK, Ticking, Busy
  <2>5. Holding'
    BY <2>1, <2>3, CallersDiffer DEF WiringOK, Holding, Busy
  <2>6. Quiet'
    <3> SUFFICES ASSUME quiet' PROVE Quiet'
      BY DEF Quiet
    <3>1. \A c \in Callers : call[c] = "none"
      BY <2>2 DEF Busy
    <3>2. caller = Nobody
      BY <3>1 DEF WiringOK, Holding
    <3> QED
      BY <2>1, <2>3, <3>1, <3>2 DEF Quiet, Busy
  <2> QED
    BY <2>4, <2>5, <2>6
<1>10. CASE ListenFails \/ Exit
  <2>1. /\ stage \in {"serving", "bye"} /\ stage' = "exited"
        /\ call' = [c \in Callers |-> "none"] /\ caller' = Nobody
        /\ tick' = "off" /\ due' = 0 /\ running' = FALSE
        /\ UNCHANGED <<op, pc, intentionalStop, quiet>>
    BY <1>10 DEF ListenFails, Exit, ProcessEnds, vars, holder
  <2>2. /\ call' \in [Callers -> Requests \cup {"none", "dispose"}]
        /\ \A c \in Callers : call'[c] = "none"
    BY <2>1
  <2>3. 0 \in 0 .. MaxDue
    BY ServerAssumption
  <2>4. quiet => intentionalStop /\ pc = "idle"
    BY <2>1 DEF Quiet, Holding
  <2> QED
    BY <2>1, <2>2, <2>3, <2>4, CallersDiffer
       DEF WiringOK, Ticking, Holding, Quiet, Busy
<1>11. CASE UNCHANGED all
  BY <1>11 DEF all, vars, wiring, holder, WiringOK, Ticking, Holding, Quiet,
               Busy
<1> QED
  BY <1>1, <1>2, <1>3, <1>4, <1>5, <1>6, <1>7, <1>8, <1>9, <1>10, <1>11
     DEF ServerNext, Scheduler, Shutdown

\* The supervisor's invariant and the wiring's, in every reachable state.
LEMMA ServerInvariance == ServerSpec => [](SInv /\ IInv)
<1>1. ServerSpec => []IInv
  BY Refines, Invariance, PTL
<1> QED
  BY <1>1, WiringInit, WiringStep, PTL DEF ServerSpec

-----------------------------------------------------------------------------
\* Every variable of the server keeps its type, whatever callers, ticks,
\* crashes and the shutdown do to each other.
THEOREM ServerTypes == ServerSpec => []ServerTypeOK
<1>1. SInv /\ IInv => ServerTypeOK
  BY DEF SInv, IInv, WiringOK, ServerTypeOK
<1> QED
  BY <1>1, ServerInvariance, PTL

\* Scheduler.Stop waits for the tick at work and no tick gets to work after
\* it: from Dispose to the end of main the scheduler calls nobody.
THEOREM TicksStop == ServerSpec => []NoTickAfterStop
<1>1. SInv => NoTickAfterStop
  BY DEF SInv, Ticking, NoTickAfterStop
<1> QED
  BY <1>1, ServerInvariance, PTL

\* A Dispose that nobody else's call overlapped is final: whatever crash was
\* being retried and whichever timers had fired, no kernel outlives it.
THEOREM QuietShutdown == ServerSpec => []QuietShutdownLeavesNoKernel
<1>1. SInv /\ IInv => QuietShutdownLeavesNoKernel
  <2> SUFFICES ASSUME SInv, IInv, stage \in {"bye", "exited"}, quiet, ~overlap
               PROVE  Alive = {}
    BY DEF QuietShutdownLeavesNoKernel
  <2>1. intentionalStop /\ pc = "idle"
    BY DEF SInv, Holding, Quiet
  <2>2. child = None
    BY <2>1 DEF IInv, Settling, SettledWhenIdle
  <2>3. \A p \in Alive : p = None
    BY <2>1, <2>2 DEF IInv, Single
  <2>4. \A p \in Alive : p \in Procs /\ p # None
    BY SupervisorAssumption DEF Alive, Procs, None
  <2> QED
    BY <2>3, <2>4
<1> QED
  BY <1>1, ServerInvariance, PTL
=============================================================================
