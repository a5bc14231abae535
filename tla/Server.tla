------------------------------- MODULE Server -------------------------------
(***************************************************************************)
(* The process around the supervisor: server.go (Run) and                  *)
(* scheduler/scheduler.go, composed with module Supervisor.                *)
(*                                                                         *)
(* Who calls the supervisor: the goroutine that starts the kernel on boot, *)
(* the scheduler's tick, the HTTP handlers, and Run itself, which disposes *)
(* of it.  call[c] is the call a caller has made and that has not returned *)
(* (waiting for lifeMu or holding it), caller the one that holds lifeMu.   *)
(***************************************************************************)
EXTENDS Supervisor

CONSTANTS
  Handlers,   \* bound: requests under way at once
  MaxDue,     \* bound: due profiles of one tick that turn out to be active
  Boot, Tick, Main, Nobody

ASSUME ServerAssumption ==
  /\ MaxDue \in Nat
  /\ Boot # Tick /\ Boot # Main /\ Tick # Main
  /\ {Boot, Tick, Main, Nobody} \cap Handlers = {}
  /\ Nobody \notin {Boot, Tick, Main}

Callers == Handlers \cup {Boot, Tick, Main}

VARIABLES
  call,       \* [Callers -> the call under way]
  caller,     \* the holder of lifeMu; Nobody for a watchdog callback
  stage,      \* where Run is
  running,    \* Scheduler.running
  tick,       \* the chain of timer, tickOnce and arm
  due,        \* profiles the tick under way may still apply
  quiet       \* history: nobody had a call under way when Dispose was called

wiring == <<call, caller, stage, running, tick, due, quiet>>
all    == <<vars, wiring>>

Requests == {"start", "stop", "restart", "stream"}

ServerTypeOK ==
  /\ TypeOK
  /\ call \in [Callers -> Requests \cup {"none", "dispose"}]
  /\ caller \in Callers \cup {Nobody}
  /\ stage \in {"serving", "draining", "joinSched", "dispose",
                "bye", "exited"}
  /\ running \in BOOLEAN
  /\ tick \in {"armed", "fired", "work", "rearm", "off"}
  /\ due \in 0 .. MaxDue
  /\ quiet \in BOOLEAN

\* The scheduler is armed, the boot goroutine is about to call Start.
ServerInit ==
  /\ Init
  /\ call = [c \in Callers |-> IF c = Boot THEN "start" ELSE "none"]
  /\ caller = Nobody
  /\ stage = "serving"
  /\ running = TRUE
  /\ tick = "armed"
  /\ due = 0
  /\ quiet = FALSE

Up   == stage # "exited"
Busy(c) == call[c] # "none"

-----------------------------------------------------------------------------
(* Calls of the supervisor *)

\* What a step of the holder of lifeMu means for its caller.
Held(c) ==
  IF pc' = "idle"
    THEN caller' = Nobody /\ call' = [call EXCEPT ![c] = "none"]
    ELSE caller' = c /\ UNCHANGED call

\* A caller gets lifeMu.
Enter(c) ==
  /\ Up
  /\ \/ call[c] = "start" /\ Start
     \/ call[c] \in {"stop", "restart", "dispose"} /\ BeginStop(call[c])
  /\ Held(c)
  /\ UNCHANGED <<stage, running, tick, due, quiet>>

\* Start finds a kernel that runs or starts, and returns.
AlreadyUp(c) ==
  /\ Up /\ pc = "idle"
  /\ call[c] = "start"
  /\ status \in {"running", "starting"}
  /\ call' = [call EXCEPT ![c] = "none"]
  /\ UNCHANGED <<vars, caller, stage, running, tick, due, quiet>>

\* The call that holds lifeMu goes on.
CallStep ==
  /\ Up
  /\ Lifecycle
  /\ IF caller = Nobody THEN UNCHANGED <<call, caller>> ELSE Held(caller)
  /\ UNCHANGED <<stage, running, tick, due, quiet>>

\* The exits and the timers.  Once the process is gone only kernels are left.
BackgroundStep ==
  /\ Up \/ \E p \in Procs : KernelExit(p)
  /\ Background
  /\ UNCHANGED wiring

-----------------------------------------------------------------------------
(* Handlers *)

\* A request is accepted.  An activation is a "restart" here, an event stream
\* makes no call and lasts until its client leaves.
Accept(h) ==
  /\ stage = "serving"
  /\ ~Busy(h)
  /\ \E r \in Requests : call' = [call EXCEPT ![h] = r]
  /\ UNCHANGED <<vars, caller, stage, running, tick, due, quiet>>

Leave(h) ==
  /\ Up
  /\ call[h] = "stream"
  /\ call' = [call EXCEPT ![h] = "none"]
  /\ UNCHANGED <<vars, caller, stage, running, tick, due, quiet>>

-----------------------------------------------------------------------------
(* The scheduler.  Its mutex is held by tickOnce from "work" on. *)

TimerFires ==
  /\ Up
  /\ tick = "armed"
  /\ tick' = "fired"
  /\ UNCHANGED <<vars, call, caller, stage, running, due, quiet>>

\* Mutant of TickBegins: a tick that waited for the mutex ignores Stop.
TickBegins_AfterStop ==
  /\ Up
  /\ tick = "fired"
  /\ tick' = "work" /\ due' \in 0 .. MaxDue
  /\ UNCHANGED <<vars, call, caller, stage, running, quiet>>

\* tickOnce got the mutex.  Profiles that are not remote, not due, not active
\* or whose download or activation fails call nobody.
TickBegins ==
  /\ Up
  /\ tick = "fired"
  /\ IF running THEN tick' = "work" /\ due' \in 0 .. MaxDue
                ELSE tick' = "rearm" /\ UNCHANGED due
  /\ UNCHANGED <<vars, call, caller, stage, running, quiet>>

\* applyActiveRefresh: the refreshed profile is the active one.
Apply ==
  /\ Up
  /\ tick = "work" /\ due > 0 /\ ~Busy(Tick)
  /\ due' = due - 1
  /\ call' = [call EXCEPT ![Tick] = "restart"]
  /\ UNCHANGED <<vars, caller, stage, running, tick, quiet>>

TickEnds ==
  /\ Up
  /\ tick = "work" /\ due = 0 /\ ~Busy(Tick)
  /\ tick' = "rearm"
  /\ UNCHANGED <<vars, call, caller, stage, running, due, quiet>>

\* arm
Rearm ==
  /\ Up
  /\ tick = "rearm"
  /\ tick' = IF running THEN "armed" ELSE "off"
  /\ UNCHANGED <<vars, call, caller, stage, running, due, quiet>>

-----------------------------------------------------------------------------
(* Run, after the signal *)

Signal ==
  /\ stage = "serving"
  /\ stage' = "draining"
  /\ UNCHANGED <<vars, call, caller, running, tick, due, quiet>>

\* The goroutines and timers go with the process, the kernels do not.
ProcessEnds ==
  /\ stage' = "exited"
  /\ call' = [c \in Callers |-> "none"] /\ caller' = Nobody
  /\ tick' = "off" /\ due' = 0 /\ running' = FALSE
  /\ UNCHANGED <<vars, quiet>>

\* ListenAndServe failed: log.Fatalf, and nothing is disposed of.
ListenFails == stage = "serving" /\ ProcessEnds

\* Mutant of Drained: Shutdown without a deadline.
Drained_Forever ==
  /\ stage = "draining"
  /\ \A h \in Handlers : ~Busy(h)
  /\ stage' = "joinSched"
  /\ running' = FALSE
  /\ UNCHANGED <<vars, call, caller, tick, due, quiet>>

\* srv.Shutdown returns: the handlers are done, or its 10 s are over.
\* Scheduler.Stop clears running before it takes the mutex.
Drained ==
  /\ stage = "draining"
  /\ stage' = "joinSched"
  /\ running' = FALSE
  /\ UNCHANGED <<vars, call, caller, tick, due, quiet>>

\* Mutant of JoinSched: Stop does not wait for a tick under way.
JoinSched_NoWait ==
  /\ stage = "joinSched"
  /\ tick' = IF tick = "armed" THEN "off" ELSE tick
  /\ stage' = "dispose"
  /\ call' = [call EXCEPT ![Main] = "dispose"]
  /\ quiet' = \A c \in Callers : ~Busy(c)
  /\ UNCHANGED <<vars, caller, running, due>>

\* It gets the mutex, stops the timer and returns; Run calls Dispose.
JoinSched ==
  /\ stage = "joinSched"
  /\ tick # "work"
  /\ tick' = IF tick = "armed" THEN "off" ELSE tick
  /\ stage' = "dispose"
  /\ call' = [call EXCEPT ![Main] = "dispose"]
  /\ quiet' = \A c \in Callers : ~Busy(c)
  /\ UNCHANGED <<vars, caller, running, due>>

\* Dispose returned.
Disposed ==
  /\ stage = "dispose"
  /\ ~Busy(Main)
  /\ stage' = "bye"
  /\ UNCHANGED <<vars, call, caller, running, tick, due, quiet>>

\* Run and main return; until then the other goroutines still run.
Exit == stage = "bye" /\ ProcessEnds

-----------------------------------------------------------------------------
Scheduler == TimerFires \/ TickBegins \/ Apply \/ TickEnds \/ Rearm

Shutdown == Drained \/ JoinSched \/ Disposed \/ Exit

ServerNext ==
  \/ \E c \in Callers : Enter(c) \/ AlreadyUp(c)
  \/ \E h \in Handlers : Accept(h) \/ Leave(h)
  \/ CallStep \/ BackgroundStep
  \/ Scheduler \/ Shutdown
  \/ Signal \/ ListenFails

ServerSpec == ServerInit /\ [][ServerNext]_all

(***************************************************************************)
(* Fairness, while the process lives.  A goroutine that can run does run.  *)
(* The deadline of pollReady is compared with the clock each time round    *)
(* the loop, so it cannot be missed for ever (strong fairness of           *)
(* PollTimeout).  A sync.Mutex serves its waiters in order once one has    *)
(* waited for a millisecond, so a caller or a fired callback gets lifeMu   *)
(* even if other calls keep coming (strong fairness of Enter and of        *)
(* BackoffCallback; nobody waits for the boot start).  SIGKILL is obeyed;  *)
(* no other exit is fair, and neither are the clients and the signal.      *)
(***************************************************************************)
Aside(A) == Up /\ A /\ UNCHANGED wiring

ServerFairness ==
  /\ WF_all(CallStep)
  /\ SF_all(CallStep /\ PollTimeout)
  /\ \A p \in Procs :
       /\ WF_all(p \in killed /\ KernelExit(p) /\ UNCHANGED wiring)
       /\ WF_all(Aside(SupersededExit(p) \/ TrackedExit(p) \/ ScheduleRestart(p)))
       /\ WF_all(Aside(BackoffFires(p)))
       /\ SF_all(Aside(BackoffCallback(p)))
  /\ \A c \in Callers \ {Boot} : SF_all(Enter(c) \/ AlreadyUp(c))
  /\ WF_all(Scheduler)
  /\ WF_all(Shutdown)

FairServer == ServerSpec /\ ServerFairness

-----------------------------------------------------------------------------
(* Properties *)

\* If no handler, no tick and no boot start was under way when Run called
\* Dispose, then no kernel survives it: neither a crash that was being
\* retried nor a tick whose timer had fired brings one back before the
\* process is gone.  (A kernel the supervisor had lost track of is another
\* matter: OneKernelUnlessOverlap.)
QuietShutdownLeavesNoKernel ==
  stage \in {"bye", "exited"} /\ quiet /\ ~overlap => Alive = {}

\* Once Scheduler.Stop has returned no tick is at work on the profiles or on
\* the kernel, and none will be.
NoTickAfterStop ==
  stage \in {"dispose", "bye"} => tick # "work" /\ ~Busy(Tick)

\* A signal ends the process: no event stream that stays open, no kernel
\* that does not obey and no tick under way holds it up for ever.
SignalEnds == stage = "draining" ~> stage = "exited"

\* A lifecycle request is answered, however boot, ticks, watchdog and other
\* requests compete for lifeMu, unless the process ends first.
RequestsAnswered ==
  \A h \in Handlers :
    call[h] \in {"start", "stop", "restart"} ~> ~Busy(h) \/ ~Up

\* A crash that was granted a retry is followed by a start, unless a user
\* takes over with Stop or Restart, or the process ends.
CrashIsRetried ==
  \A p \in Procs :
    watcher[p] = "schedule" ~> status = "starting" \/ intentionalStop \/ ~Up
=============================================================================
