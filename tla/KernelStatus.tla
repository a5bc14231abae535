---------------------------- MODULE KernelStatus ----------------------------
(***************************************************************************)
(* What the supervisor promises about the status of the kernel: the one    *)
(* State() returns (api/kernel.go) and the one the callbacks of OnState    *)
(* were last given.  Module Supervisor implements this specification.      *)
(*                                                                         *)
(* Every change of the status is told to the callbacks but those a Stop, a *)
(* Restart or a Dispose begins with.                                       *)
(***************************************************************************)
VARIABLES
  status,         \* state.Status
  told,           \* the status last broadcast
  phase,          \* what the lifecycle call under way is doing
  stopRequested   \* intentionalStop

kernel == <<status, told, phase, stopRequested>>

Statuses == {"stopped", "starting", "running", "stopping", "errored"}

KernelTypeOK ==
  /\ status \in Statuses
  /\ told \in Statuses
  /\ phase \in {"idle", "start", "stop"}
  /\ stopRequested \in BOOLEAN

KernelInit ==
  /\ status = "stopped" /\ told = "stopped"
  /\ phase = "idle"
  /\ stopRequested = FALSE

Tell(s) == status' = s /\ told' = s

-----------------------------------------------------------------------------
\* doStart begins.
BeginStart ==
  /\ phase = "idle"
  /\ phase' = "start"
  /\ stopRequested' = FALSE
  /\ Tell("starting")

\* The process is there: the same status once more, now with its pid.
Spawned ==
  /\ phase = "start"
  /\ Tell(status)
  /\ UNCHANGED <<phase, stopRequested>>

\* pollReady got its answer.
Ready ==
  /\ phase = "start"
  /\ Tell("running")
  /\ UNCHANGED <<phase, stopRequested>>

\* failStart (which ends the call) or the ready timeout (which goes on).
Fail ==
  /\ phase = "start"
  /\ Tell("errored")
  /\ phase' \in {"start", "idle"}
  /\ UNCHANGED stopRequested

\* doStart returns, in a status that is not a passing one.
EndStart ==
  /\ phase = "start"
  /\ status \notin {"starting", "stopping"}
  /\ phase' = "idle"
  /\ UNCHANGED <<status, told, stopRequested>>

\* The tracked process exits.  After a stop there is none.
Exit ==
  /\ ~(phase = "idle" /\ stopRequested)
  /\ Tell(IF ~stopRequested /\ status \in {"starting", "running", "stopping"}
            THEN "errored" ELSE "stopped")
  /\ UNCHANGED <<phase, stopRequested>>

\* doStop begins, with a process to end or without one; nobody is told.
BeginStop ==
  /\ phase = "idle"
  /\ stopRequested' = TRUE
  /\ \/ status' = "stopping" /\ phase' = "stop"
     \/ status' = "stopped" /\ UNCHANGED phase
  /\ UNCHANGED told

\* doStop returns; the exit it waited for has set the status.
EndStop ==
  /\ phase = "stop"
  /\ status = "stopped"
  /\ phase' = "idle"
  /\ UNCHANGED <<status, told, stopRequested>>

-----------------------------------------------------------------------------
Telling == BeginStart \/ Spawned \/ Ready \/ Fail \/ Exit
Silent  == EndStart \/ BeginStop \/ EndStop

KernelNext == Telling \/ Silent

KernelSpec == KernelInit /\ [][KernelNext]_kernel
=============================================================================
