------------------------------ MODULE MCServer ------------------------------
(* The instances of Server that TLC checks: the server with MaxServed        *)
(* kernels, and the supervisor by itself, whose calls come in any order, with *)
(* MaxSpawns of them.                                                         *)
EXTENDS Server

CONSTANT MaxServed

VARIABLE alone  \* is this behaviour about the supervisor by itself?

MCInit == ServerInit /\ alone \in BOOLEAN

MCNext ==
  /\ \/ alone /\ Next /\ UNCHANGED wiring
     \/ ~alone /\ ServerNext
          /\ \A p \in Procs : p > MaxServed => proc'[p] = "unborn"
  /\ UNCHANGED alone

MCSpec == MCInit /\ [][MCNext]_<<all, alone>>

MCLiveInit == ServerInit /\ alone = FALSE

MCLive ==
  /\ MCLiveInit
  /\ [][ServerNext /\ UNCHANGED alone]_<<all, alone>>
  /\ ServerFairness
=============================================================================
