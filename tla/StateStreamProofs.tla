------------------------- MODULE StateStreamProofs -------------------------
(* Proofs about StateStream, for channels and buffers of any size. *)
EXTENDS StateStream, TLAPS

\* The promise of the supervisor, as an invariant: who may be behind.
Kernel ==
  /\ phase = "idle" => status \notin {"starting", "stopping"}
  /\ phase = "idle" /\ stopRequested => status = "stopped"
  /\ phase = "start" => ~stopRequested
  /\ phase = "stop" => stopRequested /\ status \in {"stopping", "stopped"}
  /\ told # "stopping"
  /\ told # status => stopRequested

\* Where the handler is and what it holds.
Handling ==
  /\ handler = "none" => ~subscribed /\ stateCh = <<>>
  /\ handler \in {"none", "seed"} /\ connected => wire = <<>>
  /\ handler = "push" => held \in Statuses

\* A queued event is the last one broadcast.  With the queue empty, what is
\* underway is that one, or a seed that knows more than has been broadcast.
Ending ==
  subscribed /\ connected /\ ~dropped =>
    IF stateCh # <<>>
      THEN stateCh[Len(stateCh)] = told
      ELSE /\ handler = "push" => held = told \/ told # status
           /\ handler # "push" /\ wire # <<>> =>
                wire[Len(wire)] = told \/ told # status

IInv == TypeOK /\ Kernel /\ Handling /\ Ending

-----------------------------------------------------------------------------
LEMMA InitInv == Init => IInv
<1> SUFFICES ASSUME Init PROVE IInv
  OBVIOUS
<1>1. KernelTypeOK /\ Kernel
  BY DEF Init, KernelInit, KernelTypeOK, Kernel, Statuses
<1>2. /\ stateCh \in Seq(Statuses) /\ Len(stateCh) <= StateCap
      /\ wire \in Seq(Statuses) /\ Len(wire) <= WireCap
  BY StreamAssumption DEF Init
<1>3. poll \in [Polls -> Statuses \cup {"idle", "asked"}]
  BY DEF Init
<1>4. TypeOK
  BY <1>1, <1>2, <1>3 DEF Init, TypeOK, Shown
<1>5. Handling /\ Ending
  BY DEF Init, Handling, Ending
<1> QED
  BY <1>1, <1>4, <1>5 DEF IInv

\* The supervisor's steps, whoever listens.  A status nobody was told of is
\* told by the next broadcast and by nothing else.
LEMMA KernelStep ==
  ASSUME KernelTypeOK, Kernel, [KernelNext]_kernel
  PROVE  /\ KernelTypeOK' /\ Kernel'
         /\ Telling => told' = status'
         /\ Silent /\ told # status => told' # status'
         /\ Silent => told' = told
<1> USE DEF KernelTypeOK, Kernel, Statuses, Telling, Silent, Tell
<1>1. CASE BeginStart
  BY <1>1 DEF BeginStart, EndStart, BeginStop, EndStop
<1>2. CASE Spawned
  BY <1>2 DEF Spawned, EndStart, BeginStop, EndStop
<1>3. CASE Ready
  BY <1>3 DEF Ready, EndStart, BeginStop, EndStop
<1>4. CASE Fail
  BY <1>4 DEF Fail, EndStart, BeginStop, EndStop
<1>5. CASE Exit
  BY <1>5 DEF Exit, EndStart, BeginStop, EndStop
<1>6. CASE Silent
  BY <1>6 DEF EndStart, BeginStop, EndStop, BeginStart, Spawned, Ready, Fail,
              Exit
<1>7. CASE UNCHANGED kernel
  BY <1>7 DEF kernel, BeginStart, Spawned, Ready, Fail, Exit, EndStart,
              BeginStop, EndStop
<1> QED
  BY <1>1, <1>2, <1>3, <1>4, <1>5, <1>6, <1>7 DEF KernelNext

\* Sequences of statuses: what a FIFO does to its ends.
LEMMA Fifo ==
  ASSUME NEW q \in Seq(Statuses)
  PROVE  /\ Len(q) \in Nat
         /\ \A x \in Statuses :
              /\ Append(q, x) \in Seq(Statuses)
              /\ Append(q, x) # <<>>
              /\ Len(Append(q, x)) = Len(q) + 1
              /\ Append(q, x)[Len(Append(q, x))] = x
         /\ q # <<>> =>
              /\ Head(q) \in Statuses
              /\ Tail(q) \in Seq(Statuses)
              /\ Len(Tail(q)) = Len(q) - 1
              /\ Tail(q) = <<>> => Head(q) = q[Len(q)]
              /\ Tail(q) # <<>> => Tail(q)[Len(Tail(q))] = q[Len(q)]
              /\ q[Len(q)] \in Statuses
<1>1. Len(q) \in Nat
  OBVIOUS
<1>2. ASSUME NEW x \in Statuses
      PROVE  /\ Append(q, x) \in Seq(Statuses)
             /\ Append(q, x) # <<>>
             /\ Len(Append(q, x)) = Len(q) + 1
             /\ Append(q, x)[Len(Append(q, x))] = x
  OBVIOUS
<1>3. ASSUME q # <<>>
      PROVE  /\ Head(q) \in Statuses
             /\ Tail(q) \in Seq(Statuses)
             /\ Len(Tail(q)) = Len(q) - 1
             /\ q[Len(q)] \in Statuses
  BY <1>3
<1>4. ASSUME q # <<>>, Tail(q) = <<>>
      PROVE  Head(q) = q[Len(q)]
  BY <1>3, <1>4
<1>5. ASSUME q # <<>>, Tail(q) # <<>>
      PROVE  Tail(q)[Len(Tail(q))] = q[Len(q)]
  BY <1>3, <1>5
<1> QED
  BY <1>1, <1>2, <1>3, <1>4, <1>5

-----------------------------------------------------------------------------
\* A broadcast ends the queue with what has just been told, or is dropped.
LEMMA BroadcastInv == IInv /\ Broadcast => IInv'
<1> SUFFICES ASSUME IInv, Broadcast PROVE IInv'
  OBVIOUS
<1> USE DEF IInv, TypeOK, Broadcast, client
<1>1. KernelTypeOK' /\ Kernel' /\ told' = status' /\ told' \in Statuses
  BY KernelStep DEF KernelNext, KernelTypeOK
<1>2. CASE subscribed /\ Len(stateCh) < StateCap
  <2>1. stateCh' = Append(stateCh, told') /\ dropped' = FALSE
    BY <1>2 DEF Send
  <2>2. /\ stateCh' \in Seq(Statuses) /\ Len(stateCh') <= StateCap
        /\ stateCh' # <<>> /\ stateCh'[Len(stateCh')] = told'
    BY <1>1, <1>2, <2>1, Fifo, StreamAssumption
  <2>3. Handling'
    BY <1>2 DEF Handling
  <2>4. Ending'
    BY <2>2 DEF Ending
  <2> QED
    BY <1>1, <2>1, <2>2, <2>3, <2>4
<1>3. CASE ~(subscribed /\ Len(stateCh) < StateCap)
  <2>1. stateCh' = stateCh /\ dropped' = subscribed
    BY <1>3 DEF Send
  <2> QED
    BY <1>1, <2>1 DEF Handling, Ending
<1> QED
  BY <1>2, <1>3

\* A change nobody is told of leaves what the stream says as it is.
LEMMA QuietInv == IInv /\ Quiet => IInv'
<1> SUFFICES ASSUME IInv, Quiet PROVE IInv'
  OBVIOUS
<1> USE DEF IInv, TypeOK, Quiet, server, client
<1>1. /\ KernelTypeOK' /\ Kernel' /\ told' = told
      /\ told # status => told' # status'
  BY KernelStep DEF KernelNext
<1>2. Handling' /\ TypeOK'
  BY <1>1 DEF Handling
<1>3. Ending'
  BY <1>1 DEF Ending
<1> QED
  BY <1>1, <1>2, <1>3

\* The handler and the client only pass events on, in order.
LEMMA StreamInv == IInv /\ (Detach \/ Stream \/ Disconnect) => IInv'
<1> SUFFICES ASSUME IInv, Detach \/ Stream \/ Disconnect PROVE IInv'
  OBVIOUS
<1> USE DEF IInv, TypeOK, client, kernel
<1>1. CASE Detach
  BY <1>1 DEF Detach, KernelTypeOK, Kernel, Handling, Ending
<1>2. CASE Register
  BY <1>2 DEF Register, KernelTypeOK, Kernel, Handling, Ending
<1>3. CASE Seed
  BY <1>3 DEF Seed, KernelTypeOK, Kernel, Handling, Ending, Shown
<1>4. CASE Push
  <2>1. held \in Statuses
    BY <1>4 DEF Push, Handling
  <2>2. /\ wire' \in Seq(Statuses) /\ Len(wire') <= WireCap
        /\ wire'[Len(wire')] = held
    BY <1>4, <2>1, Fifo, StreamAssumption DEF Push
  <2>3. Handling' /\ Ending'
    BY <1>4, <2>2 DEF Push, Handling, Ending
  <2> QED
    BY <1>4, <2>2, <2>3 DEF Push, KernelTypeOK, Kernel, Shown
<1>5. CASE Take
  <2>1. stateCh # <<>> /\ held' = Head(stateCh) /\ stateCh' = Tail(stateCh)
    BY <1>5 DEF Take
  <2>2. /\ held' \in Statuses
        /\ stateCh' \in Seq(Statuses) /\ Len(stateCh') <= StateCap
        /\ stateCh' = <<>> => held' = stateCh[Len(stateCh)]
        /\ stateCh' # <<>> => stateCh'[Len(stateCh')] = stateCh[Len(stateCh)]
    BY <2>1, Fifo, StreamAssumption
  <2>3. Handling' /\ Ending'
    BY <1>5, <2>1, <2>2 DEF Take, Handling, Ending
  <2> QED
    BY <1>5, <2>2, <2>3 DEF Take, KernelTypeOK, Kernel, Shown
<1>6. CASE Return
  <2>1. stateCh' \in Seq(Statuses) /\ Len(stateCh') <= StateCap
    BY <1>6, StreamAssumption DEF Return
  <2> QED
    BY <1>6, <2>1 DEF Return, KernelTypeOK, Kernel, Handling, Ending, Shown
<1>7. CASE Receive
  <2>1. wire # <<>> /\ view' = Head(wire) /\ wire' = Tail(wire)
    BY <1>7 DEF Receive
  <2>2. /\ view' \in Statuses
        /\ wire' \in Seq(Statuses) /\ Len(wire') <= WireCap
        /\ wire' # <<>> => wire'[Len(wire')] = wire[Len(wire)]
    BY <2>1, Fifo, StreamAssumption
  <2>3. Handling' /\ Ending'
    BY <1>7, <2>1, <2>2 DEF Receive, Handling, Ending, server
  <2> QED
    BY <1>7, <2>2, <2>3 DEF Receive, KernelTypeOK, Kernel, Shown, server
<1>8. CASE Disconnect
  <2> PICK n \in 0 .. Len(wire) : wire' = SubSeq(wire, 1, n)
    BY <1>8 DEF Disconnect
  <2>1. wire' \in Seq(Statuses) /\ Len(wire') <= WireCap
    BY StreamAssumption
  <2> QED
    BY <1>8, <2>1 DEF Disconnect, KernelTypeOK, Kernel, Handling, Ending, server
<1> QED
  BY <1>1, <1>2, <1>3, <1>4, <1>5, <1>6, <1>7, <1>8 DEF Stream

\* Polls touch neither the stream nor the kernel.
LEMMA PollInv == IInv /\ Polling => IInv'
<1> SUFFICES ASSUME IInv, NEW k \in Polls,
                    Ask(k) \/ Answer(k) \/ PollFails(k) \/ Land(k)
             PROVE  IInv'
  BY DEF Polling
<1> USE DEF IInv, TypeOK, KernelTypeOK, server, client, kernel
<1>1. poll' \in [Polls -> Statuses \cup {"idle", "asked"}]
  BY DEF Ask, Answer, PollFails, Land
<1>2. view' \in Shown
  BY DEF Ask, Answer, PollFails, Land, Shown
<1>3. UNCHANGED <<kernel, server, connected, wire>>
  BY DEF Ask, Answer, PollFails, Land
<1> QED
  BY <1>1, <1>2, <1>3 DEF Kernel, Handling, Ending

LEMMA Invariance == Spec => []IInv
<1>1. IInv /\ UNCHANGED vars => IInv'
  BY DEF IInv, TypeOK, KernelTypeOK, Kernel, Handling, Ending, vars, kernel,
         server, client
<1>2. IInv /\ [Next]_vars => IInv'
  BY <1>1, BroadcastInv, QuietInv, StreamInv, PollInv DEF Next
<1> QED
  BY <1>2, InitInv, PTL DEF Spec

-----------------------------------------------------------------------------
\* Every variable keeps its type: neither the channel nor the buffer grows
\* beyond its capacity.
THEOREM TypeCorrect == Spec => []TypeOK
  BY Invariance, PTL DEF IInv

\* Unless an event was dropped or a stop was not broadcast, what a client of
\* the event stream is told last is the present status of the kernel.
THEOREM StreamTellsTheTruth == Spec => []StreamIsCurrent
<1>1. IInv => StreamIsCurrent
  BY DEF IInv, Ending, StreamIsCurrent, Newest
<1> QED
  BY <1>1, Invariance, PTL
=============================================================================
