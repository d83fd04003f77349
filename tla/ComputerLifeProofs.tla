------------------------- MODULE ComputerLifeProofs -------------------------
(***************************************************************************)
(* TLAPS proofs about ComputerLife, for every set of computers: the count  *)
(* of outstanding work is right through every teardown, no handler works   *)
(* on a freed io_context, and a bind fails only when another process has   *)
(* the port.  The work count is what joins the three: the destructor       *)
(* leaves its loop at zero, and zero means that nothing is posted, queued  *)
(* or running.                                                             *)
(***************************************************************************)
EXTENDS ComputerLife, SequenceTheorems, TLAPS

\* What a completion queue holds.
Packets == {"datagram", "error", "stop"}

\* A queue holds no two operations.
AtMostOne(packets) == \A j, k \in Operations(packets) : j = k

\* Initialize has not started the IO thread, nor posted the first receive.
BeforeThread == {"none", "created", "failed", "constructed"}
BeforeReceive == {"none", "created", "failed"}

\* A receive was counted, and was not taken yet.
ReceiveCounted(c) == Receiving(c) \/ thread[c] = "post"

\* A handler was counted, and has not finished; a lost thread never does.
HandlerCounted(c) == InHandler(c) \/ Undefined(c)

\* The account of the work of one computer.
Account(c) ==
    /\ outstanding_work[c] = (IF ReceiveCounted(c) THEN 1 ELSE 0)
                             + (IF HandlerCounted(c) THEN 1 ELSE 0)
    /\ receiveOp[c] # "none" => Operations(queue[c]) = {}
    /\ AtMostOne(queue[c])

\* Where the IO thread of one computer is, given the life of the computer.
Stage(c) ==
    /\ computer[c] \in BeforeThread => thread[c] = "none"
    /\ computer[c] \in BeforeReceive => ~Receiving(c)
    /\ HandlerCounted(c) /\ thread[c] \notin {"pending", "finish"} => ~Receiving(c)
    /\ computer[c] = "drained" => outstanding_work[c] = 0
    /\ computer[c] = "destroyed" => ~Receiving(c) /\ ~InHandler(c)
    /\ mCallbacks[c] => computer[c] = "initialized"

\* What one computer keeps; the account ends with its io_context.
LocalInv(c) == (computer[c] # "destroyed" => Account(c)) /\ Stage(c)

\* One simulation at a time, and a bound port is the port of a live computer.
PortInv ==
    /\ \A c \in Computers : port = c =>
         computer[c] \in {"constructed", "detached", "initialized", "complete"}
    /\ \A c, d \in Computers :
         computer[c] \notin {"none", "destroyed"}
         /\ computer[d] \notin {"none", "destroyed"} => c = d

\* The inductive invariant.
LifeInv == LifeTypeOK /\ PortInv /\ \A c \in Computers : LocalInv(c)
-----------------------------------------------------------------------------
(* Packets in a queue.                                                     *)

\* An empty queue holds no operation.
LEMMA NoPackets ==
  /\ <<>> \in Seq(Packets) /\ Operations(<<>>) = {} /\ AtMostOne(<<>>)
BY DEF Operations, AtMostOne, Packets

\* A stop packet is not an operation, wherever it stands.
LEMMA AppendStop ==
  ASSUME NEW q \in Seq(Packets)
  PROVE  /\ Append(q, "stop") \in Seq(Packets)
         /\ Operations(Append(q, "stop")) = Operations(q)
<1>1. "stop" \in Packets
  BY DEF Packets
<1>2. /\ Append(q, "stop") \in Seq(Packets)
      /\ Len(Append(q, "stop")) = Len(q) + 1
      /\ \A i \in 1 .. Len(q) : Append(q, "stop")[i] = q[i]
      /\ Append(q, "stop")[Len(q) + 1] = "stop"
  BY <1>1, AppendProperties
<1>3. Len(q) \in Nat /\ DOMAIN q = 1 .. Len(q)
      /\ DOMAIN Append(q, "stop") = 1 .. Len(q) + 1
  BY <1>2, LenProperties
<1>. QED
  BY <1>2, <1>3 DEF Operations

\* A packet of an operation adds its position to the operations.
LEMMA AppendOperation ==
  ASSUME NEW q \in Seq(Packets), NEW p \in Packets, p # "stop"
  PROVE  /\ Append(q, p) \in Seq(Packets)
         /\ Operations(Append(q, p)) = Operations(q) \cup {Len(q) + 1}
<1>1. /\ Append(q, p) \in Seq(Packets)
      /\ Len(Append(q, p)) = Len(q) + 1
      /\ \A i \in 1 .. Len(q) : Append(q, p)[i] = q[i]
      /\ Append(q, p)[Len(q) + 1] = p
  BY AppendProperties
<1>2. Len(q) \in Nat /\ DOMAIN q = 1 .. Len(q)
      /\ DOMAIN Append(q, p) = 1 .. Len(q) + 1
  BY <1>1, LenProperties
<1>. QED
  BY <1>1, <1>2 DEF Operations

\* An operation that joins a queue without one is the only one.
LEMMA LaterOperation ==
  ASSUME NEW q \in Seq(Packets), NEW p \in Packets, p # "stop", Operations(q) = {}
  PROVE  Operations(Append(q, p)) # {} /\ AtMostOne(Append(q, p))
<1>1. Operations(Append(q, p)) = {Len(q) + 1}
  BY AppendOperation
<1>. QED
  BY <1>1 DEF AtMostOne

\* What is left of a queue with at most one operation when its head is taken.
LEMMA TakeHead ==
  ASSUME NEW q \in Seq(Packets), q # <<>>, AtMostOne(q)
  PROVE  /\ Head(q) \in Packets /\ Tail(q) \in Seq(Packets)
         /\ AtMostOne(Tail(q))
         /\ Head(q) = "stop" => (Operations(Tail(q)) = {} <=> Operations(q) = {})
         /\ Head(q) # "stop" => Operations(Tail(q)) = {} /\ Operations(q) # {}
<1>1. /\ Head(q) \in Packets /\ Tail(q) \in Seq(Packets)
      /\ Len(Tail(q)) = Len(q) - 1
      /\ \A i \in 1 .. Len(Tail(q)) : Tail(q)[i] = q[i + 1]
  BY HeadTailProperties
<1>2. /\ Len(q) \in Nat /\ Len(q) # 0 /\ DOMAIN q = 1 .. Len(q)
      /\ DOMAIN Tail(q) = 1 .. Len(q) - 1
  BY <1>1, LenProperties, EmptySeq
<1>3. Head(q) = q[1]
  OBVIOUS
<1>4. \A i \in Operations(Tail(q)) : i + 1 \in Operations(q) /\ i \in Int /\ i > 0
  BY <1>1, <1>2 DEF Operations
<1>5. \A i \in Operations(q) : i # 1 => i - 1 \in Operations(Tail(q))
  BY <1>1, <1>2 DEF Operations
<1>6. 1 \in Operations(q) <=> Head(q) # "stop"
  BY <1>2, <1>3 DEF Operations
<1>7. AtMostOne(Tail(q))
  <2>. SUFFICES ASSUME NEW j \in Operations(Tail(q)), NEW k \in Operations(Tail(q))
                PROVE  j = k
    BY DEF AtMostOne
  <2>1. j + 1 = k + 1 /\ j \in Int /\ k \in Int
    BY <1>4 DEF AtMostOne
  <2>. QED
    BY <2>1
<1>8. ASSUME Head(q) = "stop" PROVE Operations(Tail(q)) = {} <=> Operations(q) = {}
  BY <1>4, <1>5, <1>6, <1>8
<1>9. ASSUME Head(q) # "stop" PROVE Operations(Tail(q)) = {}
  <2>. SUFFICES ASSUME NEW i \in Operations(Tail(q)) PROVE FALSE
    OBVIOUS
  <2>1. i + 1 = 1 /\ i \in Int /\ i > 0
    BY <1>4, <1>6, <1>9 DEF AtMostOne
  <2>. QED
    BY <2>1
<1>. QED
  BY <1>1, <1>6, <1>7, <1>8, <1>9
-----------------------------------------------------------------------------
(* A step of another computer, or of the rest of the process.              *)

\* Nothing of computer c moved, its connected observer apart.
SameComputer(c) ==
    /\ computer'[c] = computer[c] /\ mCallbacks'[c] = mCallbacks[c]
    /\ receiveOp'[c] = receiveOp[c] /\ queue'[c] = queue[c]
    /\ outstanding_work'[c] = outstanding_work[c] /\ thread'[c] = thread[c]
    /\ stopped'[c] = stopped[c] /\ stop_event_posted'[c] = stop_event_posted[c]

\* The invariant of a computer depends on that computer only.
LEMMA SameIsLocal ==
  ASSUME NEW c \in Computers, LocalInv(c), SameComputer(c)
  PROVE  LocalInv(c)'
BY DEF LocalInv, SameComputer, Account, Stage, ReceiveCounted, HandlerCounted,
       Undefined, Receiving, InHandler, Operations, AtMostOne

\* A step moves one computer and leaves the others alone.
LEMMA OthersStand ==
  ASSUME LifeTypeOK, NEW e \in Computers, NEW c \in Computers, c # e,
         Simulation(e) \/ IoThread(e) \/ ReceiveCompletes(e)
  PROVE  SameComputer(c)
<1>1. CASE SimulationCreated(e)
  BY <1>1 DEF SimulationCreated, Becomes, SameComputer, LifeTypeOK,
     contextVars
<1>2. CASE Construct(e)
  BY <1>2 DEF Construct, Posted, FailsAtOnce, Enqueue, Becomes, AddWork,
     SameComputer, LifeTypeOK, contextVars
<1>3. CASE ConstructThrows(e)
  BY <1>3 DEF ConstructThrows, Becomes, SameComputer, LifeTypeOK, contextVars
<1>4. CASE StartThread(e)
  BY <1>4 DEF StartThread, Goto, Becomes, SameComputer, LifeTypeOK,
     contextVars
<1>5. CASE ConnectObserver(e)
  BY <1>5 DEF ConnectObserver, Becomes, SameComputer, LifeTypeOK, contextVars
<1>6. CASE Complete(e)
  BY <1>6 DEF Complete, Becomes, SameComputer, LifeTypeOK, contextVars
<1>7. CASE Destroy(e)
  BY <1>7 DEF Destroy, CloseSockets, Becomes, SameComputer, LifeTypeOK,
     contextVars
<1>8. CASE DrainCheck(e)
  BY <1>8 DEF DrainCheck, Becomes, Drained, SameComputer, LifeTypeOK,
     contextVars
<1>9. CASE DrainPacket(e)
  BY <1>9 DEF DrainPacket, EndWork, Dequeue, Becomes, SameComputer,
     LifeTypeOK, contextVars
<1>10. CASE DestroyServices(e)
  BY <1>10 DEF DestroyServices, Becomes, Goto, SameComputer, LifeTypeOK,
     contextVars
<1>11. CASE ReceiveCompletes(e)
  BY <1>11 DEF ReceiveCompletes, Enqueue, SameComputer, LifeTypeOK,
     contextVars
<1>12. CASE Run(e)
  BY <1>12 DEF Run, At, Goto, SameComputer, LifeTypeOK, contextVars
<1>13. CASE Wait(e)
  BY <1>13 DEF Wait, At, Goto, SameComputer, LifeTypeOK, contextVars
<1>14. CASE Packet(e)
  BY <1>14 DEF Packet, At, Goto, Dequeue, SameComputer, LifeTypeOK,
     contextVars
<1>15. CASE Callback(e)
  BY <1>15 DEF Callback, Goto, SameComputer, LifeTypeOK, contextVars
<1>16. CASE Echo(e)
  BY <1>16 DEF Echo, Goto, SocketOpen, SameComputer, LifeTypeOK, contextVars
<1>17. CASE Rearm(e) \/ PostReceive(e) \/ OnPending(e)
  <2>1. CASE Rearm(e)
    BY <2>1 DEF Rearm, AddWork, Goto, SameComputer, LifeTypeOK
  <2>2. CASE PostReceive(e)
    BY <2>2 DEF PostReceive, Posted, FailsAtOnce, Enqueue, Goto, SameComputer,
       LifeTypeOK
  <2>3. CASE OnPending(e)
    BY <2>3 DEF OnPending, Goto, SameComputer, LifeTypeOK, contextVars
  <2>. QED
    BY <1>17, <2>1, <2>2, <2>3
<1>18. CASE HandleError(e)
  BY <1>18 DEF HandleError, Goto, SameComputer, LifeTypeOK, contextVars
<1>19. CASE Finish(e)
  BY <1>19 DEF Finish, FinishWork, EndWork, Goto, SameComputer, LifeTypeOK,
     contextVars
<1>20. CASE Stop(e)
  BY <1>20 DEF Stop, At, Enqueue, Goto, SameComputer, LifeTypeOK, contextVars
<1>21. CASE StopEvent(e)
  BY <1>21 DEF StopEvent, At, PassStopEvent, Enqueue, Goto, SameComputer,
     LifeTypeOK, contextVars
<1>22. CASE UseAfterFree(e)
  BY <1>22 DEF UseAfterFree, Goto, Touches, SameComputer, LifeTypeOK,
     contextVars
<1>23. CASE AbandonedWait(e)
  BY <1>23 DEF AbandonedWait, SameComputer, LifeTypeOK, contextVars
<1>. QED
  BY <1>1, <1>2, <1>3, <1>4, <1>5, <1>6, <1>7, <1>8, <1>9, <1>10, <1>11,
     <1>12, <1>13, <1>14, <1>15, <1>16, <1>17, <1>18, <1>19, <1>20, <1>21,
     <1>22, <1>23 DEF Simulation, Destructor, IoThread

\* The types of a step.  The count of outstanding work stays a natural number
\* because of the account: every decrement is of work that is there.
LEMMA TypeStep ==
  ASSUME LifeInv, NEW e \in Computers,
         Simulation(e) \/ IoThread(e) \/ ReceiveCompletes(e)
  PROVE  LifeTypeOK'
<1>. LifeTypeOK /\ LocalInv(e)
  BY DEF LifeInv
<1>. queue[e] \in Seq(Packets) /\ outstanding_work[e] \in Nat
  BY DEF LifeTypeOK, Packets
<1>. USE DEF ReceiveCounted, HandlerCounted, Undefined
<1>1. CASE SimulationCreated(e)
  BY <1>1 DEF SimulationCreated, Becomes, LifeTypeOK, Touches, contextVars
<1>2. CASE Construct(e)
  <2>1. Append(queue[e], "error") \in Seq(Packets)
    BY AppendOperation DEF Packets
  <2>2. queue' \in [Computers -> Seq(Packets)]
    BY <1>2, <2>1 DEF Construct, Posted, FailsAtOnce, Enqueue, LifeTypeOK, Packets
  <2>3. receiveOp' \in [Computers -> {"none", "posted", "aborting"}]
    BY <1>2 DEF Construct, Posted, FailsAtOnce, Enqueue, LifeTypeOK
  <2>4. outstanding_work' \in [Computers -> Nat]
    BY <1>2 DEF Construct, AddWork, LifeTypeOK
  <2>. QED
    BY <1>2, <2>2, <2>3, <2>4 DEF Construct, Becomes, LifeTypeOK, Packets
<1>3. CASE ConstructThrows(e)
  BY <1>3 DEF ConstructThrows, Becomes, LifeTypeOK, Touches, contextVars
<1>4. CASE StartThread(e)
  BY <1>4 DEF StartThread, Goto, Becomes, LifeTypeOK, Touches, contextVars
<1>5. CASE ConnectObserver(e)
  BY <1>5 DEF ConnectObserver, Becomes, LifeTypeOK, Touches, contextVars
<1>6. CASE Complete(e)
  BY <1>6 DEF Complete, Becomes, LifeTypeOK, Touches, contextVars
<1>7. CASE Destroy(e)
  BY <1>7 DEF Destroy, CloseSockets, Becomes, LifeTypeOK, Touches,
     contextVars
<1>8. CASE DrainCheck(e)
  BY <1>8 DEF DrainCheck, Becomes, Drained, LifeTypeOK, Touches, contextVars
<1>9. CASE DrainPacket(e)
  <2>1. queue[e] # <<>> /\ AtMostOne(queue[e]) /\ computer[e] # "destroyed"
    BY <1>9 DEF DrainPacket, LocalInv, Account
  <2>2. /\ Tail(queue[e]) \in Seq(Packets)
        /\ Head(queue[e]) # "stop" => Operations(queue[e]) # {}
    BY <2>1, TakeHead
  <2>3. Head(queue[e]) # "stop" => outstanding_work[e] - 1 \in Nat
    BY <2>1, <2>2 DEF LocalInv, Account, Receiving
  <2>. QED
    BY <1>9, <2>2, <2>3 DEF DrainPacket, EndWork, Dequeue, Becomes, LifeTypeOK,
       Packets, contextVars, Touches
<1>10. CASE DestroyServices(e)
  BY <1>10, NoPackets DEF DestroyServices, Becomes, Goto, LifeTypeOK,
     Touches, Packets, contextVars
<1>11. CASE ReceiveCompletes(e)
  BY <1>11, AppendOperation DEF ReceiveCompletes, Enqueue, LifeTypeOK,
     Touches, Packets, contextVars
<1>12. CASE Run(e)
  BY <1>12 DEF Run, At, Goto, LifeTypeOK, Touches, contextVars
<1>13. CASE Wait(e)
  BY <1>13 DEF Wait, At, Goto, LifeTypeOK, Touches, contextVars
<1>14. CASE Packet(e)
  BY <1>14, TakeHead DEF Packet, At, Goto, Dequeue, LifeTypeOK, Touches,
     Packets, LocalInv, Account, Receiving, InHandler, Stage, contextVars
<1>15. CASE Callback(e)
  BY <1>15 DEF Callback, Goto, LifeTypeOK, Touches, contextVars
<1>16. CASE Echo(e)
  BY <1>16 DEF Echo, Goto, SocketOpen, LifeTypeOK, Touches, contextVars
<1>17. CASE Rearm(e) \/ PostReceive(e) \/ OnPending(e)
  <2>1. CASE Rearm(e)
    BY <2>1 DEF Rearm, AddWork, Goto, LifeTypeOK
  <2>2. CASE PostReceive(e)
    <3>1. Append(queue[e], "error") \in Seq(Packets)
      BY AppendOperation DEF Packets
    <3>2. queue' \in [Computers -> Seq(Packets)]
      BY <2>2, <3>1 DEF PostReceive, Posted, FailsAtOnce, Enqueue, LifeTypeOK, Packets
    <3>3. receiveOp' \in [Computers -> {"none", "posted", "aborting"}]
      BY <2>2 DEF PostReceive, Posted, FailsAtOnce, Enqueue, LifeTypeOK
    <3>. QED
      BY <2>2, <3>2, <3>3 DEF PostReceive, Goto, LifeTypeOK, Packets
  <2>3. CASE OnPending(e)
    BY <2>3 DEF OnPending, Goto, LifeTypeOK, Touches, contextVars
  <2>. QED
    BY <1>17, <2>1, <2>2, <2>3
<1>18. CASE HandleError(e)
  BY <1>18 DEF HandleError, Goto, LifeTypeOK, Touches, contextVars
<1>19. CASE Finish(e)
  BY <1>19 DEF Finish, FinishWork, EndWork, Goto, LifeTypeOK, Touches,
     LocalInv, Account, Receiving, InHandler, Stage, contextVars
<1>20. CASE Stop(e)
  BY <1>20, AppendStop DEF Stop, At, Enqueue, Goto, LifeTypeOK, Touches,
     Packets, contextVars
<1>21. CASE StopEvent(e)
  BY <1>21, AppendStop DEF StopEvent, At, PassStopEvent, Enqueue, Goto,
     LifeTypeOK, Touches, Packets, contextVars
<1>22. CASE UseAfterFree(e)
  BY <1>22 DEF UseAfterFree, Goto, Touches, LifeTypeOK, contextVars
<1>23. CASE AbandonedWait(e)
  BY <1>23 DEF AbandonedWait, LifeTypeOK, Touches, contextVars
<1>. QED
  BY <1>1, <1>2, <1>3, <1>4, <1>5, <1>6, <1>7, <1>8, <1>9, <1>10, <1>11,
     <1>12, <1>13, <1>14, <1>15, <1>16, <1>17, <1>18, <1>19, <1>20, <1>21,
     <1>22, <1>23 DEF Simulation, Destructor, IoThread

\* The account and the stage of the computer that moves.
LEMMA LocalStep ==
  ASSUME LifeInv, NEW e \in Computers,
         Simulation(e) \/ IoThread(e) \/ ReceiveCompletes(e)
  PROVE  LocalInv(e)'
<1>. LifeTypeOK /\ LocalInv(e)
  BY DEF LifeInv
<1>. queue[e] \in Seq(Packets) /\ outstanding_work[e] \in Nat
  BY DEF LifeTypeOK, Packets
<1>. USE DEF ReceiveCounted, HandlerCounted, Undefined
<1>1. CASE SimulationCreated(e)
  BY <1>1 DEF SimulationCreated, Becomes, LifeTypeOK, LocalInv, Account,
     Stage, Receiving, InHandler, BeforeThread, BeforeReceive, AtMostOne,
     Operations, contextVars
<1>2. CASE Construct(e)
  <2>1. /\ computer[e] = "created" /\ computer'[e] = "constructed"
        /\ UNCHANGED <<thread, mCallbacks>>
        /\ outstanding_work'[e] = outstanding_work[e] + 1
        /\ \/ receiveOp'[e] = "posted" /\ queue' = queue
           \/ queue'[e] = Append(queue[e], "error") /\ receiveOp' = receiveOp
    BY <1>2 DEF Construct, Posted, FailsAtOnce, AddWork, Enqueue, Becomes, LifeTypeOK
  <2>2. thread[e] = "none" /\ ~Receiving(e) /\ AtMostOne(queue[e])
        /\ outstanding_work[e] = 0
    BY <2>1 DEF LocalInv, Account, Stage, InHandler, BeforeThread, BeforeReceive
  <2>3. Receiving(e)' /\ AtMostOne(queue'[e])
        /\ (receiveOp'[e] # "none" => Operations(queue'[e]) = {})
    BY <2>1, <2>2, LaterOperation DEF Receiving, Packets
  <2>. QED
    BY <2>1, <2>2, <2>3 DEF LocalInv, Account, Stage, InHandler, BeforeThread,
       BeforeReceive
<1>3. CASE ConstructThrows(e)
  BY <1>3 DEF ConstructThrows, Becomes, LifeTypeOK, LocalInv, Account, Stage,
     Receiving, InHandler, BeforeThread, BeforeReceive, AtMostOne,
     Operations, contextVars
<1>4. CASE StartThread(e)
  BY <1>4 DEF StartThread, Goto, Becomes, LifeTypeOK, LocalInv, Account,
     Stage, Receiving, InHandler, BeforeThread, BeforeReceive, AtMostOne,
     Operations, contextVars
<1>5. CASE ConnectObserver(e)
  BY <1>5 DEF ConnectObserver, Becomes, LifeTypeOK, LocalInv, Account, Stage,
     Receiving, InHandler, BeforeThread, BeforeReceive, AtMostOne,
     Operations, contextVars
<1>6. CASE Complete(e)
  BY <1>6 DEF Complete, Becomes, LifeTypeOK, LocalInv, Account, Stage,
     Receiving, InHandler, BeforeThread, BeforeReceive, AtMostOne,
     Operations, contextVars
<1>7. CASE Destroy(e)
  BY <1>7 DEF Destroy, CloseSockets, Becomes, LifeTypeOK, LocalInv, Account,
     Stage, Receiving, InHandler, BeforeThread, BeforeReceive, AtMostOne,
     Operations, contextVars
<1>8. CASE DrainCheck(e)
  BY <1>8 DEF DrainCheck, Becomes, Drained, LifeTypeOK, LocalInv, Account,
     Stage, Receiving, InHandler, BeforeThread, BeforeReceive, AtMostOne,
     Operations, contextVars
<1>9. CASE DrainPacket(e)
  <2>1. /\ queue[e] # <<>> /\ AtMostOne(queue[e])
        /\ computer[e] = "drainWaiting" /\ computer'[e] = "draining"
        /\ queue'[e] = Tail(queue[e]) /\ receiveOp' = receiveOp
        /\ thread' = thread /\ mCallbacks' = mCallbacks
        /\ outstanding_work'[e] = IF Head(queue[e]) = "stop"
              THEN outstanding_work[e] ELSE outstanding_work[e] - 1
    BY <1>9 DEF DrainPacket, EndWork, Dequeue, Becomes, LifeTypeOK, LocalInv,
       Account, contextVars
  <2>2. /\ AtMostOne(queue'[e])
        /\ Head(queue[e]) = "stop"
             => (Operations(queue'[e]) = {} <=> Operations(queue[e]) = {})
        /\ Head(queue[e]) # "stop"
             => Operations(queue'[e]) = {} /\ Operations(queue[e]) # {}
    BY <2>1, TakeHead
  <2>. QED
    BY <2>1, <2>2 DEF LocalInv, Account, Stage, Receiving, InHandler,
       BeforeThread, BeforeReceive
<1>10. CASE DestroyServices(e)
  BY <1>10, NoPackets DEF DestroyServices, Becomes, Goto, LifeTypeOK,
     LocalInv, Account, Stage, Receiving, InHandler, BeforeThread,
     BeforeReceive, AtMostOne, Packets, contextVars
<1>11. CASE ReceiveCompletes(e)
  <2>1. PICK p \in {"datagram", "error"} :
          /\ queue'[e] = Append(queue[e], p) /\ receiveOp'[e] = "none"
          /\ receiveOp[e] # "none" /\ thread' = thread
          /\ computer' = computer /\ mCallbacks' = mCallbacks
          /\ outstanding_work' = outstanding_work
    BY <1>11 DEF ReceiveCompletes, Enqueue, LifeTypeOK
  <2>2. computer[e] # "destroyed" /\ Operations(queue[e]) = {}
    BY <2>1 DEF LocalInv, Account, Stage, Receiving
  <2>3. Operations(queue'[e]) = {Len(queue[e]) + 1}
    BY <2>1, <2>2, AppendOperation DEF Packets
  <2>4. AtMostOne(queue'[e])
    BY <2>3 DEF AtMostOne
  <2>. QED
    BY <2>1, <2>2, <2>3, <2>4 DEF LocalInv, Account, Stage, Receiving, InHandler,
       BeforeThread, BeforeReceive
<1>12. CASE Run(e)
  BY <1>12 DEF Run, At, Goto, LifeTypeOK, LocalInv, Account, Stage,
     Receiving, InHandler, BeforeThread, BeforeReceive, AtMostOne,
     Operations, contextVars
<1>13. CASE Wait(e)
  BY <1>13 DEF Wait, At, Goto, LifeTypeOK, LocalInv, Account, Stage,
     Receiving, InHandler, BeforeThread, BeforeReceive, AtMostOne,
     Operations, contextVars
<1>14. CASE Packet(e)
  <2>1. /\ queue[e] # <<>> /\ AtMostOne(queue[e])
        /\ thread[e] = "waiting" /\ computer[e] # "destroyed"
        /\ queue'[e] = Tail(queue[e])
        /\ UNCHANGED <<computer, mCallbacks, receiveOp, outstanding_work>>
        /\ thread'[e] = CASE Head(queue[e]) = "datagram" -> "callback"
                          [] Head(queue[e]) = "error"    -> "handleError"
                          [] Head(queue[e]) = "stop"     -> "stopEvent"
    BY <1>14 DEF Packet, At, Goto, Dequeue, LifeTypeOK, LocalInv, Account
  <2>2. /\ Head(queue[e]) \in Packets /\ AtMostOne(queue'[e])
        /\ Head(queue[e]) = "stop"
             => (Operations(queue'[e]) = {} <=> Operations(queue[e]) = {})
        /\ Head(queue[e]) # "stop"
             => Operations(queue'[e]) = {} /\ Operations(queue[e]) # {}
    BY <2>1, TakeHead
  <2>3. CASE Head(queue[e]) = "stop"
    <3>1. thread'[e] = "stopEvent"
      BY <2>1, <2>3
    <3>. QED
      BY <2>1, <2>2, <2>3, <3>1 DEF LocalInv, Account, Stage, Receiving,
         InHandler, BeforeThread, BeforeReceive
  <2>4. CASE Head(queue[e]) # "stop"
    <3>1. thread'[e] \in {"callback", "handleError"}
      BY <2>1, <2>2, <2>4 DEF Packets
    <3>2. ~Receiving(e)' /\ Receiving(e) /\ InHandler(e)' /\ ~InHandler(e)
      BY <2>1, <2>2, <2>4, <3>1 DEF Receiving, InHandler, LocalInv, Account
    <3>3. computer[e] \notin BeforeThread \cup {"drained", "destroyed"}
      BY <2>1, <3>2 DEF LocalInv, Stage, Account, InHandler
    <3>4. /\ ReceiveCounted(e) /\ ~HandlerCounted(e)
          /\ ~ReceiveCounted(e)' /\ HandlerCounted(e)'
      BY <2>1, <3>1, <3>2
    <3>. HIDE DEF ReceiveCounted, HandlerCounted
    <3>. QED
      BY <2>1, <2>2, <3>1, <3>2, <3>3, <3>4 DEF LocalInv, Account, Stage, BeforeThread,
         BeforeReceive
  <2>. QED
    BY <2>3, <2>4
<1>15. CASE Callback(e)
  BY <1>15 DEF Callback, Goto, LifeTypeOK, LocalInv, Account, Stage,
     Receiving, InHandler, BeforeThread, BeforeReceive, AtMostOne,
     Operations, contextVars
<1>16. CASE Echo(e)
  BY <1>16 DEF Echo, Goto, SocketOpen, LifeTypeOK, LocalInv, Account, Stage,
     Receiving, InHandler, BeforeThread, BeforeReceive, AtMostOne,
     Operations, contextVars
<1>17. CASE Rearm(e) \/ PostReceive(e) \/ OnPending(e)
  <2>. USE DEF LocalInv, Account, Stage, InHandler, BeforeThread, BeforeReceive
  <2>1. CASE Rearm(e)
    <3>1. /\ thread[e] = "rearm" /\ thread'[e] = "post"
          /\ UNCHANGED <<computer, mCallbacks, receiveOp, queue>>
          /\ outstanding_work'[e] = outstanding_work[e] + 1
      BY <2>1 DEF Rearm, AddWork, Goto, LifeTypeOK
    <3>2. Receiving(e)' = Receiving(e) /\ AtMostOne(queue'[e]) = AtMostOne(queue[e])
      BY <3>1 DEF Receiving
    <3>. QED
      BY <3>1, <3>2
  <2>2. CASE PostReceive(e)
    <3>1. /\ thread[e] = "post" /\ UNCHANGED <<computer, mCallbacks, outstanding_work>>
          /\ \/ thread'[e] = "pending" /\ receiveOp'[e] = "posted" /\ queue' = queue
             \/ /\ thread'[e] = "finish"
                /\ queue'[e] = Append(queue[e], "error") /\ receiveOp' = receiveOp
      BY <2>2 DEF PostReceive, Posted, FailsAtOnce, SocketOpen, Enqueue, Goto, LifeTypeOK
    <3>2. /\ computer[e] # "destroyed" /\ ~Receiving(e) /\ AtMostOne(queue[e])
          /\ outstanding_work[e] = 2
      BY <3>1
    <3>3. Receiving(e)' /\ AtMostOne(queue'[e])
          /\ (receiveOp'[e] # "none" => Operations(queue'[e]) = {})
      BY <3>1, <3>2, LaterOperation DEF Receiving, Packets
    <3>. QED
      BY <3>1, <3>2, <3>3
  <2>3. CASE OnPending(e)
    <3>1. /\ thread[e] = "pending"
          /\ UNCHANGED <<computer, mCallbacks, outstanding_work, receiveOp, queue>>
          /\ \/ thread'[e] \in {"pending", "finish"}
             \/ thread'[e] = "lost" /\ ~Receiving(e)
      BY <2>3 DEF OnPending, Goto, LifeTypeOK, contextVars
    <3>2. Receiving(e)' = Receiving(e) /\ AtMostOne(queue'[e]) = AtMostOne(queue[e])
      BY <3>1 DEF Receiving
    <3>. QED
      BY <3>1, <3>2
  <2>. QED
    BY <1>17, <2>1, <2>2, <2>3
<1>18. CASE HandleError(e)
  BY <1>18 DEF HandleError, Goto, LifeTypeOK, LocalInv, Account, Stage,
     Receiving, InHandler, BeforeThread, BeforeReceive, AtMostOne,
     Operations, contextVars
<1>19. CASE Finish(e)
  BY <1>19 DEF Finish, FinishWork, EndWork, Goto, LifeTypeOK, LocalInv,
     Account, Stage, Receiving, InHandler, BeforeThread, BeforeReceive,
     AtMostOne, Operations, contextVars
<1>20. CASE Stop(e)
  BY <1>20, AppendStop DEF Stop, At, Enqueue, Goto, LifeTypeOK, LocalInv,
     Account, Stage, Receiving, InHandler, BeforeThread, BeforeReceive,
     AtMostOne, Packets, contextVars
<1>21. CASE StopEvent(e)
  BY <1>21, AppendStop DEF StopEvent, At, PassStopEvent, Enqueue, Goto,
     LifeTypeOK, LocalInv, Account, Stage, Receiving, InHandler,
     BeforeThread, BeforeReceive, AtMostOne, Packets, contextVars
<1>22. CASE UseAfterFree(e)
  BY <1>22 DEF UseAfterFree, Goto, Touches, LifeTypeOK, LocalInv, Account,
     Stage, Receiving, InHandler, BeforeThread, BeforeReceive, AtMostOne,
     Operations, contextVars
<1>23. CASE AbandonedWait(e)
  BY <1>23 DEF AbandonedWait, LifeTypeOK, LocalInv, Account, Stage,
     Receiving, InHandler, BeforeThread, BeforeReceive, AtMostOne,
     Operations, contextVars
<1>. QED
  BY <1>1, <1>2, <1>3, <1>4, <1>5, <1>6, <1>7, <1>8, <1>9, <1>10, <1>11,
     <1>12, <1>13, <1>14, <1>15, <1>16, <1>17, <1>18, <1>19, <1>20, <1>21,
     <1>22, <1>23 DEF Simulation, Destructor, IoThread

\* Who has the port, and that one simulation runs at a time.
LEMMA PortStep ==
  ASSUME LifeInv, LifeNext
  PROVE  PortInv'
<1>. LifeTypeOK /\ PortInv
  BY DEF LifeInv
<1>. USE DEF PortInv, LifeTypeOK
<1>1. CASE WsfPluginSetup
  BY <1>1 DEF WsfPluginSetup
<1>2. CASE OtherProcess
  BY <1>2, LifeAssumption DEF OtherProcess
<1>3. ASSUME NEW e \in Computers, Simulation(e) PROVE PortInv'
  <2>1. CASE SimulationCreated(e)
    BY <2>1, LifeAssumption DEF SimulationCreated, Becomes
  <2>2. CASE Construct(e)
    BY <2>2, LifeAssumption DEF Construct, Becomes
  <2>3. CASE ConstructThrows(e) \/ StartThread(e) \/ ConnectObserver(e)
             \/ Complete(e)
    <3>1. CASE ConstructThrows(e)
      BY <3>1 DEF ConstructThrows, Becomes
    <3>2. CASE StartThread(e)
      BY <3>2 DEF StartThread, Becomes
    <3>3. CASE ConnectObserver(e)
      BY <3>3 DEF ConnectObserver, Becomes
    <3>4. CASE Complete(e)
      BY <3>4 DEF Complete, Becomes
    <3>. QED
      BY <2>3, <3>1, <3>2, <3>3, <3>4
  <2>4. CASE Destroy(e)
    BY <2>4, LifeAssumption DEF Destroy, CloseSockets, Becomes
  <2>5. CASE Destructor(e)
    <3>1. CASE DrainCheck(e) \/ DrainPacket(e)
      BY <3>1 DEF DrainCheck, DrainPacket, Becomes
    <3>2. CASE DestroyServices(e)
      BY <3>2 DEF DestroyServices, Becomes
    <3>. QED
      BY <2>5, <3>1, <3>2 DEF Destructor
  <2>. QED
    BY <1>3, <2>1, <2>2, <2>3, <2>4, <2>5 DEF Simulation
<1>4. ASSUME NEW e \in Computers, IoThread(e) \/ ReceiveCompletes(e)
      PROVE  PortInv'
  BY <1>4 DEF IoThread, ReceiveCompletes, Run, Wait, Packet, Callback, Echo,
              Rearm, PostReceive, OnPending, HandleError, Finish, Stop,
              StopEvent, UseAfterFree, AbandonedWait
<1>. QED
  BY <1>1, <1>2, <1>3, <1>4 DEF LifeNext
-----------------------------------------------------------------------------
(* The theorems.                                                           *)

\* No simulation yet: the port is free and no io_context has work.
LEMMA LifeInvInitially == LifeInit => LifeInv
<1>. SUFFICES ASSUME LifeInit PROVE LifeInv
  OBVIOUS
<1>1. LifeTypeOK
  BY NoPackets DEF LifeInit, LifeTypeOK, Packets
<1>2. PortInv
  BY LifeAssumption DEF LifeInit, PortInv
<1>3. ASSUME NEW c \in Computers PROVE LocalInv(c)
  <2>1. /\ computer[c] = "none" /\ thread[c] = "none" /\ queue[c] = <<>>
        /\ receiveOp[c] = "none" /\ outstanding_work[c] = 0 /\ ~mCallbacks[c]
    BY DEF LifeInit
  <2>2. ~Receiving(c) /\ ~InHandler(c) /\ AtMostOne(queue[c])
    BY <2>1, NoPackets DEF Receiving, InHandler
  <2>. QED
    BY <2>1, <2>2 DEF LocalInv, Account, ReceiveCounted, HandlerCounted, Undefined, Stage
<1>. QED
  BY <1>1, <1>2, <1>3 DEF LifeInv

\* A step moves at most one computer, and keeps its account, its stage and the
\* owner of the port.
LEMMA LifeInvStep == LifeInv /\ [LifeNext]_lifeVars => LifeInv'
<1>. SUFFICES ASSUME LifeInv, [LifeNext]_lifeVars PROVE LifeInv'
  OBVIOUS
<1>. LifeTypeOK /\ PortInv /\ \A c \in Computers : LocalInv(c)
  BY DEF LifeInv
<1>1. CASE WsfPluginSetup \/ OtherProcess
  <2>1. LifeTypeOK'
    BY <1>1 DEF WsfPluginSetup, OtherProcess, LifeTypeOK, contextVars
  <2>2. \A c \in Computers : SameComputer(c)
    BY <1>1 DEF WsfPluginSetup, OtherProcess, SameComputer, contextVars
  <2>. QED
    BY <1>1, <2>1, <2>2, PortStep, SameIsLocal DEF LifeInv, LifeNext
<1>2. ASSUME NEW e \in Computers,
             Simulation(e) \/ IoThread(e) \/ ReceiveCompletes(e)
      PROVE  LifeInv'
  <2>1. \A c \in Computers : c # e => SameComputer(c)
    BY <1>2, OthersStand
  <2>2. \A c \in Computers : c # e => LocalInv(c)'
    BY <2>1, SameIsLocal
  <2>3. LocalInv(e)' /\ LifeTypeOK'
    BY <1>2, LocalStep, TypeStep
  <2>4. PortInv'
    BY <1>2, PortStep DEF LifeNext
  <2>. QED
    BY <2>2, <2>3, <2>4 DEF LifeInv
<1>3. CASE UNCHANGED lifeVars
  <2>1. LifeTypeOK' /\ PortInv'
    BY <1>3 DEF lifeVars, contextVars, LifeTypeOK, PortInv
  <2>2. \A c \in Computers : SameComputer(c)
    BY <1>3 DEF lifeVars, contextVars, SameComputer
  <2>. QED
    BY <2>1, <2>2, SameIsLocal DEF LifeInv
<1>. QED
  BY <1>1, <1>2, <1>3 DEF LifeNext

\* The invariant holds in every behaviour.
LEMMA LifeInvariant == LifeSafety => []LifeInv
BY LifeInvInitially, LifeInvStep, PTL DEF LifeSafety

\* Type correctness; the count of work never goes below zero.
THEOREM LifeTypeCorrect == LifeSafety => []LifeTypeOK
<1>1. LifeInv => LifeTypeOK
  BY DEF LifeInv
<1>. QED
  BY <1>1, LifeInvariant, PTL

\* The count of outstanding work that the destructor, run and stop rely on is
\* right at every moment of every teardown.
THEOREM WorkIsBalanced == LifeSafety => []WorkBalanced
<1>1. LifeInv => WorkBalanced
  BY DEF LifeInv, LocalInv, Account, ReceiveCounted, HandlerCounted, WorkBalanced,
         AtMostOne
<1>. QED
  BY <1>1, LifeInvariant, PTL

\* The destructor of a computer waits for the handler that runs.
THEOREM HandlersEndFirst == LifeSafety => []NoHandlerOutlivesContext
<1>1. LifeInv => NoHandlerOutlivesContext
  BY DEF LifeInv, LocalInv, Stage, NoHandlerOutlivesContext
<1>. QED
  BY <1>1, LifeInvariant, PTL

\* The port is free for the next simulation unless another process has it.
THEOREM PortIsReleased == LifeSafety => BindFailsOnlyForOthers
<1> DEFINE Fails(c) == computer'[c] = "failed" /\ computer[c] # "failed"
<1>1. LifeInv /\ [LifeNext]_lifeVars =>
        [\A c \in Computers : Fails(c) => port = Other]_lifeVars
  <2>. SUFFICES ASSUME LifeInv, LifeNext, NEW c \in Computers, Fails(c)
                PROVE  port = Other
    OBVIOUS
  <2>. LifeTypeOK /\ PortInv
    BY DEF LifeInv
  <2>1. \A e \in Computers : ~(IoThread(e) \/ ReceiveCompletes(e))
    BY DEF LifeTypeOK, IoThread, ReceiveCompletes, Run, Wait, Packet, Callback,
           Echo, Rearm, PostReceive, OnPending, HandleError, Finish, Stop,
           StopEvent, UseAfterFree, AbandonedWait
  <2>2. ~WsfPluginSetup /\ ~OtherProcess
    BY DEF WsfPluginSetup, OtherProcess
  <2>3. ConstructThrows(c)
    BY <2>1, <2>2
       DEF LifeNext, Simulation, Destructor, SimulationCreated, Construct,
           ConstructThrows, StartThread, ConnectObserver, Complete, Destroy,
           DrainCheck, DrainPacket, DestroyServices, Becomes, LifeTypeOK
  <2>4. port \notin Computers
    BY <2>3 DEF ConstructThrows, PortInv
  <2>. QED
    BY <2>3, <2>4 DEF ConstructThrows, LifeTypeOK
<1>. QED
  BY <1>1, LifeInvariant, PTL DEF LifeSafety, BindFailsOnlyForOthers
-----------------------------------------------------------------------------
(* The end of a teardown.  That the destructor returns is a liveness        *)
(* property; these are the facts about single states and steps it rests     *)
(* on: a destructor that waits is always waiting for something that is on   *)
(* its way, and what is left to do gets less with every step.               *)

TornDown == {"draining", "drainWaiting", "drained", "destroyed"}

StopPosted(c) == stopped[c] \/ stop_event_posted[c]

\* Where a thread may be after stop: never in a handler again.
AfterStop == {"loop", "waiting", "stopEvent", "exited", "lost", "abandoned"}

\* The queue holds at most one packet.  stop is called once, when there is no
\* receive any more, and its packet is never lost but to the destructor.
StopOnce(c) ==
    /\ thread[c] \in {"stopping", "leaving"} => ~Receiving(c)
    /\ StopPosted(c) => ~Receiving(c) /\ thread[c] \in AfterStop
    /\ queue[c] = <<>> \/ \E p \in Packets : queue[c] = <<p>>
    /\ queue[c] = <<"stop">> => StopPosted(c)
    /\ thread[c] = "stopEvent" => StopPosted(c) /\ queue[c] = <<>>
    /\ computer[c] \in TornDown => receiveOp[c] # "posted"

\* Who will wake a destructor that waits: the aborted receive, a packet, the
\* handler that runs, or the stop that follows it; unless it wrote freed memory.
Awaited(c) ==
    computer[c] = "drainWaiting" =>
      \/ receiveOp[c] = "aborting" \/ queue[c] # <<>>
      \/ InHandler(c) \/ thread[c] \in {"stopping", "stopEvent"}
      \/ Undefined(c)

\* The steps left to a teardown, at most.
ThreadLeft(step) ==
    CASE step = "rearm" -> 16
      [] step = "post" -> 15
      [] step \in {"handleError", "pending"} -> 8
      [] step \in {"finish", "starting"} -> 7
      [] step = "stopping" -> 6
      [] step \in {"loop", "stopEvent", "leaving"} -> 3
      [] step \in {"waiting", "callback"} -> 2
      [] step = "echo" -> 1
      [] OTHER -> 0
QueueLeft(packets) == CASE packets = <<>> -> 0
                        [] packets = <<"stop">> -> 2
                        [] OTHER -> 7
ReceiveLeft(op) == IF op = "none" THEN 0 ELSE 8
DestructorLeft(stage) == CASE stage = "draining" -> 3
                           [] stage = "drainWaiting" -> 2
                           [] stage = "drained" -> 1
                           [] OTHER -> 0

Left(c) == DestructorLeft(computer[c]) + ThreadLeft(thread[c])
           + QueueLeft(queue[c]) + ReceiveLeft(receiveOp[c])

\* A destructor that waits is always woken.
WaitsForSomething == \A c \in Computers : Awaited(c)

\* From the moment a computer is being destroyed, every step that moves it
\* brings it nearer to its end, or ends the process.
Advances(c) ==
    computer[c] \in TornDown =>
      \/ terminated'
      \/ UNCHANGED <<computer[c], receiveOp[c], queue[c], thread[c]>>
      \/ Left(c)' < Left(c)

TeardownInv == \A c \in Computers : StopOnce(c) /\ Awaited(c)

\* A queue of one packet.
LEMMA OnePacket ==
  ASSUME NEW p \in Packets
  PROVE  /\ <<p>> \in Seq(Packets) /\ <<p>> # <<>>
         /\ Append(<<>>, p) = <<p>> /\ Head(<<p>>) = p /\ Tail(<<p>>) = <<>>
         /\ Operations(<<p>>) = {} <=> p = "stop"
         /\ <<p>> = <<"stop">> <=> p = "stop"
<1>1. DOMAIN <<p>> = {1} /\ <<p>>[1] = p
  OBVIOUS
<1>2. Operations(<<p>>) = {} <=> p = "stop"
  BY <1>1 DEF Operations
<1>3. <<p>> = <<"stop">> <=> p = "stop"
  BY <1>1
<1>. QED
  BY <1>2, <1>3

\* What is left of one packet, and of one thread.
LEMMA LeftType ==
  /\ \A step : ThreadLeft(step) \in 0 .. 16
  /\ \A packets : QueueLeft(packets) \in 0 .. 7
  /\ \A op : ReceiveLeft(op) \in 0 .. 8
  /\ \A stage : DestructorLeft(stage) \in 0 .. 3
  /\ \A x : /\ ThreadLeft(x) \in Nat /\ QueueLeft(x) \in Nat
            /\ ReceiveLeft(x) \in Nat /\ DestructorLeft(x) \in Nat
BY DEF ThreadLeft, QueueLeft, ReceiveLeft, DestructorLeft
\* Every step keeps the bookkeeping of stop, leaves a waiting destructor
\* something to wait for, and shortens a teardown.
LEMMA TeardownStep ==
  ASSUME LifeInv, NEW e \in Computers, StopOnce(e), Awaited(e),
         Simulation(e) \/ IoThread(e) \/ ReceiveCompletes(e)
  PROVE  StopOnce(e)' /\ Awaited(e)' /\ Advances(e)
<1>. LifeTypeOK /\ LocalInv(e) /\ PortInv
  BY DEF LifeInv
<1>. USE DEF LifeTypeOK, contextVars, ReceiveCounted, HandlerCounted, Undefined
<1> DEFINE Goal == StopOnce(e)' /\ Awaited(e)' /\ Advances(e)
           Quiet == UNCHANGED <<receiveOp[e], queue[e], stopped[e], stop_event_posted[e]>>
<1>0. /\ Left(e) = DestructorLeft(computer[e]) + ThreadLeft(thread[e])
                   + QueueLeft(queue[e]) + ReceiveLeft(receiveOp[e])
      /\ Left(e)' = DestructorLeft(computer'[e]) + ThreadLeft(thread'[e])
                    + QueueLeft(queue'[e]) + ReceiveLeft(receiveOp'[e])
      /\ DestructorLeft(computer[e]) \in Nat /\ DestructorLeft(computer'[e]) \in Nat
      /\ ThreadLeft(thread[e]) \in Nat /\ ThreadLeft(thread'[e]) \in Nat
      /\ QueueLeft(queue[e]) \in Nat /\ QueueLeft(queue'[e]) \in Nat
      /\ ReceiveLeft(receiveOp[e]) \in Nat /\ ReceiveLeft(receiveOp'[e]) \in Nat
  BY LeftType DEF Left
<1>1. CASE SimulationCreated(e) \/ ConstructThrows(e) \/ ConnectObserver(e) \/ Complete(e)
  <2>1. Quiet /\ UNCHANGED thread[e]
        /\ computer[e] \notin TornDown /\ computer'[e] \notin TornDown
    BY <1>1 DEF SimulationCreated, ConstructThrows, ConnectObserver, Complete,
       Becomes, TornDown
  <2>. QED
    BY <2>1 DEF StopOnce, Awaited, Advances, StopPosted, Receiving, TornDown, InHandler
<1>2. CASE Construct(e) \/ StartThread(e)
  <2>1. thread[e] = "none" /\ ~StopPosted(e) /\ thread'[e] \in {"none", "starting"}
        /\ computer[e] \notin TornDown /\ computer'[e] \notin TornDown
        /\ UNCHANGED <<stopped[e], stop_event_posted[e]>>
    BY <1>2 DEF Construct, StartThread, Becomes, Goto, TornDown, LocalInv, Stage,
       BeforeThread, StopOnce, AfterStop
  <2>2. CASE Construct(e)
    <3>1. ~Receiving(e)
      BY <2>2 DEF Construct, LocalInv, Stage, BeforeReceive
    <3>2. queue[e] = <<>>
      BY <2>1, <3>1, OnePacket DEF StopOnce, Receiving
    <3>3. "error" \in Packets /\ <<"error">> # <<>> /\ <<"error">> # <<"stop">>
          /\ Append(<<>>, "error") = <<"error">>
      BY OnePacket DEF Packets
    <3>4. queue'[e] = <<>> \/ queue'[e] = <<"error">>
      BY <2>2, <3>2, <3>3 DEF Construct, Posted, FailsAtOnce, Enqueue
    <3>5. thread'[e] = "none" /\ ~StopPosted(e)'
      BY <2>1, <2>2 DEF Construct, StopPosted
    <3>6. StopOnce(e)'
      BY <2>1, <3>3, <3>4, <3>5, OnePacket DEF StopOnce
    <3>. QED
      BY <2>1, <3>6 DEF Awaited, Advances, TornDown
  <2>3. CASE StartThread(e)
    <3>1. UNCHANGED queue[e]
      BY <2>3 DEF StartThread
    <3>. QED
      BY <2>1, <3>1 DEF StopOnce, Awaited, Advances, StopPosted, TornDown
  <2>. QED
    BY <1>2, <2>2, <2>3
<1>3. CASE Destroy(e)
  <2>1. /\ UNCHANGED <<queue[e], stopped[e], stop_event_posted[e], thread[e]>>
        /\ computer[e] \notin TornDown /\ computer'[e] = "draining"
        /\ receiveOp'[e] # "posted" /\ (receiveOp'[e] = "none" <=> receiveOp[e] = "none")
    BY <1>3 DEF Destroy, CloseSockets, Becomes, TornDown
  <2>. QED
    BY <2>1 DEF StopOnce, Awaited, Advances, StopPosted, Receiving
<1>4. CASE DrainCheck(e)
  <2>1. /\ Quiet /\ UNCHANGED thread[e] /\ computer[e] = "draining"
        /\ computer'[e] = IF outstanding_work[e] = 0 THEN "drained" ELSE "drainWaiting"
    BY <1>4 DEF DrainCheck, Becomes, Drained
  <2>2. outstanding_work[e] # 0 => Receiving(e) \/ InHandler(e) \/ Undefined(e)
    BY <2>1 DEF LocalInv, Account, InHandler
  <2>3. Awaited(e)'
    BY <2>1, <2>2, NoPackets DEF Awaited, StopOnce, TornDown, Receiving, InHandler
  <2>4. StopOnce(e)'
    BY <2>1 DEF StopOnce, StopPosted, Receiving, TornDown
  <2>5. Left(e)' < Left(e)
    BY <1>0, <2>1 DEF DestructorLeft
  <2>. QED
    BY <2>3, <2>4, <2>5 DEF Advances
<1>5. CASE DrainPacket(e)
  <2>1. PICK p \in Packets : queue[e] = <<p>>
    BY <1>5 DEF DrainPacket, StopOnce
  <2>2. /\ UNCHANGED <<receiveOp[e], stopped[e], stop_event_posted[e], thread[e]>>
        /\ computer[e] = "drainWaiting" /\ computer'[e] = "draining"
        /\ queue'[e] = <<>>
    BY <1>5, <2>1, OnePacket DEF DrainPacket, Dequeue, Becomes
  <2>3. QueueLeft(queue[e]) >= 2 /\ QueueLeft(<<>>) = 0
    BY <2>1, OnePacket DEF QueueLeft
  <2>4. Left(e)' < Left(e)
    BY <1>0, <2>2, <2>3 DEF DestructorLeft
  <2>5. Receiving(e)' => Receiving(e)
    BY <2>2, NoPackets DEF Receiving
  <2>6. StopOnce(e)'
    BY <2>2, <2>5, OnePacket DEF StopOnce, StopPosted, TornDown, Packets
  <2>. QED
    BY <2>2, <2>4, <2>6 DEF Advances, Awaited
<1>6. CASE DestroyServices(e)
  <2>1. /\ UNCHANGED <<receiveOp[e], stopped[e], stop_event_posted[e]>>
        /\ computer[e] = "drained" /\ computer'[e] = "destroyed"
        /\ queue'[e] = <<>>
        /\ thread'[e] = IF thread[e] = "waiting" THEN "abandoned" ELSE thread[e]
    BY <1>6 DEF DestroyServices, Becomes, Goto
  <2>2. QueueLeft(<<>>) = 0 /\ ThreadLeft(thread'[e]) <= ThreadLeft(thread[e])
    BY <2>1, LeftType DEF QueueLeft, ThreadLeft
  <2>3. Left(e)' < Left(e)
    BY <1>0, <2>1, <2>2 DEF DestructorLeft
  <2>4. Receiving(e)' => Receiving(e)
    BY <2>1, NoPackets DEF Receiving
  <2>5. StopOnce(e)'
    BY <2>1, <2>4, OnePacket DEF StopOnce, StopPosted, TornDown, AfterStop, Packets
  <2>. QED
    BY <2>1, <2>3, <2>5 DEF Advances, Awaited
<1>7. CASE ReceiveCompletes(e)
  <2>1. Receiving(e) /\ ~StopPosted(e) /\ computer[e] # "destroyed"
    BY <1>7 DEF ReceiveCompletes, Receiving, StopOnce, LocalInv, Stage
  <2>2. Operations(queue[e]) = {}
    BY <1>7, <2>1 DEF ReceiveCompletes, LocalInv, Account
  <2>3. queue[e] = <<>>
    BY <2>1, <2>2, OnePacket DEF StopOnce
  <2>4. PICK p \in {"datagram", "error"} :
          /\ queue'[e] = <<p>> /\ receiveOp'[e] = "none" /\ receiveOp[e] # "none"
          /\ UNCHANGED <<computer[e], stopped[e], stop_event_posted[e], thread[e]>>
    BY <1>7, <2>3, OnePacket DEF ReceiveCompletes, Enqueue, Packets
  <2>5. /\ <<p>> # <<>> /\ <<p>> # <<"stop">> /\ p \in Packets
    BY <2>4, OnePacket DEF Packets
  <2>6. QueueLeft(<<p>>) = 7 /\ QueueLeft(<<>>) = 0
    BY <2>5 DEF QueueLeft
  <2>7. Left(e)' < Left(e)
    BY <1>0, <2>3, <2>4, <2>6 DEF ReceiveLeft
  <2>8. StopOnce(e)'
    BY <2>1, <2>4, <2>5 DEF StopOnce, StopPosted
  <2>. QED
    BY <2>4, <2>5, <2>7, <2>8 DEF Advances, Awaited
<1>8. CASE Run(e)
  <2>1. /\ Quiet /\ UNCHANGED computer[e] /\ computer[e] # "destroyed"
        /\ thread[e] = "starting"
        /\ thread'[e] = IF outstanding_work[e] = 0 THEN "leaving" ELSE "loop"
    BY <1>8 DEF Run, At, Goto
  <2>2. outstanding_work[e] = 0 => ~Receiving(e)
    BY <2>1 DEF LocalInv, Account, InHandler
  <2>3. ~StopPosted(e)
    BY <2>1 DEF StopOnce, AfterStop
  <2>4. StopOnce(e)'
    BY <2>1, <2>2, <2>3 DEF StopOnce, StopPosted, Receiving
  <2>5. ThreadLeft(thread'[e]) < ThreadLeft(thread[e])
    BY <2>1 DEF ThreadLeft
  <2>6. Left(e)' < Left(e)
    BY <1>0, <2>1, <2>5
  <2>. QED
    BY <2>1, <2>4, <2>6 DEF Advances, Awaited, InHandler
<1>9. CASE Wait(e)
  <2>1. /\ Quiet /\ UNCHANGED computer[e]
        /\ thread[e] = "loop" /\ thread'[e] = "waiting"
    BY <1>9 DEF Wait, At, Goto
  <2>2. StopOnce(e)'
    BY <2>1 DEF StopOnce, StopPosted, Receiving, AfterStop
  <2>3. ThreadLeft(thread'[e]) < ThreadLeft(thread[e])
    BY <2>1 DEF ThreadLeft
  <2>4. Left(e)' < Left(e)
    BY <1>0, <2>1, <2>3
  <2>. QED
    BY <2>1, <2>2, <2>4 DEF Advances, Awaited, InHandler
<1>10. CASE Packet(e)
  <2>1. PICK p \in Packets : queue[e] = <<p>>
    BY <1>10 DEF Packet, StopOnce
  <2>2. /\ UNCHANGED <<computer[e], receiveOp[e], stopped[e], stop_event_posted[e]>>
        /\ thread[e] = "waiting" /\ queue'[e] = <<>>
        /\ thread'[e] = CASE p = "datagram" -> "callback"
                          [] p = "error"    -> "handleError"
                          [] p = "stop"     -> "stopEvent"
    BY <1>10, <2>1, OnePacket DEF Packet, At, Goto, Dequeue, Packets
  <2>3. p = "stop" <=> Operations(queue[e]) = {}
    BY <2>1, OnePacket
  <2>4. /\ p # "stop" => ~StopPosted(e)
        /\ p = "stop" => StopPosted(e)
    BY <2>1, <2>3 DEF StopOnce, Receiving
  <2>5. Receiving(e)' => Receiving(e)
    BY <2>2, NoPackets DEF Receiving
  <2>6. StopOnce(e)'
    BY <2>2, <2>4, <2>5, OnePacket DEF StopOnce, StopPosted, AfterStop, Packets
  <2>7. QueueLeft(queue[e]) + ThreadLeft(thread[e]) > ThreadLeft(thread'[e])
        /\ QueueLeft(queue'[e]) = 0
    <3>1. /\ QueueLeft(queue[e]) = IF p = "stop" THEN 2 ELSE 7
          /\ QueueLeft(queue'[e]) = 0
      BY <2>1, <2>2, OnePacket DEF QueueLeft
    <3>2. /\ ThreadLeft(thread[e]) = 2
          /\ p = "stop" => ThreadLeft(thread'[e]) = 3
          /\ p # "stop" => ThreadLeft(thread'[e]) \in {2, 8}
      BY <2>2 DEF ThreadLeft, Packets
    <3>. QED
      BY <3>1, <3>2
  <2>8. Left(e)' < Left(e)
    <3>1. computer'[e] = computer[e] /\ receiveOp'[e] = receiveOp[e]
      BY <2>2
    <3>. QED
      BY <1>0, <2>7, <3>1
  <2>9. thread'[e] \in {"callback", "handleError", "stopEvent"}
    BY <2>2 DEF Packets
  <2>. QED
    BY <2>6, <2>8, <2>9 DEF Advances, Awaited, InHandler
<1>11. CASE Callback(e)
  <2>1. /\ Quiet /\ UNCHANGED computer[e]
        /\ thread[e] = "callback"
        /\ \/ thread'[e] = "echo"
           \/ terminated' = TRUE /\ thread'[e] = thread[e]
    BY <1>11 DEF Callback, Goto
  <2>2. StopOnce(e)'
    BY <2>1 DEF StopOnce, StopPosted, Receiving, AfterStop
  <2>3. terminated' \/ ThreadLeft(thread'[e]) < ThreadLeft(thread[e])
    BY <2>1 DEF ThreadLeft
  <2>4. terminated' \/ Left(e)' < Left(e)
    BY <1>0, <2>1, <2>3
  <2>. QED
    BY <2>1, <2>2, <2>4 DEF Advances, Awaited, InHandler
<1>12. CASE Echo(e)
  <2>1. /\ Quiet /\ UNCHANGED computer[e]
        /\ thread[e] = "echo"
        /\ \/ thread'[e] = "rearm" /\ port = e
           \/ terminated' = TRUE /\ thread'[e] = thread[e]
    BY <1>12 DEF Echo, Goto, SocketOpen
  <2>2. StopOnce(e)'
    BY <2>1 DEF StopOnce, StopPosted, Receiving, AfterStop
  <2>3. port = e => computer[e] \notin TornDown
    BY DEF PortInv, TornDown
  <2>. QED
    BY <2>1, <2>2, <2>3 DEF Advances, Awaited, InHandler
<1>13. CASE Rearm(e) \/ PostReceive(e) \/ OnPending(e)
  <2>1. CASE Rearm(e)
    <3>1. /\ Quiet /\ UNCHANGED computer[e]
          /\ thread[e] = "rearm" /\ thread'[e] = "post"
      BY <2>1 DEF Rearm, Goto
    <3>2. StopOnce(e)'
      BY <3>1 DEF StopOnce, StopPosted, Receiving, AfterStop
    <3>3. ThreadLeft(thread'[e]) < ThreadLeft(thread[e])
      BY <3>1 DEF ThreadLeft
    <3>4. Left(e)' < Left(e)
      BY <1>0, <3>1, <3>3
    <3>. QED
      BY <3>1, <3>2, <3>4 DEF Advances, Awaited, InHandler
  <2>2. CASE PostReceive(e)
    <3>1. thread[e] = "post" /\ ~Receiving(e) /\ ~StopPosted(e)
      BY <2>2 DEF PostReceive, StopOnce, AfterStop, LocalInv, Stage, InHandler
    <3>2. queue[e] = <<>>
      BY <3>1, OnePacket DEF StopOnce, Receiving
    <3>3. "error" \in Packets /\ <<"error">> # <<>> /\ <<"error">> # <<"stop">>
          /\ Append(<<>>, "error") = <<"error">>
      BY OnePacket DEF Packets
    <3>4. /\ UNCHANGED <<computer[e], stopped[e], stop_event_posted[e]>>
          /\ \/ /\ thread'[e] = "pending" /\ port = e
                /\ receiveOp'[e] = "posted" /\ queue'[e] = <<>>
             \/ /\ thread'[e] = "finish" /\ queue'[e] = <<"error">>
                /\ receiveOp'[e] = receiveOp[e]
      BY <2>2, <3>2, <3>3 DEF PostReceive, Posted, FailsAtOnce, SocketOpen, Goto, Enqueue
    <3>5. port = e => computer[e] \notin TornDown
      BY DEF PortInv, TornDown
    <3>6. StopOnce(e)'
      BY <3>1, <3>2, <3>3, <3>4, <3>5 DEF StopOnce, StopPosted, Packets
    <3>7. ThreadLeft("post") = 15 /\ ThreadLeft("finish") = 7
          /\ QueueLeft(<<"error">>) = 7 /\ QueueLeft(<<>>) = 0
      BY <3>3 DEF ThreadLeft, QueueLeft
    <3>8. ASSUME computer[e] \in TornDown PROVE Left(e)' < Left(e)
      <4>1. /\ computer'[e] = computer[e] /\ receiveOp'[e] = receiveOp[e]
            /\ thread[e] = "post" /\ thread'[e] = "finish"
            /\ queue[e] = <<>> /\ queue'[e] = <<"error">>
        BY <3>1, <3>2, <3>4, <3>5, <3>8
      <4>. QED
        BY <1>0, <3>7, <4>1
    <3>. QED
      BY <3>4, <3>6, <3>8 DEF Advances, Awaited, InHandler
  <2>3. CASE OnPending(e)
    <3>1. /\ Quiet /\ UNCHANGED computer[e] /\ thread[e] = "pending"
          /\ \/ thread'[e] = "finish"
             \/ thread'[e] = "lost"
             \/ terminated' = TRUE /\ thread'[e] = thread[e]
      BY <2>3 DEF OnPending, Goto
    <3>2. StopOnce(e)'
      BY <3>1 DEF StopOnce, StopPosted, Receiving, AfterStop
    <3>3. terminated' \/ ThreadLeft(thread'[e]) < ThreadLeft(thread[e])
      BY <3>1 DEF ThreadLeft
    <3>4. terminated' \/ Left(e)' < Left(e)
      BY <1>0, <3>1, <3>3
    <3>. QED
      BY <3>1, <3>2, <3>4 DEF Advances, Awaited, InHandler
  <2>. QED
    BY <1>13, <2>1, <2>2, <2>3
<1>14. CASE HandleError(e)
  <2>1. /\ Quiet /\ UNCHANGED computer[e]
        /\ thread[e] = "handleError" /\ thread'[e] = "finish"
    BY <1>14 DEF HandleError, Goto
  <2>2. StopOnce(e)'
    BY <2>1 DEF StopOnce, StopPosted, Receiving, AfterStop
  <2>3. ThreadLeft(thread'[e]) < ThreadLeft(thread[e])
    BY <2>1 DEF ThreadLeft
  <2>4. Left(e)' < Left(e)
    BY <1>0, <2>1, <2>3
  <2>. QED
    BY <2>1, <2>2, <2>4 DEF Advances, Awaited, InHandler
<1>15. CASE Finish(e)
  <2>1. /\ Quiet /\ UNCHANGED computer[e]
        /\ thread[e] = "finish"
        /\ thread'[e] = IF outstanding_work[e] = 1 THEN "stopping" ELSE "loop"
    BY <1>15 DEF Finish, Goto
  <2>2. /\ outstanding_work[e] = 1 <=> ~Receiving(e)
        /\ ~StopPosted(e)
    BY <2>1 DEF StopOnce, AfterStop, LocalInv, Stage, Account, InHandler
  <2>3. StopOnce(e)'
    BY <2>1, <2>2 DEF StopOnce, StopPosted, Receiving
  <2>4. Awaited(e)'
    BY <2>1, <2>2, NoPackets DEF Awaited, StopOnce, TornDown, Receiving
  <2>5. ThreadLeft(thread'[e]) < ThreadLeft(thread[e])
    BY <2>1 DEF ThreadLeft
  <2>6. Left(e)' < Left(e)
    BY <1>0, <2>1, <2>5
  <2>. QED
    BY <2>3, <2>4, <2>6 DEF Advances
<1>16. CASE Stop(e)
  <2>1. /\ thread[e] \in {"stopping", "leaving"} /\ ~Receiving(e) /\ ~StopPosted(e)
    BY <1>16 DEF Stop, At, StopOnce, AfterStop
  <2>2. queue[e] = <<>>
    BY <2>1, OnePacket DEF StopOnce, Receiving
  <2>3. /\ UNCHANGED <<computer[e], receiveOp[e]>> /\ stopped'[e]
        /\ queue'[e] = Append(queue[e], "stop")
        /\ thread'[e] = IF thread[e] = "stopping" THEN "loop" ELSE "exited"
    BY <1>16, <2>1 DEF Stop, At, StopPosted, Enqueue, Goto
  <2>4. /\ queue'[e] = <<"stop">> /\ "stop" \in Packets
        /\ <<"stop">> # <<>> /\ Operations(<<"stop">>) = {}
    BY <2>2, <2>3, OnePacket DEF Packets
  <2>5. ~Receiving(e)'
    BY <2>1, <2>3, <2>4 DEF Receiving
  <2>6. StopOnce(e)'
    BY <2>3, <2>4, <2>5 DEF StopOnce, StopPosted, AfterStop
  <2>7. QueueLeft(<<"stop">>) = 2 /\ QueueLeft(<<>>) = 0
        /\ ThreadLeft(thread'[e]) + 2 < ThreadLeft(thread[e])
    BY <2>1, <2>3, <2>4 DEF ThreadLeft, QueueLeft
  <2>8. Left(e)' < Left(e)
    BY <1>0, <2>2, <2>3, <2>4, <2>7
  <2>. QED
    BY <2>4, <2>6, <2>8 DEF Advances, Awaited
<1>17. CASE StopEvent(e)
  <2>1. thread[e] = "stopEvent" /\ queue[e] = <<>> /\ ~Receiving(e)
    BY <1>17 DEF StopEvent, At, StopOnce
  <2>2. /\ UNCHANGED <<computer[e], receiveOp[e], stopped[e]>> /\ stop_event_posted'[e]
        /\ queue'[e] = Append(queue[e], "stop") /\ thread'[e] = "exited"
    BY <1>17 DEF StopEvent, PassStopEvent, Enqueue, Goto
  <2>3. /\ queue'[e] = <<"stop">> /\ "stop" \in Packets
        /\ <<"stop">> # <<>> /\ Operations(<<"stop">>) = {}
    BY <2>1, <2>2, OnePacket DEF Packets
  <2>4. ~Receiving(e)'
    BY <2>1, <2>2, <2>3 DEF Receiving
  <2>5. StopOnce(e)'
    BY <2>2, <2>3, <2>4 DEF StopOnce, StopPosted, AfterStop
  <2>6. QueueLeft(<<"stop">>) = 2 /\ QueueLeft(<<>>) = 0
        /\ ThreadLeft("exited") = 0 /\ ThreadLeft("stopEvent") = 3
    BY <2>3 DEF ThreadLeft, QueueLeft
  <2>7. Left(e)' < Left(e)
    BY <1>0, <2>1, <2>2, <2>3, <2>6
  <2>. QED
    BY <2>3, <2>5, <2>7 DEF Advances, Awaited
<1>18. CASE UseAfterFree(e)
  <2>1. /\ Quiet /\ UNCHANGED computer[e] /\ computer[e] = "destroyed"
        /\ thread[e] \in Touches /\ thread'[e] = "lost"
    BY <1>18 DEF UseAfterFree, Goto
  <2>2. StopOnce(e)'
    BY <2>1 DEF StopOnce, StopPosted, Receiving, AfterStop
  <2>3. ThreadLeft(thread'[e]) < ThreadLeft(thread[e])
    BY <2>1 DEF ThreadLeft, Touches
  <2>4. Left(e)' < Left(e)
    BY <1>0, <2>1, <2>3
  <2>. QED
    BY <2>1, <2>2, <2>4 DEF Advances, Awaited
<1>19. CASE AbandonedWait(e)
  <2>1. Quiet /\ UNCHANGED <<computer[e], thread[e]>>
    BY <1>19 DEF AbandonedWait
  <2>. QED
    BY <2>1 DEF Advances, Awaited, StopOnce, StopPosted, Receiving, InHandler
<1>. QED
  BY <1>1, <1>2, <1>3, <1>4, <1>5, <1>6, <1>7, <1>8, <1>9, <1>10, <1>11, <1>12,
     <1>13, <1>14, <1>15, <1>16, <1>17, <1>18, <1>19
  DEF Simulation, Destructor, IoThread
\* A computer that does not move keeps all of it.
LEMMA TeardownSame ==
  ASSUME NEW c \in Computers, StopOnce(c), Awaited(c), SameComputer(c)
  PROVE  StopOnce(c)' /\ Awaited(c)' /\ Advances(c)
BY DEF SameComputer, StopOnce, StopPosted, Awaited, Advances, Receiving, InHandler,
       Undefined

\* A step moves at most one computer.
LEMMA TeardownNext ==
  ASSUME LifeInv, TeardownInv, [LifeNext]_lifeVars
  PROVE  TeardownInv' /\ \A c \in Computers : Advances(c)
<1>1. ASSUME NEW c \in Computers PROVE StopOnce(c)' /\ Awaited(c)' /\ Advances(c)
  <2>. StopOnce(c) /\ Awaited(c) /\ LifeTypeOK
    BY DEF TeardownInv, LifeInv
  <2>1. CASE WsfPluginSetup \/ OtherProcess \/ UNCHANGED lifeVars
    <3>1. SameComputer(c)
      BY <2>1 DEF WsfPluginSetup, OtherProcess, lifeVars, contextVars, SameComputer
    <3>. QED
      BY <3>1, TeardownSame
  <2>2. ASSUME NEW e \in Computers,
               Simulation(e) \/ IoThread(e) \/ ReceiveCompletes(e)
        PROVE  StopOnce(c)' /\ Awaited(c)' /\ Advances(c)
    <3>1. CASE c = e
      BY <2>2, <3>1, TeardownStep
    <3>2. CASE c # e
      BY <2>2, <3>2, OthersStand, TeardownSame
    <3>. QED
      BY <3>1, <3>2
  <2>. QED
    BY <2>1, <2>2 DEF LifeNext
<1>. QED
  BY <1>1 DEF TeardownInv

\* Nothing is torn down and nothing stopped to begin with.
LEMMA TeardownInvInitially == LifeInit => TeardownInv
<1>. SUFFICES ASSUME LifeInit, NEW c \in Computers PROVE StopOnce(c) /\ Awaited(c)
  BY DEF TeardownInv
<1>1. /\ computer[c] = "none" /\ thread[c] = "none" /\ queue[c] = <<>>
      /\ receiveOp[c] = "none" /\ ~stopped[c] /\ ~stop_event_posted[c]
  BY DEF LifeInit
<1>2. queue[c] # <<"stop">>
  BY <1>1, OnePacket DEF Packets
<1>. QED
  BY <1>1, <1>2 DEF StopOnce, StopPosted, Awaited, TornDown

\* The bookkeeping holds in every behaviour.
LEMMA TeardownInvariant == LifeSafety => [](LifeInv /\ TeardownInv)
<1>1. LifeInv /\ TeardownInv /\ [LifeNext]_lifeVars => TeardownInv'
  BY TeardownNext
<1>. QED
  BY <1>1, LifeInvariant, TeardownInvInitially, PTL DEF LifeSafety

\* A destructor never waits for nothing, whoever of the two threads took which
\* packet before: the stop packet it may have swallowed is not the one that
\* would have woken it.
THEOREM DestructorIsAwaited == LifeSafety => []WaitsForSomething
<1>1. TeardownInv => WaitsForSomething
  BY DEF TeardownInv, WaitsForSomething
<1>. QED
  BY <1>1, TeardownInvariant, PTL

\* Nothing is done twice in a teardown, and nothing goes back and forth
\* between the destructor and the IO thread: each step is one step nearer.
THEOREM TeardownAdvances == LifeSafety => [][\A c \in Computers : Advances(c)]_lifeVars
<1>1. LifeInv /\ TeardownInv /\ [LifeNext]_lifeVars
        => [\A c \in Computers : Advances(c)]_lifeVars
  BY TeardownNext
<1>. QED
  BY <1>1, TeardownInvariant, PTL DEF LifeSafety

\* A teardown takes at most 19 steps of the destructor, the kernel and the IO
\* thread, whatever the moment the computer is destroyed.
THEOREM TeardownIsShort ==
  LifeSafety => [](\A c \in Computers : computer[c] \in TornDown => Left(c) <= 19)
<1> DEFINE Short == \A c \in Computers : computer[c] \in TornDown => Left(c) <= 19
<1>1. ASSUME LifeInv, TeardownInv, NEW c \in Computers, computer[c] \in TornDown
      PROVE  Left(c) <= 19
  <2>1. LocalInv(c) /\ StopOnce(c) /\ LifeTypeOK
    BY <1>1 DEF LifeInv, TeardownInv
  <2>2. /\ receiveOp[c] # "none" => queue[c] = <<>>
        /\ thread[c] \in {"rearm", "post", "handleError"}
             => receiveOp[c] = "none" /\ queue[c] = <<>>
    <3>1. ASSUME queue[c] # <<>>
          PROVE  /\ receiveOp[c] = "none"
                 /\ thread[c] \notin {"rearm", "post", "handleError"}
      <4>1. PICK p \in Packets : queue[c] = <<p>>
        BY <2>1, <3>1 DEF StopOnce
      <4>2. CASE p = "stop"
        BY <2>1, <4>1, <4>2 DEF StopOnce, Receiving, AfterStop
      <4>3. CASE p # "stop"
        <5>1. Operations(queue[c]) # {}
          BY <4>1, <4>3, OnePacket
        <5>2. computer[c] # "destroyed"
          BY <2>1, <5>1 DEF LocalInv, Stage, Receiving
        <5>. QED
          BY <2>1, <5>1, <5>2 DEF LocalInv, Account, Stage, Receiving, InHandler,
             HandlerCounted
      <4>. QED
        BY <4>2, <4>3
    <3>2. thread[c] \in {"rearm", "post", "handleError"} => receiveOp[c] = "none"
      BY <2>1 DEF LocalInv, Stage, Receiving, InHandler, HandlerCounted
    <3>. QED
      BY <3>1, <3>2
  <2>3. /\ DestructorLeft(computer[c]) \in 0 .. 3
        /\ QueueLeft(queue[c]) \in 0 .. 7 /\ ReceiveLeft(receiveOp[c]) \in 0 .. 8
        /\ ThreadLeft(thread[c]) \in 0 .. 16
        /\ thread[c] \notin {"rearm", "post", "handleError"}
             => ThreadLeft(thread[c]) \in 0 .. 8
        /\ queue[c] = <<>> => QueueLeft(queue[c]) = 0
        /\ receiveOp[c] = "none" => ReceiveLeft(receiveOp[c]) = 0
    BY DEF DestructorLeft, QueueLeft, ReceiveLeft, ThreadLeft
  <2>4. QueueLeft(queue[c]) + ReceiveLeft(receiveOp[c]) <= 8
    BY <2>2, <2>3
  <2>5. Left(c) = DestructorLeft(computer[c]) + ThreadLeft(thread[c])
                  + QueueLeft(queue[c]) + ReceiveLeft(receiveOp[c])
    BY DEF Left
  <2>6. CASE thread[c] \in {"rearm", "post", "handleError"}
    <3>1. QueueLeft(queue[c]) = 0 /\ ReceiveLeft(receiveOp[c]) = 0
      BY <2>2, <2>3, <2>6
    <3>. QED
      BY <2>3, <2>5, <3>1
  <2>7. CASE thread[c] \notin {"rearm", "post", "handleError"}
    <3>1. ThreadLeft(thread[c]) \in 0 .. 8
      BY <2>3, <2>7
    <3>. QED
      BY <2>3, <2>4, <2>5, <3>1, SMTT(20)
  <2>. QED
    BY <2>6, <2>7
<1>2. LifeInv /\ TeardownInv => Short
  BY <1>1
<1>. QED
  BY <1>2, TeardownInvariant, PTL
=============================================================================
