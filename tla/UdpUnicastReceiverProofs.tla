---------------------- MODULE UdpUnicastReceiverProofs ----------------------
(***************************************************************************)
(* TLAPS proofs about UdpUnicastReceiver, for every set of peers, every    *)
(* set of bodies and every BUFFER_SIZE.  The heart is ReceiverInv: an      *)
(* account of where the one receive operation, the one temporary buffer    *)
(* and the datagram in flight are at every point of the loop.  On it rests *)
(* that answers come nearer with every step, until a receive error ends it.*)
(***************************************************************************)
EXTENDS UdpUnicastReceiver, SequenceTheorems, TLAPS

\* How far Initialize got bounds what the IO thread can be doing.
SetupOrder ==
    /\ setup = "detached" <=> io # "unstarted"
    /\ setup \in {"callbackSet", "detached"} => mReceivedCallback
    /\ setup \in {"none", "failed"} => receiveOp = "none" /\ arrivals = <<>>

\* There is one receive operation: either it is posted or completed and the
\* IO thread is not inside a handler that will re-arm it, or the reverse.
OneReceive ==
    /\ io \in {"callback", "echo", "rearm", "exited"} \cup Dead
         => receiveOp = "none"
    /\ io \in {"starting", "waiting"} => receiveOp # "none"
    /\ setup \in {"constructed", "callbackSet"} => receiveOp # "none"

WorkCount ==
    outstanding_work =
        (IF receiveOp # "none" THEN 1 ELSE 0)
        + (IF io \in {"callback", "echo", "rearm", "finish"} \cup Dead
             THEN 1 ELSE 0)

\* Which datagrams are in flight between the kernel, the callback and the
\* echo.
InFlight ==
    /\ IF receiveOp = "received" \/ io = "callback"
         THEN delivered = Len(handled) + 1
         ELSE delivered = Len(handled)
    /\ IF io \in {"echo"} \cup Dead
         THEN Len(handled) = Len(echoed) + 1
         ELSE Len(handled) = Len(echoed)

BufferHolds ==
    receiveOp = "received" \/ io \in {"callback", "echo"}
        => Current = Received(arrivals[delivered])

Faithful ==
    /\ \A i \in 1 .. Len(handled) : handled[i] = Received(arrivals[i])
    /\ \A i \in 1 .. Len(echoed) : echoed[i] = Received(arrivals[i])

\* Reception ends after a receive error only, and every trace of a refusal goes
\* back to an answer sent to a closed port.
Bounced == \E i \in 1 .. Len(echoed) : echoed[i].from \in closed

RefusalsBounced ==
    portUnreachable \/ receiveOp = "refused" \/ lastError = "refused" => Bounced

EndedByError ==
    io = "exited" \/ (io = "finish" /\ receiveOp = "none") => lastError # "none"

ErrorsRecorded == RefusalsBounced /\ EndedByError

Control == SetupOrder /\ OneReceive /\ WorkCount /\ NoBufferLeak

ReceiverInv == /\ TypeOK /\ Control /\ InFlight /\ BufferHolds /\ Faithful
               /\ ErrorsRecorded
-----------------------------------------------------------------------------
(* What truncation does to a body, a datagram and the messages of a run.   *)

\* A truncated body is still a sequence of chunks, it fits the buffer, and
\* truncating it again changes nothing: echoing an echo is harmless.
THEOREM FitProperties ==
    ASSUME NEW body \in Seq(Chunks)
    PROVE  /\ Fit(body) \in Seq(Chunks)
           /\ Len(Fit(body)) <= BUFFER_SIZE
           /\ Fit(Fit(body)) = Fit(body)
<1>1. CASE Len(body) > BUFFER_SIZE
  <2>1. \A i \in 1 .. BUFFER_SIZE : body[i] \in Chunks
    BY <1>1, ElementOfSeq, LenProperties, ReceiverAssumption
  <2>2. /\ SubSeq(body, 1, BUFFER_SIZE) \in Seq(Chunks)
        /\ Len(SubSeq(body, 1, BUFFER_SIZE)) = BUFFER_SIZE
    BY <1>1, <2>1, SubSeqProperties, ReceiverAssumption
  <2>3. QED
    BY <1>1, <2>2, ReceiverAssumption DEF Fit
<1>2. CASE ~(Len(body) > BUFFER_SIZE)
  BY <1>2, LenProperties, ReceiverAssumption DEF Fit
<1>3. QED
  BY <1>1, <1>2

\* A datagram keeps its sender, and its body stays a body, when received.
LEMMA ReceivedType ==
    ASSUME NEW d \in Datagrams
    PROVE  /\ Received(d) \in [from : Peers, body : Seq(Chunks)]
           /\ Received(d).from = d.from
<1>1. d.body \in Seq(Chunks)
  BY ReceiverAssumption DEF Datagrams
<1>2. Fit(d.body) \in Seq(Chunks)
  BY <1>1, FitProperties
<1>3. QED
  BY <1>2 DEF Received, Datagrams
-----------------------------------------------------------------------------
(* Type correctness.                                                       *)

\* Before Initialize every variable has its type.
LEMMA InitType == ReceiverInit => TypeOK
<1> SUFFICES ASSUME ReceiverInit PROVE TypeOK
  OBVIOUS
<1>1. arrivals = <<>> /\ handled = <<>> /\ echoed = <<>> /\ mRecvbuffer = <<>>
  BY DEF ReceiverInit
<1>2. /\ mRecvbuffer \in Seq(Chunks)
      /\ arrivals \in Seq(Datagrams) /\ Len(arrivals) = 0
      /\ handled \in Seq([from : Peers, body : Seq(Chunks)])
      /\ echoed \in Seq([from : Peers, body : Seq(Chunks)])
  BY <1>1, EmptySeq
<1>3. Len(arrivals) <= MaxSent /\ delivered \in 0 .. Len(arrivals)
  BY <1>2, ReceiverAssumption DEF ReceiverInit
<1>4. QED
  BY <1>2, <1>3 DEF ReceiverInit, TypeOK

\* A receive leaves a body in the buffer and a peer in the endpoint.
LEMMA DeliveredType ==
    ASSUME TypeOK, KernelDelivers
    PROVE  mRecvbuffer' \in Seq(Chunks) /\ mRemoteEndpoint' \in Peers
<1>1. arrivals[delivered + 1] \in Datagrams
  BY ElementOfSeq, LenProperties DEF TypeOK, KernelDelivers
<1>2. QED
  BY <1>1, ReceivedType DEF KernelDelivers

\* The datagram the handler reads is one that arrived.
LEMMA CurrentType ==
    ASSUME TypeOK, InFlight, BufferHolds, io \in {"callback", "echo"}
    PROVE  Current \in [from : Peers, body : Seq(Chunks)]
<1>1. delivered \in 1 .. Len(arrivals)
  <2>1. delivered \in 0 .. Len(arrivals) /\ Len(arrivals) \in Nat
    BY LenProperties DEF TypeOK
  <2>2. Len(handled) \in Nat /\ Len(echoed) \in Nat
    BY LenProperties DEF TypeOK
  <2>3. CASE io = "callback"
    BY <2>1, <2>2, <2>3 DEF InFlight
  <2>4. CASE io = "echo"
    <3>1. Len(handled) >= 1
      BY <2>2, <2>4 DEF InFlight
    <3>2. delivered >= Len(handled)
      BY <2>2 DEF InFlight
    <3>3. QED
      BY <2>1, <2>2, <3>1, <3>2
  <2>5. QED
    BY <2>3, <2>4
<1>2. arrivals[delivered] \in Datagrams
  BY <1>1, ElementOfSeq DEF TypeOK
<1>3. QED
  BY <1>2, ReceivedType DEF BufferHolds

\* Every step keeps the types: in particular the work count never goes
\* negative and the queue stays within its bound.
LEMMA StepType == TypeOK /\ WorkCount /\ NoBufferLeak /\ BufferHolds /\ InFlight
                  /\ [Next]_receiverVars => TypeOK'
<1> SUFFICES ASSUME TypeOK, WorkCount, NoBufferLeak, BufferHolds, InFlight,
                    [Next]_receiverVars
             PROVE  TypeOK'
  OBVIOUS
<1> USE DEF workVars, bufferVars, kernelVars, history
<1>1. CASE Construct
  BY <1>1, EmptySeq DEF Construct, StartReceive, TypeOK, Errors
<1>2. CASE ConstructThrows
  BY <1>2 DEF ConstructThrows, TypeOK
<1>3. CASE SetReceivedCallback
  BY <1>3 DEF SetReceivedCallback, TypeOK
<1>4. CASE StartThread
  BY <1>4 DEF StartThread, TypeOK
<1>5. ASSUME NEW d \in Datagrams, PeerSend(d)
      PROVE  TypeOK'
  <2>1. /\ arrivals' \in Seq(Datagrams)
        /\ Len(arrivals') = Len(arrivals) + 1
    BY <1>5, AppendProperties DEF PeerSend, TypeOK
  <2>2. Len(arrivals) \in Nat
    BY LenProperties DEF TypeOK
  <2>3. QED
    BY <1>5, <2>1, <2>2, ReceiverAssumption DEF PeerSend, TypeOK
<1>6. ASSUME NEW p \in Peers, PeerClose(p)
      PROVE  TypeOK'
  BY <1>6 DEF PeerClose, TypeOK
<1>7. CASE KernelDelivers
  <2>1. Len(arrivals) \in Nat
    BY LenProperties DEF TypeOK
  <2>2. QED
    BY <1>7, <2>1, DeliveredType DEF KernelDelivers, TypeOK
<1>8. CASE KernelRefuses
  BY <1>8 DEF KernelRefuses, TypeOK, Errors
<1>9. CASE Run
  BY <1>9 DEF Run, TypeOK
<1>10. CASE HandleReceive
  BY <1>10 DEF HandleReceive, TypeOK
<1>11. CASE HandleReceiveError
  BY <1>11 DEF HandleReceiveError, TypeOK, Errors
<1>13. ASSUME NEW throws \in BOOLEAN, InvokeCallback(throws)
       PROVE  TypeOK'
  <2>1. handled' \in Seq([from : Peers, body : Seq(Chunks)])
    <3>1. /\ Current \in [from : Peers, body : Seq(Chunks)]
          /\ handled' \in {handled, Append(handled, Current)}
      BY CurrentType, <1>13 DEF InvokeCallback, DeleteBuffer
    <3>2. handled \in Seq([from : Peers, body : Seq(Chunks)])
      BY DEF TypeOK
    <3>3. Append(handled, Current) \in Seq([from : Peers, body : Seq(Chunks)])
      BY <3>1, <3>2, AppendProperties
    <3>4. QED
      BY <3>1, <3>2, <3>3
  <2>2. liveBuffers' \in Nat
    BY <1>13 DEF InvokeCallback, DeleteBuffer, TypeOK, NoBufferLeak
  <2>3. QED
    BY <1>13, <2>1, <2>2 DEF InvokeCallback, DeleteBuffer, TypeOK, Dead
<1>14. CASE Echo
  <2>1. echoed' \in Seq([from : Peers, body : Seq(Chunks)])
    BY CurrentType, <1>14, AppendProperties DEF Echo, Echoed, TypeOK
  <2>2. QED
    BY <1>14, <2>1 DEF Echo, Echoed, TypeOK
<1>15. CASE EchoThrows
  BY <1>15 DEF EchoThrows, TypeOK, Dead
<1>16. CASE Rearm
  BY <1>16, EmptySeq DEF Rearm, StartReceive, TypeOK, Errors
<1>17. CASE Finish
  <2>1. outstanding_work \in Nat \ {0}
    BY <1>17 DEF Finish, WorkCount, TypeOK
  <2>2. QED
    BY <1>17, <2>1 DEF Finish, TypeOK
<1>12. CASE ReceiveFails
  BY <1>12 DEF ReceiveFails, TypeOK, Errors
<1>18. CASE UNCHANGED receiverVars
  BY <1>18 DEF receiverVars, TypeOK
<1>19. QED
  BY <1>1, <1>2, <1>3, <1>4, <1>5, <1>6, <1>7, <1>8, <1>9, <1>10, <1>11,
     <1>12, <1>13, <1>14, <1>15, <1>16, <1>17, <1>18
  DEF Next, Initialize, Network, Kernel, IoSteps
-----------------------------------------------------------------------------
(* Control: where the receive operation, the work count and the temporary  *)
(* buffer are.                                                             *)

\* Every step moves the receive operation, the count and the buffer together.
LEMMA StepControl == TypeOK /\ Control /\ [Next]_receiverVars => Control'
<1> SUFFICES ASSUME TypeOK, Control, [Next]_receiverVars
             PROVE  Control'
  OBVIOUS
<1> USE DEF workVars, bufferVars, kernelVars, history, Control, SetupOrder,
            OneReceive, WorkCount, NoBufferLeak, Dead, Alive
<1>1. CASE Construct
  BY <1>1 DEF Construct, StartReceive
<1>2. CASE ConstructThrows
  BY <1>2 DEF ConstructThrows
<1>3. CASE SetReceivedCallback
  BY <1>3 DEF SetReceivedCallback
<1>4. CASE StartThread
  BY <1>4 DEF StartThread
<1>5. ASSUME NEW d \in Datagrams, PeerSend(d)
      PROVE  Control'
  BY <1>5 DEF PeerSend
<1>6. ASSUME NEW p \in Peers, PeerClose(p)
      PROVE  Control'
  BY <1>6 DEF PeerClose
<1>7. CASE KernelDelivers
  <2>1. arrivals # <<>>
    <3>1. delivered \in 0 .. Len(arrivals) /\ Len(arrivals) \in Nat
      BY LenProperties DEF TypeOK
    <3>2. Len(arrivals) # 0
      BY <1>7, <3>1 DEF KernelDelivers
    <3>3. QED
      BY <3>2, EmptySeq
  <2>2. QED
    BY <1>7, <2>1 DEF KernelDelivers
<1>8. CASE KernelRefuses
  BY <1>8 DEF KernelRefuses
<1>9. CASE Run
  BY <1>9 DEF Run, TypeOK
<1>10. CASE HandleReceive
  BY <1>10 DEF HandleReceive, TypeOK
<1>11. CASE HandleReceiveError
  BY <1>11 DEF HandleReceiveError, TypeOK, Errors
<1>12. ASSUME NEW throws \in BOOLEAN, InvokeCallback(throws)
       PROVE  Control'
  <2>1. mReceivedCallback
    BY <1>12 DEF InvokeCallback, DeleteBuffer
  <2>2. QED
    BY <1>12, <2>1 DEF InvokeCallback, DeleteBuffer, TypeOK
<1>13. CASE Echo
  BY <1>13 DEF Echo, Echoed, TypeOK
<1>14. CASE EchoThrows
  BY <1>14 DEF EchoThrows, TypeOK
<1>15. CASE Rearm
  BY <1>15 DEF Rearm, StartReceive, TypeOK
<1>16. CASE Finish
  BY <1>16 DEF Finish, TypeOK
<1>17. CASE ReceiveFails
  BY <1>17 DEF ReceiveFails
<1>18. CASE UNCHANGED receiverVars
  BY <1>18 DEF receiverVars
<1>19. QED
  BY <1>1, <1>2, <1>3, <1>4, <1>5, <1>6, <1>7, <1>8, <1>9, <1>10, <1>11,
     <1>12, <1>13, <1>14, <1>15, <1>16, <1>17, <1>18
  DEF Next, Initialize, Network, Kernel, IoSteps
-----------------------------------------------------------------------------
(* Data: the datagram in flight and the two histories.                     *)

\* The histories and the count of delivered datagrams are numbers.
LEMMA Lengths ==
    ASSUME TypeOK
    PROVE  /\ Len(arrivals) \in Nat /\ Len(handled) \in Nat
           /\ Len(echoed) \in Nat /\ delivered \in 0 .. Len(arrivals)
BY LenProperties DEF TypeOK

\* The datagram in flight is counted once, by the kernel, by the callback or
\* by the echo.
LEMMA StepInFlight == TypeOK /\ Control /\ InFlight /\ [Next]_receiverVars
                      => InFlight'
<1> SUFFICES ASSUME TypeOK, Control, InFlight, [Next]_receiverVars
             PROVE  InFlight'
  OBVIOUS
<1> USE Lengths
    DEF workVars, bufferVars, kernelVars, history, InFlight, Dead, Alive
<1>1. CASE Construct
  BY <1>1 DEF Construct, StartReceive, Control, SetupOrder
<1>2. CASE ConstructThrows
  BY <1>2 DEF ConstructThrows
<1>3. CASE SetReceivedCallback
  BY <1>3 DEF SetReceivedCallback
<1>4. CASE StartThread
  BY <1>4 DEF StartThread, Control, SetupOrder
<1>5. ASSUME NEW d \in Datagrams, PeerSend(d)
      PROVE  InFlight'
  BY <1>5 DEF PeerSend
<1>6. ASSUME NEW p \in Peers, PeerClose(p)
      PROVE  InFlight'
  BY <1>6 DEF PeerClose
<1>7. CASE KernelDelivers
  BY <1>7 DEF KernelDelivers, Control, OneReceive
<1>8. CASE KernelRefuses
  BY <1>8 DEF KernelRefuses
<1>9. CASE Run
  BY <1>9 DEF Run
<1>10. CASE HandleReceive
  BY <1>10 DEF HandleReceive
<1>11. CASE HandleReceiveError
  BY <1>11 DEF HandleReceiveError, Errors
<1>12. ASSUME NEW throws \in BOOLEAN, InvokeCallback(throws)
       PROVE  InFlight'
  <2>1. mReceivedCallback /\ receiveOp = "none"
    BY <1>12 DEF InvokeCallback, DeleteBuffer, Control, SetupOrder, OneReceive
  <2>2. Len(handled') = Len(handled) + 1
    BY <1>12, <2>1, AppendProperties DEF InvokeCallback, DeleteBuffer, TypeOK
  <2>3. QED
    BY <1>12, <2>1, <2>2 DEF InvokeCallback, DeleteBuffer
<1>13. CASE Echo
  <2>1. Len(echoed') = Len(echoed) + 1
    BY <1>13, AppendProperties DEF Echo, Echoed, TypeOK
  <2>2. QED
    BY <1>13, <2>1 DEF Echo, Echoed
<1>14. CASE EchoThrows
  BY <1>14 DEF EchoThrows
<1>15. CASE Rearm
  BY <1>15 DEF Rearm, StartReceive, Control, OneReceive
<1>16. CASE Finish
  BY <1>16 DEF Finish
<1>17. CASE ReceiveFails
  BY <1>17 DEF ReceiveFails
<1>18. CASE UNCHANGED receiverVars
  BY <1>18 DEF receiverVars
<1>19. QED
  BY <1>1, <1>2, <1>3, <1>4, <1>5, <1>6, <1>7, <1>8, <1>9, <1>10, <1>11,
     <1>12, <1>13, <1>14, <1>15, <1>16, <1>17, <1>18
  DEF Next, Initialize, Network, Kernel, IoSteps

\* While a handler still reads mRecvbuffer nothing else writes it.
LEMMA StepBufferHolds == TypeOK /\ Control /\ InFlight /\ BufferHolds
                         /\ [Next]_receiverVars => BufferHolds'
<1> SUFFICES ASSUME TypeOK, Control, InFlight, BufferHolds,
                    [Next]_receiverVars
             PROVE  BufferHolds'
  OBVIOUS
<1> USE DEF workVars, bufferVars, kernelVars, history, BufferHolds, Current,
            Dead, Alive
<1>1. CASE Construct
  BY <1>1 DEF Construct, StartReceive, Control, SetupOrder
<1>2. CASE ConstructThrows
  BY <1>2 DEF ConstructThrows
<1>3. CASE SetReceivedCallback
  BY <1>3 DEF SetReceivedCallback
<1>4. CASE StartThread
  BY <1>4 DEF StartThread, Control, SetupOrder
<1>5. ASSUME NEW d \in Datagrams, PeerSend(d)
      PROVE  BufferHolds'
  <2>1. SUFFICES ASSUME receiveOp = "received" \/ io \in {"callback", "echo"}
                 PROVE  arrivals'[delivered] = arrivals[delivered]
    BY <1>5 DEF PeerSend
  <2>2. delivered \in 1 .. Len(arrivals)
    BY <2>1, Lengths DEF InFlight
  <2>3. QED
    BY <1>5, <2>2, AppendProperties DEF PeerSend, TypeOK
<1>6. ASSUME NEW p \in Peers, PeerClose(p)
      PROVE  BufferHolds'
  BY <1>6 DEF PeerClose
<1>7. CASE KernelDelivers
  <2>1. Current' = Received(arrivals[delivered + 1])
    BY <1>7 DEF KernelDelivers, Received
  <2>2. QED
    BY <1>7, <2>1 DEF KernelDelivers
<1>8. CASE KernelRefuses
  BY <1>8 DEF KernelRefuses, Control, OneReceive
<1>9. CASE Run
  BY <1>9 DEF Run
<1>10. CASE HandleReceive
  BY <1>10 DEF HandleReceive
<1>11. CASE HandleReceiveError
  BY <1>11 DEF HandleReceiveError, Errors
<1>12. ASSUME NEW throws \in BOOLEAN, InvokeCallback(throws)
       PROVE  BufferHolds'
  BY <1>12 DEF InvokeCallback, DeleteBuffer
<1>13. CASE Echo
  BY <1>13 DEF Echo, Echoed, Control, OneReceive
<1>14. CASE EchoThrows
  BY <1>14 DEF EchoThrows
<1>15. CASE Rearm
  BY <1>15 DEF Rearm, StartReceive
<1>16. CASE Finish
  BY <1>16 DEF Finish
<1>17. CASE ReceiveFails
  BY <1>17 DEF ReceiveFails, Control, OneReceive
<1>18. CASE UNCHANGED receiverVars
  BY <1>18 DEF receiverVars
<1>19. QED
  BY <1>1, <1>2, <1>3, <1>4, <1>5, <1>6, <1>7, <1>8, <1>9, <1>10, <1>11,
     <1>12, <1>13, <1>14, <1>15, <1>16, <1>17, <1>18
  DEF Next, Initialize, Network, Kernel, IoSteps

\* Only three steps touch the histories Faithful speaks about.
LEMMA StepFaithful == TypeOK /\ Control /\ InFlight /\ BufferHolds /\ Faithful
                      /\ [Next]_receiverVars => Faithful'
<1> SUFFICES ASSUME TypeOK, Control, InFlight, BufferHolds, Faithful,
                    [Next]_receiverVars
             PROVE  Faithful'
  OBVIOUS
<1> USE DEF workVars, bufferVars, kernelVars, history
<1>1. Len(handled) <= Len(arrivals) /\ Len(echoed) <= Len(arrivals)
  BY Lengths DEF InFlight
<1>2. ASSUME NEW d \in Datagrams, PeerSend(d)
      PROVE  Faithful'
  <2>1. \A i \in 1 .. Len(arrivals) : arrivals'[i] = arrivals[i]
    BY <1>2, AppendProperties DEF PeerSend, TypeOK
  <2>2. UNCHANGED <<handled, echoed>>
    BY <1>2 DEF PeerSend
  <2>3. \A i \in 1 .. Len(handled) : arrivals'[i] = arrivals[i]
    BY <1>1, <2>1, Lengths
  <2>4. \A i \in 1 .. Len(echoed) : arrivals'[i] = arrivals[i]
    BY <1>1, <2>1, Lengths
  <2>5. QED
    BY <2>2, <2>3, <2>4 DEF Faithful
<1>3. ASSUME NEW throws \in BOOLEAN, InvokeCallback(throws)
      PROVE  Faithful'
  <2>1. /\ handled' = Append(handled, Current)
        /\ UNCHANGED <<echoed, arrivals>>
    BY <1>3 DEF InvokeCallback, DeleteBuffer, Control, SetupOrder
  <2>2. Current = Received(arrivals[Len(handled) + 1])
    BY <1>3, Lengths DEF InvokeCallback, DeleteBuffer, InFlight, BufferHolds
  <2>3. /\ Len(handled') = Len(handled) + 1
        /\ handled'[Len(handled) + 1] = Current
        /\ \A i \in 1 .. Len(handled) : handled'[i] = handled[i]
    BY <2>1, AppendProperties, CurrentType, <1>3
    DEF InvokeCallback, DeleteBuffer, TypeOK
  <2>4. QED
    BY <2>1, <2>2, <2>3, Lengths DEF Faithful
<1>4. CASE Echo
  <2>1. /\ echoed' = Append(echoed, Current)
        /\ UNCHANGED <<handled, arrivals>>
    BY <1>4 DEF Echo, Echoed
  <2>2. Current = Received(arrivals[Len(echoed) + 1])
    BY <1>4, Lengths
    DEF Echo, Echoed, InFlight, BufferHolds, Control, OneReceive
  <2>3. /\ Len(echoed') = Len(echoed) + 1
        /\ echoed'[Len(echoed) + 1] = Current
        /\ \A i \in 1 .. Len(echoed) : echoed'[i] = echoed[i]
    BY <2>1, AppendProperties, CurrentType, <1>4 DEF Echo, Echoed, TypeOK
  <2>4. QED
    BY <2>1, <2>2, <2>3, Lengths DEF Faithful
<1>5. ASSUME UNCHANGED <<handled, echoed, arrivals>>
      PROVE  Faithful'
  BY <1>5 DEF Faithful
<1>6. QED
  BY <1>2, <1>3, <1>4, <1>5
  DEF Next, Initialize, Network, Kernel, IoSteps, receiverVars, Construct,
      ConstructThrows, SetReceivedCallback, StartThread, PeerClose,
      KernelDelivers, KernelRefuses, ReceiveFails, Run, HandleReceive, HandleReceiveError,
      EchoThrows, Rearm, Finish

\* A bounce stays on record: peers never reopen and answers are never undone.
LEMMA StepErrors == TypeOK /\ Control /\ InFlight /\ BufferHolds
                    /\ ErrorsRecorded /\ [Next]_receiverVars => ErrorsRecorded'
<1> SUFFICES ASSUME TypeOK, Control, InFlight, BufferHolds, ErrorsRecorded,
                    [Next]_receiverVars
             PROVE  ErrorsRecorded'
  OBVIOUS
<1> USE DEF workVars, bufferVars, kernelVars, history, Errors, ErrorsRecorded,
            RefusalsBounced, EndedByError
<1>1. ASSUME closed \subseteq closed', echoed' = echoed
      PROVE  Bounced => Bounced'
  BY <1>1 DEF Bounced
<1>2. CASE Construct
  BY <1>2, <1>1 DEF Construct, StartReceive, Control, SetupOrder
<1>3. CASE ConstructThrows
  BY <1>3, <1>1 DEF ConstructThrows
<1>4. CASE SetReceivedCallback
  BY <1>4, <1>1 DEF SetReceivedCallback
<1>5. CASE StartThread
  BY <1>5, <1>1 DEF StartThread
<1>6. ASSUME NEW d \in Datagrams, PeerSend(d)
      PROVE  ErrorsRecorded'
  BY <1>6, <1>1 DEF PeerSend
<1>7. ASSUME NEW p \in Peers, PeerClose(p)
      PROVE  ErrorsRecorded'
  BY <1>7, <1>1 DEF PeerClose
<1>8. CASE KernelDelivers
  BY <1>8, <1>1 DEF KernelDelivers
<1>9. CASE KernelRefuses
  BY <1>9, <1>1 DEF KernelRefuses
<1>10. CASE Run
  <2>1. io' = "waiting"
    BY <1>10 DEF Run, Control, OneReceive, WorkCount, Dead
  <2>2. QED
    BY <1>10, <1>1, <2>1 DEF Run
<1>11. CASE HandleReceive
  BY <1>11, <1>1 DEF HandleReceive
<1>12. CASE HandleReceiveError
  BY <1>12, <1>1 DEF HandleReceiveError
<1>13. ASSUME NEW throws \in BOOLEAN, InvokeCallback(throws)
       PROVE  ErrorsRecorded'
  BY <1>13, <1>1 DEF InvokeCallback, DeleteBuffer
<1>14. CASE Echo
  <2>1. /\ Len(echoed') = Len(echoed) + 1
        /\ echoed'[Len(echoed) + 1] = Current
        /\ \A i \in 1 .. Len(echoed) : echoed'[i] = echoed[i]
    BY <1>14, AppendProperties, CurrentType DEF Echo, Echoed, TypeOK
  <2>2. Bounced => Bounced'
    BY <1>14, <2>1, Lengths DEF Echo, Echoed, Bounced
  <2>3. mRemoteEndpoint \in closed => Bounced'
    <3>1. SUFFICES ASSUME mRemoteEndpoint \in closed
                   PROVE  Bounced'
      OBVIOUS
    <3>2. Len(echoed) + 1 \in 1 .. Len(echoed')
      BY <2>1, Lengths
    <3>3. echoed'[Len(echoed) + 1].from \in closed'
      BY <1>14, <2>1, <3>1 DEF Echo, Echoed, Current
    <3>4. QED
      BY <3>2, <3>3 DEF Bounced
  <2>4. QED
    BY <1>14, <2>2, <2>3 DEF Echo, Echoed
<1>15. CASE EchoThrows
  BY <1>15, <1>1 DEF EchoThrows
<1>16. CASE Rearm
  BY <1>16, <1>1 DEF Rearm, StartReceive
<1>17. CASE Finish
  <2>1. io' = "exited" => receiveOp = "none"
    BY <1>17 DEF Finish, Control, WorkCount, Dead
  <2>2. QED
    BY <1>17, <1>1, <2>1 DEF Finish
<1>18. CASE ReceiveFails
  BY <1>18, <1>1 DEF ReceiveFails
<1>19. CASE UNCHANGED receiverVars
  BY <1>19, <1>1 DEF receiverVars
<1>20. QED
  BY <1>2, <1>3, <1>4, <1>5, <1>6, <1>7, <1>8, <1>9, <1>10, <1>11,
     <1>12, <1>13, <1>14, <1>15, <1>16, <1>17, <1>18, <1>19
  DEF Next, Initialize, Network, Kernel, IoSteps
-----------------------------------------------------------------------------
(* The invariant and what follows from it.                                 *)

\* Nothing is posted, allocated, received or answered before Initialize.
LEMMA InitInv == ReceiverInit => ReceiverInv
<1> SUFFICES ASSUME ReceiverInit PROVE ReceiverInv
  OBVIOUS
<1>1. TypeOK
  BY InitType
<1>2. Len(handled) = 0 /\ Len(echoed) = 0
  BY EmptySeq DEF ReceiverInit
<1>3. Control
  BY DEF ReceiverInit, Control, SetupOrder, OneReceive, WorkCount,
         NoBufferLeak, Dead
<1>4. InFlight /\ BufferHolds /\ ErrorsRecorded
  BY <1>2 DEF ReceiverInit, InFlight, BufferHolds, ErrorsRecorded,
             RefusalsBounced, EndedByError, Dead
<1>5. Faithful
  BY <1>2 DEF Faithful
<1>6. QED
  BY <1>1, <1>3, <1>4, <1>5 DEF ReceiverInv

\* The account of the receive loop holds in every reachable state.
THEOREM ReceiverInvariant == SafetySpec => []ReceiverInv
<1>1. ReceiverInv /\ [Next]_receiverVars => ReceiverInv'
  <2>1. SUFFICES ASSUME ReceiverInv, [Next]_receiverVars
                 PROVE  ReceiverInv'
    OBVIOUS
  <2>2. /\ TypeOK /\ Control /\ InFlight /\ BufferHolds /\ Faithful
        /\ ErrorsRecorded
    BY <2>1 DEF ReceiverInv
  <2>3. TypeOK'
    BY <2>1, <2>2, StepType DEF Control
  <2>4. Control' /\ InFlight'
    BY <2>1, <2>2, StepControl, StepInFlight
  <2>5. BufferHolds' /\ Faithful' /\ ErrorsRecorded'
    BY <2>1, <2>2, StepBufferHolds, StepFaithful, StepErrors
  <2>6. QED
    BY <2>3, <2>4, <2>5 DEF ReceiverInv
<1>2. QED
  BY InitInv, <1>1, PTL DEF SafetySpec

\* Every variable of the receiver keeps its type in every reachable state.
THEOREM ReceiverTypeCorrect == SafetySpec => []TypeOK
<1>1. ReceiverInv => TypeOK
  BY DEF ReceiverInv
<1>2. QED
  BY <1>1, ReceiverInvariant, PTL

\* The callback and the echo see every datagram once, in arrival order,
\* unaltered but for the truncation.
THEOREM EchoIsFaithful == SafetySpec => []EchoFaithful
<1>1. ReceiverInv => EchoFaithful
  <2>1. SUFFICES ASSUME TypeOK, InFlight, Faithful
                 PROVE  EchoFaithful
    BY DEF ReceiverInv
  <2>2. Len(echoed) <= Len(handled) /\ Len(handled) <= Len(echoed) + 1
    BY <2>1, Lengths DEF InFlight
  <2>3. Len(handled) <= Len(arrivals)
    BY <2>1, Lengths DEF InFlight
  <2>4. QED
    BY <2>1, <2>2, <2>3 DEF EchoFaithful, Faithful
<1>2. QED
  BY <1>1, ReceiverInvariant, PTL

\* The IO thread is never stuck without a receive and never leaves one behind.
THEOREM ReceiveNeverStranded == SafetySpec => []NoStrandedReceive
<1>1. ReceiverInv => NoStrandedReceive
  BY DEF ReceiverInv, Control, OneReceive, NoStrandedReceive
<1>2. QED
  BY <1>1, ReceiverInvariant, PTL

\* Every temporary buffer is deleted exactly once, before the next is made.
THEOREM BufferNeverLeaks == SafetySpec => []NoBufferLeak
<1>1. ReceiverInv => NoBufferLeak
  BY DEF ReceiverInv, Control
<1>2. QED
  BY <1>1, ReceiverInvariant, PTL

\* No datagram, however early, finds the callback missing.
THEOREM CallbackIsInstalled == SafetySpec => []CallbackInstalled
<1>1. ReceiverInv => CallbackInstalled
  BY DEF ReceiverInv, Control, SetupOrder, CallbackInstalled
<1>2. QED
  BY <1>1, ReceiverInvariant, PTL

\* Reception ends without the process after a receive error only, and after a
\* refusal only where a closed port was answered.
THEOREM ReceptionEndsByError == SafetySpec => []ExitsOnlyAfterError
<1>1. ReceiverInv => ExitsOnlyAfterError
  <2>1. TypeOK => lastError \in {"none", "refused", "failed"}
    BY DEF TypeOK, Errors
  <2>2. QED
    BY <2>1 DEF ReceiverInv, ErrorsRecorded, RefusalsBounced, EndedByError,
                Bounced, ExitsOnlyAfterError
<1>2. QED
  BY <1>1, ReceiverInvariant, PTL
-----------------------------------------------------------------------------
(* Refinement: the safety part of EchoService.                             *)

\* The receive loop implements the safety of the echo service: every step of
\* the loop is an arrival, the next answer, the end of the service, or
\* invisible to the peers.
THEOREM ImplementsEchoSafety == SafetySpec => Service!SafetySpec
<1> USE DEF workVars, bufferVars, kernelVars, history
<1>1. ReceiverInit => Service!Init
  BY DEF ReceiverInit, Service!Init, ServiceUp, Alive, Dead
<1>2. ReceiverInv /\ [Next]_receiverVars => [Service!Next]_(Service!serviceVars)
  <2>1. SUFFICES ASSUME ReceiverInv, [Next]_receiverVars
                 PROVE  [Service!Next]_(Service!serviceVars)
    OBVIOUS
  <2>2. /\ TypeOK /\ Control /\ InFlight /\ BufferHolds
    BY <2>1 DEF ReceiverInv
  <2>3. ASSUME UNCHANGED <<arrivals, echoed, io, setup>>
        PROVE  UNCHANGED Service!serviceVars
    BY <2>3 DEF Service!serviceVars, ServiceUp, Alive
  <2>4. ASSUME UNCHANGED <<arrivals, echoed>>, ServiceUp, ~ServiceUp'
        PROVE  Service!Next
    BY <2>4 DEF Service!Next, Service!Die
  <2>5. ASSUME UNCHANGED <<arrivals, echoed>>, ServiceUp, ServiceUp'
        PROVE  UNCHANGED Service!serviceVars
    <3>1. ServiceUp = TRUE /\ ServiceUp' = TRUE
      BY <2>5 DEF ServiceUp
    <3>2. QED
      BY <2>5, <3>1 DEF Service!serviceVars
  <2>6. ASSUME io \in {"unstarted", "starting", "waiting", "callback", "echo",
                       "rearm", "finish"}, setup # "failed"
        PROVE  ServiceUp
    BY <2>6 DEF ServiceUp, Alive, Dead
  <2>7. CASE Construct
    BY <2>2, <2>5, <2>6, <2>7 DEF Construct, StartReceive, Control, SetupOrder,
       ServiceUp, Alive
  <2>8. CASE ConstructThrows
    BY <2>2, <2>4, <2>6, <2>8 DEF ConstructThrows, ServiceUp, Control,
       SetupOrder
  <2>9. CASE SetReceivedCallback
    BY <2>2, <2>5, <2>6, <2>9 DEF SetReceivedCallback, ServiceUp, Control,
       SetupOrder, Alive
  <2>10. CASE StartThread
    BY <2>2, <2>5, <2>6, <2>10 DEF StartThread, ServiceUp, Control, SetupOrder,
       Alive, Dead
  <2>11. ASSUME NEW d \in Datagrams, PeerSend(d)
         PROVE  Service!Next
    BY <2>11 DEF PeerSend, Service!Next, Service!Ask, Datagrams,
       Service!Datagrams, ServiceUp, Alive
  <2>12. CASE Echo
    <3>1. /\ Len(echoed) < Len(arrivals)
          /\ Current = Received(arrivals[Len(echoed) + 1])
      BY <2>2, <2>12, Lengths DEF Echo, Echoed, InFlight, BufferHolds, Control,
         OneReceive
    <3>2. setup # "failed"
      BY <2>2, <2>12 DEF Echo, Echoed, Control, SetupOrder
    <3>3. ServiceUp /\ ServiceUp'
      BY <2>12, <3>2 DEF Echo, Echoed, ServiceUp, Alive, Dead
    <3>4. ServiceUp' = ServiceUp
      BY <3>3 DEF ServiceUp
    <3>5. QED
      BY <2>12, <3>1, <3>3, <3>4 DEF Echo, Echoed, Service!Next, Service!Answer,
         Service!Reply, Received
  <2>13. CASE Run
    BY <2>2, <2>5, <2>6, <2>13 DEF Run, Control, SetupOrder, OneReceive,
       WorkCount, ServiceUp, Alive, Dead
  <2>14. CASE HandleReceive \/ HandleReceiveError
    BY <2>2, <2>5, <2>6, <2>14 DEF HandleReceive, HandleReceiveError, Control,
       SetupOrder, ServiceUp, Alive, Dead
  <2>15. ASSUME NEW throws \in BOOLEAN, InvokeCallback(throws)
         PROVE  [Service!Next]_(Service!serviceVars)
    <3>1. /\ UNCHANGED <<arrivals, echoed, setup>> /\ setup # "failed"
          /\ io = "callback" /\ io' \in {"callbackThrew", "echo"}
      BY <2>2, <2>15 DEF InvokeCallback, DeleteBuffer, Control, SetupOrder
    <3>2. ServiceUp
      BY <2>6, <3>1
    <3>3. QED
      BY <2>4, <2>5, <3>1, <3>2
  <2>16. CASE EchoThrows
    BY <2>2, <2>4, <2>6, <2>16 DEF EchoThrows, Control, SetupOrder, ServiceUp,
       Alive, Dead
  <2>17. CASE Rearm
    BY <2>2, <2>5, <2>6, <2>17 DEF Rearm, StartReceive, Control, SetupOrder,
       ServiceUp, Alive, Dead
  <2>18. CASE Finish
    <3>1. /\ UNCHANGED <<arrivals, echoed, setup>> /\ setup # "failed"
          /\ io = "finish" /\ io' \in {"exited", "waiting"}
      BY <2>2, <2>18 DEF Finish, Control, SetupOrder
    <3>2. ServiceUp
      BY <2>6, <3>1
    <3>3. QED
      BY <2>4, <2>5, <3>1, <3>2
  <2>19. ASSUME NEW p \in Peers, PeerClose(p)
         PROVE  UNCHANGED Service!serviceVars
    BY <2>3, <2>19 DEF PeerClose
  <2>20. CASE Kernel \/ ReceiveFails
    BY <2>3, <2>20 DEF Kernel, KernelDelivers, KernelRefuses, ReceiveFails
  <2>21. CASE UNCHANGED receiverVars
    BY <2>3, <2>21 DEF receiverVars
  <2>22. QED
    BY <2>1, <2>7, <2>8, <2>9, <2>10, <2>11, <2>12, <2>13, <2>14, <2>15,
       <2>16, <2>17, <2>18, <2>19, <2>20, <2>21
    DEF Next, Initialize, Network, IoSteps
<1>3. QED
  BY <1>1, <1>2, ReceiverInvariant, PTL DEF SafetySpec, Service!SafetySpec
-----------------------------------------------------------------------------
(* Answers on their way.  The liveness part of EchoService says that every *)
(* datagram is answered while the service is up; here is what it rests on: *)
(* each step of the simulation thread, the kernel or the IO thread brings  *)
(* the answer nearer, and one of them can always take the next.            *)

\* Datagram i reached the port and is still to be answered.
Awaited(i) == ServiceUp /\ Len(echoed) < i /\ i <= Len(arrivals)

\* The steps before the next answer: what Initialize and the kernel have left
\* to do, and the IO thread, which after an answer re-arms and waits first.
ToAnswer(s, t, op) ==
    (CASE s = "constructed" -> 2 [] s = "callbackSet" -> 1 [] OTHER -> 0)
    + (IF op = "posted" THEN 1 ELSE 0)
    + (CASE t \in {"unstarted", "starting"} -> 4
         [] t = "waiting"  -> 3
         [] t = "callback" -> 2
         [] t = "echo"     -> 1
         [] t = "rearm"    -> 6
         [] t = "finish"   -> IF op = "none" THEN 1 ELSE 4
         [] OTHER          -> 0)

\* ... and before the answer to datagram i, six for each one before it.
ToEcho(i) == 6 * (i - Len(echoed) - 1) + ToAnswer(setup, io, receiveOp)

\* A step answers i, or ends the service, or leaves less to do for i; or it
\* is one of the peers, and leaves as much.
EchoComesNearer(i) ==
    Awaited(i) =>
      \/ i <= Len(echoed') \/ ~ServiceUp'
      \/ ToEcho(i)' < ToEcho(i)
      \/ ToEcho(i)' = ToEcho(i) /\ UNCHANGED <<setup, io, receiveOp>>

\* While i is awaited there is somebody to act: Initialize is under way, or
\* the IO thread is inside a handler, or has a completion to handle, or else
\* the kernel has a datagram to complete the receive with.
SomebodyActs ==
    \/ setup \in {"constructed", "callbackSet"}
    \/ io \in {"starting", "callback", "echo", "rearm", "finish"}
    \/ io = "waiting" /\ receiveOp \in {"received"} \cup Errors
    \/ io = "waiting" /\ receiveOp = "posted" /\ delivered < Len(arrivals)

\* Where a service that is up and has something to answer can be.
LEMMA Serving ==
    ASSUME ReceiverInv, NEW i \in Nat, Awaited(i)
    PROVE  /\ setup \in {"constructed", "callbackSet", "detached"}
           /\ setup = "detached" <=> io # "unstarted"
           /\ io \in {"unstarted", "starting", "waiting", "callback", "echo",
                      "rearm", "finish"}
           /\ receiveOp \in {"none", "posted", "received"} \cup Errors
           /\ Len(echoed) \in Nat /\ Len(arrivals) \in Nat
<1>1. Len(echoed) \in Nat /\ Len(arrivals) \in Nat
  BY Lengths DEF ReceiverInv
<1>2. arrivals # <<>>
  BY <1>1, EmptySeq DEF Awaited
<1>3. QED
  BY <1>1, <1>2 DEF Awaited, ServiceUp, Alive, Dead, ReceiverInv, TypeOK, Control,
     SetupOrder

\* What is left to do for an awaited datagram is positive, at most seven steps
\* for the next one and six more for each one before.
LEMMA ToEchoBounds ==
    ASSUME ReceiverInv, NEW i \in Nat, Awaited(i)
    PROVE  /\ ToAnswer(setup, io, receiveOp) \in 1 .. 7
           /\ ToEcho(i) \in 1 .. 6 * (i - Len(echoed)) + 1
<1>1. ToAnswer(setup, io, receiveOp) \in 1 .. 7
  BY Serving DEF ToAnswer
<1>2. i - Len(echoed) - 1 \in Nat
  BY Serving DEF Awaited
<1>3. ASSUME NEW a \in 1 .. 7, NEW d \in Int, d - 1 \in Nat
      PROVE  6 * (d - 1) + a \in 1 .. 6 * d + 1
  BY <1>3
<1>4. i - Len(echoed) \in Int
  BY Serving
<1>5. QED
  BY <1>1, <1>2, <1>3, <1>4 DEF ToEcho

\* A step that leaves the answers alone and lowers what is left for the next
\* answer lowers it for every one.
LEMMA NearerByOne ==
    ASSUME ReceiverInv, NEW i \in Nat, Awaited(i), UNCHANGED echoed,
           ToAnswer(setup, io, receiveOp)' \in Int,
           ToAnswer(setup, io, receiveOp)' < ToAnswer(setup, io, receiveOp)
    PROVE  ToEcho(i)' < ToEcho(i)
<1>1. 6 * (i - Len(echoed) - 1) \in Int
  BY Serving
<1>2. ToAnswer(setup, io, receiveOp) \in Int
  BY ToEchoBounds
<1>3. ASSUME NEW m \in Int, NEW a \in Int, NEW b \in Int, b < a
      PROVE  m + b < m + a
  BY <1>3
<1>4. QED
  BY <1>1, <1>2, <1>3 DEF ToEcho
\* Every step of the service brings each awaited answer nearer.
LEMMA StepEchoComesNearer ==
    ASSUME ReceiverInv, [Next]_receiverVars, NEW i \in Nat
    PROVE  EchoComesNearer(i)
<1> USE DEF workVars, bufferVars, kernelVars, history
<1>1. SUFFICES ASSUME Awaited(i), ~(i <= Len(echoed')), ServiceUp'
               PROVE  \/ ToEcho(i)' < ToEcho(i)
                      \/ /\ ToEcho(i)' = ToEcho(i)
                         /\ UNCHANGED <<setup, io, receiveOp>>
  BY DEF EchoComesNearer
<1> DEFINE Nearer == /\ ToAnswer(setup, io, receiveOp)' \in Int
                     /\ ToAnswer(setup, io, receiveOp)'
                          < ToAnswer(setup, io, receiveOp)
<1>2. ASSUME UNCHANGED echoed, Nearer
      PROVE  ToEcho(i)' < ToEcho(i)
  BY <1>1, <1>2, NearerByOne
<1>3. ASSUME UNCHANGED <<echoed, setup, io, receiveOp>>
      PROVE  ToEcho(i)' = ToEcho(i)
  BY <1>3 DEF ToEcho
<1>4. TypeOK /\ Control
  BY DEF ReceiverInv
<1> USE Serving, <1>1 DEF ToAnswer, Errors
<1>5. CASE Construct \/ ConstructThrows
  BY <1>5 DEF Construct, ConstructThrows
<1>6. CASE SetReceivedCallback
  <2>1. UNCHANGED echoed /\ Nearer
    BY <1>6 DEF SetReceivedCallback
  <2>2. QED
    BY <1>2, <2>1
<1>7. CASE StartThread
  <2>1. UNCHANGED echoed /\ Nearer
    BY <1>7 DEF StartThread
  <2>2. QED
    BY <1>2, <2>1
<1>8. CASE KernelDelivers \/ KernelRefuses \/ ReceiveFails
  <2>1. UNCHANGED echoed /\ Nearer
    BY <1>4, <1>8
    DEF KernelDelivers, KernelRefuses, ReceiveFails, Control, OneReceive
  <2>2. QED
    BY <1>2, <2>1
<1>9. CASE Run
  <2>1. UNCHANGED echoed /\ Nearer
    BY <1>9 DEF Run, ServiceUp
  <2>2. QED
    BY <1>2, <2>1
<1>10. CASE HandleReceive \/ HandleReceiveError
  <2>1. UNCHANGED echoed /\ Nearer
    BY <1>10 DEF HandleReceive, HandleReceiveError
  <2>2. QED
    BY <1>2, <2>1
<1>11. ASSUME NEW throws \in BOOLEAN, InvokeCallback(throws)
       PROVE  ToEcho(i)' < ToEcho(i)
  <2>1. UNCHANGED echoed /\ Nearer
    BY <1>11 DEF InvokeCallback, DeleteBuffer, ServiceUp, Alive, Dead
  <2>2. QED
    BY <1>2, <2>1
<1>12. CASE Echo
  <2>1. Len(echoed') = Len(echoed) + 1
    BY <1>4, <1>12, CurrentType, AppendProperties
    DEF Echo, Echoed, TypeOK, ReceiverInv
  <2>2. /\ ToAnswer(setup, io, receiveOp) = 1
        /\ ToAnswer(setup, io, receiveOp)' = 6
    BY <1>4, <1>12 DEF Echo, Control, OneReceive
  <2>3. ASSUME NEW m \in Int
        PROVE  6 * (i - (m + 1) - 1) + 6 < 6 * (i - m - 1) + 1
    BY <2>3
  <2>4. QED
    BY <2>1, <2>2, <2>3 DEF ToEcho
<1>13. CASE EchoThrows
  BY <1>13 DEF EchoThrows, ServiceUp, Alive, Dead
<1>14. CASE Rearm
  <2>1. UNCHANGED echoed /\ Nearer
    BY <1>4, <1>14 DEF Rearm, StartReceive, Control, OneReceive
  <2>2. QED
    BY <1>2, <2>1
<1>15. CASE Finish
  <2>1. UNCHANGED echoed /\ Nearer
    BY <1>4, <1>15 DEF Finish, ServiceUp, Control, WorkCount
  <2>2. QED
    BY <1>2, <2>1
<1>16. CASE Network \/ UNCHANGED receiverVars
  <2>1. UNCHANGED <<echoed, setup, io, receiveOp>>
    BY <1>16 DEF Network, PeerSend, PeerClose, receiverVars
  <2>2. QED
    BY <1>3, <2>1
<1>17. QED
  BY <1>5, <1>6, <1>7, <1>8, <1>9, <1>10, <1>11, <1>12, <1>13, <1>14, <1>15, <1>16
  DEF Next, Initialize, Kernel, IoSteps

\* The safety core of the liveness of EchoService: every step of the service
\* brings the answer to each datagram nearer, whatever is interleaved, until
\* it is sent or the service ends.
THEOREM EchoesComeNearer ==
    SafetySpec => [][\A i \in Nat : EchoComesNearer(i)]_receiverVars
<1>1. ReceiverInv /\ [Next]_receiverVars => \A i \in Nat : EchoComesNearer(i)
  BY StepEchoComesNearer
<1>2. QED
  BY <1>1, ReceiverInvariant, PTL DEF SafetySpec

\* What is left to do for an answer is positive and bounded by the datagrams
\* before it.
THEOREM EchoesAreNear ==
    SafetySpec => [](\A i \in Nat : Awaited(i) =>
                       ToEcho(i) \in 1 .. 6 * (i - Len(echoed)) + 1)
<1>1. ReceiverInv => \A i \in Nat : Awaited(i) =>
                       ToEcho(i) \in 1 .. 6 * (i - Len(echoed)) + 1
  BY ToEchoBounds
<1>2. QED
  BY <1>1, ReceiverInvariant, PTL

\* Nobody waits for nothing: as long as an answer is awaited, the simulation
\* thread, the IO thread or the kernel has its next step before it.
THEOREM AnswersAreUnderWay ==
    SafetySpec => [](\A i \in Nat : Awaited(i) => SomebodyActs)
<1>1. ASSUME ReceiverInv, NEW i \in Nat, Awaited(i)
      PROVE  SomebodyActs
  <2>1. CASE io = "waiting" /\ receiveOp = "posted"
    <3>1. delivered = Len(echoed)
      BY <1>1, <2>1 DEF ReceiverInv, InFlight, Dead
    <3>2. delivered < Len(arrivals)
      BY <1>1, <3>1, Serving DEF Awaited
    <3>3. QED
      BY <2>1, <3>2 DEF SomebodyActs
  <2>2. CASE io = "waiting" /\ receiveOp # "posted"
    BY <1>1, <2>2, Serving DEF ReceiverInv, Control, OneReceive, SomebodyActs
  <2>3. CASE io # "waiting"
    BY <1>1, <2>3, Serving DEF SomebodyActs
  <2>4. QED
    BY <2>1, <2>2, <2>3
<1>2. ReceiverInv => \A i \in Nat : Awaited(i) => SomebodyActs
  BY <1>1
<1>3. QED
  BY <1>2, ReceiverInvariant, PTL
-----------------------------------------------------------------------------
(* Receive errors.                                                         *)

\* HandleReceive was called with an error and did not receive again.
ReceptionEnded == receiveOp = "none" /\ io \in {"finish", "exited"}

\* Contrary to the comment in its error branch, reception never restarts after
\* a receive error: for any instance and from then on nothing is delivered,
\* handled or answered, while peers may go on sending.
THEOREM ErrorEndsReception ==
    SafetySpec =>
      [][ReceptionEnded => /\ ReceptionEnded'
                           /\ UNCHANGED <<delivered, handled, echoed>>]_receiverVars
<1> USE DEF workVars, bufferVars, kernelVars, history, ReceptionEnded
<1>1. ASSUME ReceiverInv, [Next]_receiverVars, ReceptionEnded
      PROVE  ReceptionEnded' /\ UNCHANGED <<delivered, handled, echoed>>
  <2>1. setup = "detached" /\ outstanding_work \in {0, 1}
        /\ (io = "finish" => outstanding_work = 1)
    BY <1>1 DEF ReceiverInv, Control, SetupOrder, WorkCount, Dead
  <2>2. CASE Initialize \/ Network \/ Kernel \/ ReceiveFails
    BY <1>1, <2>1, <2>2 DEF Initialize, Construct, ConstructThrows,
       SetReceivedCallback, StartThread, Network, PeerSend, PeerClose, Kernel,
       KernelDelivers, KernelRefuses, ReceiveFails
  <2>3. CASE IoSteps
    BY <1>1, <2>1, <2>3 DEF IoSteps, Run, HandleReceive, HandleReceiveError, Errors,
       Echo, EchoThrows, Rearm, Finish
  <2>4. ASSUME NEW throws \in BOOLEAN, InvokeCallback(throws)
        PROVE  FALSE
    BY <1>1, <2>4 DEF InvokeCallback
  <2>5. CASE UNCHANGED receiverVars
    BY <1>1, <2>5 DEF receiverVars
  <2>6. QED
    BY <1>1, <2>2, <2>3, <2>4, <2>5 DEF Next
<1>2. QED
  BY <1>1, ReceiverInvariant, PTL DEF SafetySpec
=============================================================================
