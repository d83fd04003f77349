------------------------- MODULE UdpUnicastReceiver -------------------------
(***************************************************************************)
(* The asynchronous receive loop of UdpUnicastReceiver on its io_context,  *)
(* as OnboardComputer::Initialize sets it up: the simulation thread        *)
(* constructs the receiver, installs the callback and starts the IO        *)
(* thread; the kernel completes the posted receive; the IO thread runs     *)
(* HandleReceive step by step (copy, callback, echo, re-arm).  A datagram  *)
(* body is a sequence of chunks of which BUFFER_SIZE fit mRecvbuffer.      *)
(***************************************************************************)
EXTENDS Sequences, Naturals

CONSTANTS Peers,       \* remote endpoints
          NoEndpoint,  \* mRemoteEndpoint before the first datagram
          Chunks,      \* what a body is made of
          Bodies,      \* the bodies the peers send
          BUFFER_SIZE, \* chunks that fit mRecvbuffer
          MaxSent      \* bound: datagrams sent in a behaviour

ASSUME ReceiverAssumption ==
    /\ Bodies \subseteq Seq(Chunks)
    /\ BUFFER_SIZE \in Nat
    /\ NoEndpoint \notin Peers
    /\ MaxSent \in Nat

VARIABLES
    setup,            \* how far OnboardComputer::Initialize got
    io,               \* where the IO thread is
    receiveOp,        \* the asynchronous receive: posted, or completed
    outstanding_work, \* the io_context's count of unfinished operations
    mReceivedCallback,\* TRUE once the std::function holds a target
    mRecvbuffer, mRemoteEndpoint,
    liveBuffers,      \* temporary buffers allocated and not yet deleted
    closed,           \* peers that closed their port
    portUnreachable,  \* an ICMP port-unreachable is pending on the socket
    arrivals,         \* history: datagrams queued on the port
    delivered,        \* how many of them the kernel handed to a receive
    handled,          \* history: datagrams given to the callback
    echoed,           \* history: datagrams sent back
    lastError         \* history: the receive error HandleReceive printed

kernelVars == <<closed, portUnreachable, arrivals, delivered>>
bufferVars == <<mRecvbuffer, mRemoteEndpoint>>
workVars   == <<receiveOp, outstanding_work>>
history    == <<handled, echoed, lastError>>
receiverVars == <<setup, io, receiveOp, outstanding_work, mReceivedCallback,
                  mRecvbuffer, mRemoteEndpoint, liveBuffers, closed,
                  portUnreachable, arrivals, delivered, handled, echoed,
                  lastError>>

Datagrams == [from : Peers, body : Bodies]

\* What an overlapped receive leaves of a body: the excess of an oversize
\* datagram is dropped and the truncation is not reported as an error.
Fit(body) == IF Len(body) > BUFFER_SIZE THEN SubSeq(body, 1, BUFFER_SIZE)
                                        ELSE body

Received(d) == [from |-> d.from, body |-> Fit(d.body)]

\* The datagram mRecvbuffer and mRemoteEndpoint hold.
Current == [from |-> mRemoteEndpoint, body |-> mRecvbuffer]

\* Errors a receive completes with: connection_refused after a port-unreachable,
\* or any other, such as connection_reset or what WSARecvFrom itself returns.
Errors == {"refused", "failed"}

\* An exception left the callback, or left send_to: it unwinds through
\* io_context.run and the thread's lambda, and the process terminates.
Dead == {"callbackThrew", "sendThrew"}
Alive == io \notin Dead

ReceiverInit ==
    /\ setup = "none" /\ io = "unstarted"
    /\ receiveOp = "none" /\ outstanding_work = 0
    /\ mReceivedCallback = FALSE
    /\ mRecvbuffer = <<>> /\ mRemoteEndpoint = NoEndpoint
    /\ liveBuffers = 0
    /\ closed = {} /\ portUnreachable = FALSE
    /\ arrivals = <<>> /\ delivered = 0
    /\ handled = <<>> /\ echoed = <<>> /\ lastError = "none"
-----------------------------------------------------------------------------
(* OnboardComputer::Initialize, on the simulation thread.                  *)

\* Mutant: the posted operation is not counted as work.
StartReceiveUncounted ==
    /\ mRecvbuffer' = <<>>
    /\ receiveOp' \in {"posted", "failed"}
    /\ UNCHANGED outstanding_work

\* Clear the buffer and start one asynchronous receive on it.  An error of
\* WSARecvFrom completes the receive at once; a refusal at once is a posted
\* receive that KernelRefuses next.
StartReceive ==
    /\ mRecvbuffer' = <<>>
    /\ receiveOp' \in {"posted", "failed"}
    /\ outstanding_work' = outstanding_work + 1

Construct ==
    /\ setup = "none" /\ Alive
    /\ setup' = "constructed"
    /\ StartReceive
    /\ UNCHANGED <<io, mReceivedCallback, mRemoteEndpoint, liveBuffers,
                   kernelVars, history>>

\* Binding the port fails: the constructor throws out of Initialize.
ConstructThrows ==
    /\ setup = "none" /\ Alive
    /\ setup' = "failed"
    /\ UNCHANGED <<io, workVars, mReceivedCallback, bufferVars, liveBuffers,
                   kernelVars, history>>

SetReceivedCallback ==
    /\ setup = "constructed" /\ Alive
    /\ setup' = "callbackSet"
    /\ mReceivedCallback' = TRUE
    /\ UNCHANGED <<io, workVars, bufferVars, liveBuffers, kernelVars, history>>

\* Mutant: the thread is started before the callback is installed.
StartThreadEarly ==
    /\ setup = "constructed" /\ Alive
    /\ setup' = "detached"
    /\ io' = "starting"
    /\ UNCHANGED <<workVars, mReceivedCallback, bufferVars, liveBuffers,
                   kernelVars, history>>

StartThread ==
    /\ setup = "callbackSet" /\ Alive
    /\ setup' = "detached"
    /\ io' = "starting"
    /\ UNCHANGED <<workVars, mReceivedCallback, bufferVars, liveBuffers,
                   kernelVars, history>>
-----------------------------------------------------------------------------
(* The network and the kernel.                                             *)

PeerSend(d) ==
    /\ setup \notin {"none", "failed"} /\ Alive
    /\ Len(arrivals) < MaxSent
    /\ d.from \notin closed
    /\ arrivals' = Append(arrivals, d)
    /\ UNCHANGED <<setup, io, workVars, mReceivedCallback, bufferVars,
                   liveBuffers, closed, portUnreachable, delivered, history>>

PeerClose(p) ==
    /\ p \notin closed /\ Alive
    /\ closed' = closed \cup {p}
    /\ UNCHANGED <<setup, io, workVars, mReceivedCallback, bufferVars,
                   liveBuffers, portUnreachable, arrivals, delivered, history>>

KernelDelivers ==
    /\ receiveOp = "posted" /\ Alive
    /\ delivered < Len(arrivals)
    /\ LET d == Received(arrivals[delivered + 1])
       IN  mRecvbuffer' = d.body /\ mRemoteEndpoint' = d.from
    /\ delivered' = delivered + 1
    /\ receiveOp' = "received"
    /\ UNCHANGED <<setup, io, outstanding_work, mReceivedCallback, liveBuffers,
                   closed, portUnreachable, arrivals, history>>

\* A pending port-unreachable completes the receive with connection_refused.
KernelRefuses ==
    /\ receiveOp = "posted" /\ Alive
    /\ portUnreachable
    /\ portUnreachable' = FALSE
    /\ receiveOp' = "refused"
    /\ UNCHANGED <<setup, io, outstanding_work, mReceivedCallback, bufferVars,
                   liveBuffers, closed, arrivals, delivered, history>>

\* The posted receive fails for another reason, whatever the peers did:
\* connection_reset, operation_aborted or an error that is not mapped.
ReceiveFails ==
    /\ receiveOp = "posted" /\ Alive
    /\ receiveOp' = "failed"
    /\ UNCHANGED <<setup, io, outstanding_work, mReceivedCallback, bufferVars,
                   liveBuffers, kernelVars, history>>
-----------------------------------------------------------------------------
(* The IO thread: io_context.run and the completion handler.               *)

\* run returns at once when no operation is outstanding.
Run ==
    /\ io = "starting"
    /\ io' = IF outstanding_work = 0 THEN "exited" ELSE "waiting"
    /\ UNCHANGED <<setup, workVars, mReceivedCallback, bufferVars, liveBuffers,
                   kernelVars, history>>

\* HandleReceive without error: the bytes are copied to a new buffer.
HandleReceive ==
    /\ io = "waiting" /\ receiveOp = "received"
    /\ receiveOp' = "none"
    /\ liveBuffers' = liveBuffers + 1
    /\ io' = "callback"
    /\ UNCHANGED <<setup, outstanding_work, mReceivedCallback, bufferVars,
                   kernelVars, history>>

\* HandleReceive with an error only prints it, whichever it is.
HandleReceiveError ==
    /\ io = "waiting" /\ receiveOp \in Errors
    /\ receiveOp' = "none"
    /\ lastError' = receiveOp
    /\ io' = "finish"
    /\ UNCHANGED <<setup, outstanding_work, mReceivedCallback, bufferVars,
                   liveBuffers, kernelVars, handled, echoed>>

\* Mutant: both the callback and HandleReceive delete the buffer.
DeleteBufferTwice == liveBuffers' = liveBuffers - 2

\* Mutant: nobody deletes the buffer.
KeepBuffer == UNCHANGED liveBuffers

\* The callback owns the buffer it is given.
DeleteBuffer == liveBuffers' = liveBuffers - 1

\* Mutant: the receive is re-armed before the echo.
InvokeCallbackThenRearm(throws) ==
    /\ io = "callback"
    /\ DeleteBuffer
    /\ handled' = Append(handled, Current)
    /\ io' = IF throws THEN "callbackThrew" ELSE "echo"
    /\ StartReceive
    /\ UNCHANGED <<setup, mReceivedCallback, mRemoteEndpoint, kernelVars,
                   echoed, lastError>>

\* The callback takes ownership of the buffer, copies and deletes it, then
\* processes the message, which may throw.  Calling an empty std::function
\* throws too, and then nobody deletes the buffer.
InvokeCallback(throws) ==
    /\ io = "callback"
    /\ IF mReceivedCallback
         THEN /\ DeleteBuffer
              /\ handled' = Append(handled, Current)
              /\ io' = IF throws THEN "callbackThrew" ELSE "echo"
         ELSE /\ io' = "callbackThrew"
              /\ UNCHANGED <<liveBuffers, handled>>
    /\ UNCHANGED <<setup, workVars, mReceivedCallback, bufferVars, kernelVars,
                   echoed, lastError>>

\* Mutant: an empty datagram is not echoed.
EchoedNonEmpty == IF mRecvbuffer = <<>> THEN echoed ELSE Append(echoed, Current)

Echoed == Append(echoed, Current)

\* Echoing to a peer that closed its port provokes a port-unreachable.
Echo ==
    /\ io = "echo"
    /\ echoed' = Echoed
    /\ portUnreachable' = (portUnreachable \/ mRemoteEndpoint \in closed)
    /\ io' = "rearm"
    /\ UNCHANGED <<setup, workVars, mReceivedCallback, bufferVars, liveBuffers,
                   closed, arrivals, delivered, handled, lastError>>

EchoThrows ==
    /\ io = "echo"
    /\ io' = "sendThrew"
    /\ UNCHANGED <<setup, workVars, mReceivedCallback, bufferVars, liveBuffers,
                   kernelVars, history>>

\* Mutant: the one-shot receive is not started again.
RearmForgotten ==
    /\ io = "rearm"
    /\ io' = "finish"
    /\ UNCHANGED <<setup, workVars, mReceivedCallback, bufferVars, liveBuffers,
                   kernelVars, history>>

Rearm ==
    /\ io = "rearm"
    /\ StartReceive
    /\ io' = "finish"
    /\ UNCHANGED <<setup, mReceivedCallback, mRemoteEndpoint, liveBuffers,
                   kernelVars, history>>

\* The handler returned: work_finished stops the io_context at zero.
Finish ==
    /\ io = "finish"
    /\ outstanding_work' = outstanding_work - 1
    /\ io' = IF outstanding_work = 1 THEN "exited" ELSE "waiting"
    /\ UNCHANGED <<setup, receiveOp, mReceivedCallback, bufferVars, liveBuffers,
                   kernelVars, history>>
-----------------------------------------------------------------------------
Initialize == Construct \/ ConstructThrows \/ SetReceivedCallback \/ StartThread

Network == \/ \E d \in Datagrams : PeerSend(d)
           \/ \E p \in Peers : PeerClose(p)

Kernel == KernelDelivers \/ KernelRefuses

\* The steps of the IO thread other than the callback itself.
IoSteps == \/ Run \/ HandleReceive \/ HandleReceiveError
           \/ Echo \/ EchoThrows \/ Rearm \/ Finish

Next == \/ Initialize \/ Network \/ Kernel \/ ReceiveFails \/ IoSteps
        \/ \E throws \in BOOLEAN : InvokeCallback(throws)

IoThread == IoSteps \/ \E throws \in BOOLEAN : InvokeCallback(throws)

\* The simulation thread finishes Initialize, the kernel completes a posted
\* receive that has a datagram or a refusal to complete with, and the IO thread
\* is scheduled.  Peers owe nothing, and no receive has to fail.
SafetySpec == ReceiverInit /\ [][Next]_receiverVars
Spec == /\ SafetySpec
        /\ WF_receiverVars(Initialize)
        /\ WF_receiverVars(Kernel)
        /\ WF_receiverVars(IoThread)
-----------------------------------------------------------------------------
TypeOK ==
    /\ setup \in {"none", "constructed", "callbackSet", "detached", "failed"}
    /\ io \in {"unstarted", "starting", "waiting", "callback", "echo", "rearm",
               "finish", "exited"} \cup Dead
    /\ receiveOp \in {"none", "posted", "received"} \cup Errors
    /\ outstanding_work \in Nat
    /\ mReceivedCallback \in BOOLEAN
    /\ mRecvbuffer \in Seq(Chunks)
    /\ mRemoteEndpoint \in Peers \cup {NoEndpoint}
    /\ liveBuffers \in Nat
    /\ closed \subseteq Peers
    /\ portUnreachable \in BOOLEAN
    /\ arrivals \in Seq(Datagrams) /\ Len(arrivals) <= MaxSent
    /\ delivered \in 0 .. Len(arrivals)
    /\ handled \in Seq([from : Peers, body : Seq(Chunks)])
    /\ echoed \in Seq([from : Peers, body : Seq(Chunks)])
    /\ lastError \in {"none"} \cup Errors

\* The callback and the echo see every datagram exactly once, in arrival
\* order and unaltered but for the truncation, the callback always before the
\* echo: nothing overwrites mRecvbuffer or mRemoteEndpoint while
\* HandleReceive still reads them.
EchoFaithful ==
    /\ Len(echoed) <= Len(handled) /\ Len(handled) <= Len(echoed) + 1
    /\ Len(handled) <= Len(arrivals)
    /\ \A i \in 1 .. Len(handled) : handled[i] = Received(arrivals[i])
    /\ \A i \in 1 .. Len(echoed) : echoed[i] = Received(arrivals[i])

\* The IO thread never blocks in run with nothing to complete, and never
\* leaves run while a receive is still posted on the socket.
NoStrandedReceive ==
    /\ io = "waiting" => receiveOp # "none"
    /\ io = "exited" => receiveOp = "none"

\* The buffer allocated for the callback is deleted exactly once: outside the
\* callback none is live, whatever the number of datagrams so far.
NoBufferLeak == liveBuffers = IF io = "callback" THEN 1 ELSE 0

\* No datagram finds the callback empty, however early it arrives.
CallbackInstalled == io = "callback" => mReceivedCallback

\* Reception never ends of itself while the process lives: the IO thread leaves
\* run only after a receive error.  Where that was a refusal, some peer brought
\* it about that was answered and had closed its port; the other errors are the
\* network's, and end reception for all peers just as well.
ExitsOnlyAfterError ==
    io = "exited" =>
      \/ lastError = "failed"
      \/ /\ lastError = "refused"
         /\ \E i \in 1 .. Len(echoed) : echoed[i].from \in closed

\* The receive loop implements the echo service, liveness included.
ServiceUp == Alive /\ io # "exited" /\ setup # "failed"
Service == INSTANCE EchoService WITH
             asked <- arrivals, answered <- echoed, up <- ServiceUp
ImplementsEchoService == Service!Spec

\* The comment in the error branch of HandleReceive says that reception is
\* restarted after a receive error.
ReceptionRestarts == (io = "finish" /\ receiveOp = "none") ~> (receiveOp = "posted")
=============================================================================
