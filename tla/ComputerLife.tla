---------------------------- MODULE ComputerLife ----------------------------
(***************************************************************************)
(* The life of the onboard computers of a process: the plugin registers    *)
(* its extension, every simulation gets a computer, and destroying it      *)
(* destroys its io_context under an IO thread that is detached and never   *)
(* joined.  The simulation thread and the IO thread of each computer meet  *)
(* in the completion queue of the io_context.  What HandleReceive does     *)
(* with a datagram is in UdpUnicastReceiver.                               *)
(***************************************************************************)
EXTENDS Integers, Sequences

CONSTANTS Computers,  \* the computers of the simulations of the process
          Free,       \* the port is bound by nobody
          Other       \* ... by another process

ASSUME LifeAssumption == Free \notin Computers /\ Other \notin Computers
                         /\ Free # Other

VARIABLES
    registered,   \* the application has the extension
    port,         \* who has bound port 8885
    computer,     \* computer -> where its life is
    mCallbacks,   \* computer -> its observer is connected
    receiveOp,    \* computer -> its receive: none, posted, or aborting
    queue,        \* computer -> its completion queue
    outstanding_work, stopped, stop_event_posted, \* of its io_context
    thread,       \* computer -> where its IO thread is
    terminated    \* an exception left the IO thread: the process is gone

contextVars == <<receiveOp, queue, outstanding_work, stopped, stop_event_posted>>
lifeVars == <<registered, port, computer, mCallbacks, contextVars, thread,
              terminated>>

LifeInit ==
    /\ registered = FALSE /\ port = Free /\ terminated = FALSE
    /\ computer = [c \in Computers |-> "none"]
    /\ mCallbacks = [c \in Computers |-> FALSE]
    /\ receiveOp = [c \in Computers |-> "none"]
    /\ queue = [c \in Computers |-> <<>>]
    /\ outstanding_work = [c \in Computers |-> 0]
    /\ stopped = [c \in Computers |-> FALSE]
    /\ stop_event_posted = [c \in Computers |-> FALSE]
    /\ thread = [c \in Computers |-> "none"]

Becomes(c, state) == computer' = [computer EXCEPT ![c] = state]
Goto(c, step) == thread' = [thread EXCEPT ![c] = step]
Enqueue(c, packet) == queue' = [queue EXCEPT ![c] = Append(@, packet)]
Dequeue(c) == queue' = [queue EXCEPT ![c] = Tail(@)]
AddWork(c) == outstanding_work' = [outstanding_work EXCEPT ![c] = @ + 1]
EndWork(c) == outstanding_work' = [outstanding_work EXCEPT ![c] = @ - 1]

SocketOpen(c) == port = c

\* WSARecvFrom: the receive pends, or fails and completes through the queue.
Posted(c) == /\ receiveOp' = [receiveOp EXCEPT ![c] = "posted"]
             /\ UNCHANGED queue
FailsAtOnce(c) == Enqueue(c, "error") /\ UNCHANGED receiveOp

\* The operations among the packets of a queue.
Operations(packets) == {k \in DOMAIN packets : packets[k] # "stop"}

\* The receive is posted, being aborted, or completed and not yet taken.
Receiving(c) == receiveOp[c] # "none" \/ Operations(queue[c]) # {}
-----------------------------------------------------------------------------
(* The plugin and the life of a computer, on the simulation thread.        *)

WsfPluginSetup ==
    /\ ~registered /\ ~terminated
    /\ registered' = TRUE
    /\ UNCHANGED <<port, computer, mCallbacks, contextVars, thread, terminated>>

\* A copy of the prototype; the framework runs one simulation at a time.
SimulationCreated(c) ==
    /\ registered /\ ~terminated
    /\ computer[c] = "none"
    /\ \A d \in Computers : computer[d] \in {"none", "destroyed"}
    /\ Becomes(c, "created")
    /\ UNCHANGED <<registered, port, mCallbacks, contextVars, thread, terminated>>

\* Initialize: the receiver binds the port and starts its first receive.  No
\* other thread uses the io_context yet: this posting cannot be overtaken.
Construct(c) ==
    /\ computer[c] = "created" /\ ~terminated
    /\ port = Free
    /\ port' = c
    /\ Posted(c) \/ FailsAtOnce(c)
    /\ AddWork(c)
    /\ Becomes(c, "constructed")
    /\ UNCHANGED <<registered, mCallbacks, stopped, stop_event_posted, thread,
                   terminated>>

\* The bind throws out of Initialize.
ConstructThrows(c) ==
    /\ computer[c] = "created" /\ ~terminated
    /\ port # Free
    /\ Becomes(c, "failed")
    /\ UNCHANGED <<registered, port, mCallbacks, contextVars, thread, terminated>>

StartThread(c) ==
    /\ computer[c] = "constructed" /\ ~terminated
    /\ Goto(c, "starting")
    /\ Becomes(c, "detached")
    /\ UNCHANGED <<registered, port, mCallbacks, contextVars, terminated>>

ConnectObserver(c) ==
    /\ computer[c] = "detached" /\ ~terminated
    /\ mCallbacks' = [mCallbacks EXCEPT ![c] = TRUE]
    /\ Becomes(c, "initialized")
    /\ UNCHANGED <<registered, port, contextVars, thread, terminated>>

Complete(c) ==
    /\ computer[c] = "initialized" /\ ~terminated
    /\ mCallbacks' = [mCallbacks EXCEPT ![c] = FALSE]
    /\ Becomes(c, "complete")
    /\ UNCHANGED <<registered, port, contextVars, thread, terminated>>

\* Mutant: the socket is left to its owner, whom nobody deletes.
LeaveSockets(c) == UNCHANGED <<port, receiveOp>>

\* base_shutdown closes the socket, although the receiver is never deleted.
CloseSockets(c) ==
    /\ port' = IF port = c THEN Free ELSE port
    /\ receiveOp' = [receiveOp EXCEPT ![c] = IF @ = "posted" THEN "aborting" ELSE @]

\* ~OnboardComputer and, in ~io_context, the shutdown of the socket service.
Destroy(c) ==
    /\ computer[c] \in {"created", "failed", "initialized", "complete"}
    /\ ~terminated
    /\ mCallbacks' = [mCallbacks EXCEPT ![c] = FALSE]
    /\ CloseSockets(c)
    /\ Becomes(c, "draining")
    /\ UNCHANGED <<registered, queue, outstanding_work, stopped,
                   stop_event_posted, thread, terminated>>

\* Mutant: the shutdown waits only for what is in its own queue.
DrainedQueue(c) == queue[c] = <<>> /\ receiveOp[c] = "none"

\* win_iocp_io_context::shutdown waits for packets while there is work.
Drained(c) == outstanding_work[c] = 0

DrainCheck(c) ==
    /\ computer[c] = "draining" /\ ~terminated
    /\ Becomes(c, IF Drained(c) THEN "drained" ELSE "drainWaiting")
    /\ UNCHANGED <<registered, port, mCallbacks, contextVars, thread, terminated>>

\* An operation is destroyed uninvoked; a stop packet is swallowed.
DrainPacket(c) ==
    /\ computer[c] = "drainWaiting" /\ ~terminated
    /\ queue[c] # <<>>
    /\ IF Head(queue[c]) = "stop" THEN UNCHANGED outstanding_work ELSE EndWork(c)
    /\ Dequeue(c)
    /\ Becomes(c, "draining")
    /\ UNCHANGED <<registered, port, mCallbacks, receiveOp, stopped,
                   stop_event_posted, thread, terminated>>

\* The queue is closed and the io_context freed: a thread that waits on the
\* queue is woken with an error.
DestroyServices(c) ==
    /\ computer[c] = "drained" /\ ~terminated
    /\ Becomes(c, "destroyed")
    /\ queue' = [queue EXCEPT ![c] = <<>>]
    /\ Goto(c, IF thread[c] = "waiting" THEN "abandoned" ELSE thread[c])
    /\ UNCHANGED <<registered, port, mCallbacks, receiveOp, outstanding_work,
                   stopped, stop_event_posted, terminated>>
-----------------------------------------------------------------------------
(* The kernel, and other processes.                                        *)

\* A datagram or an error completes the receive; closing the socket aborts it.
ReceiveCompletes(c) ==
    /\ receiveOp[c] \in {"posted", "aborting"} /\ ~terminated
    /\ \/ receiveOp[c] = "posted" /\ Enqueue(c, "datagram")
       \/ Enqueue(c, "error")
    /\ receiveOp' = [receiveOp EXCEPT ![c] = "none"]
    /\ UNCHANGED <<registered, port, computer, mCallbacks, outstanding_work,
                   stopped, stop_event_posted, thread, terminated>>

OtherProcess ==
    /\ ~terminated
    /\ \/ port = Free  /\ port' = Other
       \/ port = Other /\ port' = Free
    /\ UNCHANGED <<registered, computer, mCallbacks, contextVars, thread, terminated>>
-----------------------------------------------------------------------------
(* The IO thread: io_context.run and the handler.                          *)

\* Where the thread reads or writes its io_context outside a handler.
Touches == {"starting", "loop", "stopping", "leaving", "stopEvent"}

\* It does so after the io_context was freed: anything may follow.
UseAfterFree(c) ==
    /\ thread[c] \in Touches /\ computer[c] = "destroyed" /\ ~terminated
    /\ Goto(c, "lost")
    /\ UNCHANGED <<registered, port, computer, mCallbacks, contextVars, terminated>>

At(c, step) == thread[c] = step /\ computer[c] # "destroyed" /\ ~terminated

Run(c) ==
    /\ At(c, "starting")
    /\ Goto(c, IF outstanding_work[c] = 0 THEN "leaving" ELSE "loop")
    /\ UNCHANGED <<registered, port, computer, mCallbacks, contextVars, terminated>>

Wait(c) ==
    /\ At(c, "loop")
    /\ Goto(c, "waiting")
    /\ UNCHANGED <<registered, port, computer, mCallbacks, contextVars, terminated>>

Packet(c) ==
    /\ At(c, "waiting") /\ queue[c] # <<>>
    /\ Goto(c, CASE Head(queue[c]) = "datagram" -> "callback"
                 [] Head(queue[c]) = "error"    -> "handleError"
                 [] Head(queue[c]) = "stop"     -> "stopEvent")
    /\ Dequeue(c)
    /\ UNCHANGED <<registered, port, computer, mCallbacks, receiveOp,
                   outstanding_work, stopped, stop_event_posted, terminated>>

\* Callback and echo; either may throw, and the echo does on a closed socket.
Callback(c) ==
    /\ thread[c] = "callback" /\ ~terminated
    /\ \/ Goto(c, "echo") /\ UNCHANGED terminated
       \/ terminated' = TRUE /\ UNCHANGED thread
    /\ UNCHANGED <<registered, port, computer, mCallbacks, contextVars>>

Echo(c) ==
    /\ thread[c] = "echo" /\ ~terminated
    /\ \/ SocketOpen(c) /\ Goto(c, "rearm") /\ UNCHANGED terminated
       \/ terminated' = TRUE /\ UNCHANGED thread
    /\ UNCHANGED <<registered, port, computer, mCallbacks, contextVars>>

\* Re-arming is three steps, and the destructor may come between any of them.
\* First the work of the new receive is counted.
Rearm(c) ==
    /\ thread[c] = "rearm" /\ ~terminated
    /\ AddWork(c)
    /\ Goto(c, "post")
    /\ UNCHANGED <<registered, port, computer, mCallbacks, receiveOp, queue,
                   stopped, stop_event_posted, terminated>>

\* Then it is posted.  On a socket that is closed, before the check or after
\* it, it fails at once; it may do so on an open one.
PostReceive(c) ==
    /\ thread[c] = "post" /\ ~terminated
    /\ \/ SocketOpen(c) /\ Posted(c) /\ Goto(c, "pending")
       \/ FailsAtOnce(c) /\ Goto(c, "finish")
    /\ UNCHANGED <<registered, port, computer, mCallbacks, outstanding_work,
                   stopped, stop_event_posted, terminated>>

\* Last, the posted operation is marked ready.  The destructor, which does not
\* look at the mark, may have destroyed it: then freed memory is written.
OnPending(c) ==
    /\ thread[c] = "pending" /\ ~terminated
    /\ \/ Goto(c, "finish") /\ UNCHANGED terminated
       \/ ~Receiving(c) /\ Goto(c, "lost") /\ UNCHANGED terminated
       \/ ~Receiving(c) /\ terminated' = TRUE /\ UNCHANGED thread
    /\ UNCHANGED <<registered, port, computer, mCallbacks, contextVars>>

HandleError(c) ==
    /\ thread[c] = "handleError" /\ ~terminated
    /\ Goto(c, "finish")
    /\ UNCHANGED <<registered, port, computer, mCallbacks, contextVars, terminated>>

\* Mutant: the work of the receive ends when it completes and once more here.
FinishTwice(c) == outstanding_work' = [outstanding_work EXCEPT ![c] = @ - 2]

FinishWork(c) == EndWork(c)

\* work_finished: the count first, then stop at zero.
Finish(c) ==
    /\ thread[c] = "finish" /\ ~terminated
    /\ FinishWork(c)
    /\ Goto(c, IF outstanding_work[c] = 1 THEN "stopping" ELSE "loop")
    /\ UNCHANGED <<registered, port, computer, mCallbacks, receiveOp, queue,
                   stopped, stop_event_posted, terminated>>

\* stop, from work_finished and from run without work.
Stop(c) ==
    /\ At(c, "stopping") \/ At(c, "leaving")
    /\ stopped' = [stopped EXCEPT ![c] = TRUE]
    /\ IF stopped[c] \/ stop_event_posted[c]
         THEN UNCHANGED <<queue, stop_event_posted>>
         ELSE /\ Enqueue(c, "stop")
              /\ stop_event_posted' = [stop_event_posted EXCEPT ![c] = TRUE]
    /\ Goto(c, IF thread[c] = "stopping" THEN "loop" ELSE "exited")
    /\ UNCHANGED <<registered, port, computer, mCallbacks, receiveOp,
                   outstanding_work, terminated>>

\* Mutant: the stop event is kept from the next thread.
KeepStopEvent(c) == /\ stop_event_posted' = [stop_event_posted EXCEPT ![c] = FALSE]
                    /\ UNCHANGED queue

\* The event is posted once more, for the next thread that waits.
PassStopEvent(c) == /\ stop_event_posted' = [stop_event_posted EXCEPT ![c] = TRUE]
                    /\ Enqueue(c, "stop")

StopEvent(c) ==
    /\ At(c, "stopEvent")
    /\ PassStopEvent(c)
    /\ Goto(c, "exited")
    /\ UNCHANGED <<registered, port, computer, mCallbacks, receiveOp,
                   outstanding_work, stopped, terminated>>

\* run throws the error of the closed queue.
AbandonedWait(c) ==
    /\ thread[c] = "abandoned" /\ ~terminated
    /\ terminated' = TRUE
    /\ UNCHANGED <<registered, port, computer, mCallbacks, contextVars, thread>>
-----------------------------------------------------------------------------
Destructor(c) == DrainCheck(c) \/ DrainPacket(c) \/ DestroyServices(c)

Simulation(c) ==
    \/ SimulationCreated(c) \/ Construct(c) \/ ConstructThrows(c)
    \/ StartThread(c) \/ ConnectObserver(c) \/ Complete(c) \/ Destroy(c)
    \/ Destructor(c)

IoThread(c) ==
    \/ Run(c) \/ Wait(c) \/ Packet(c) \/ Callback(c) \/ Echo(c)
    \/ Rearm(c) \/ PostReceive(c) \/ OnPending(c)
    \/ HandleError(c) \/ Finish(c) \/ Stop(c) \/ StopEvent(c)
    \/ UseAfterFree(c) \/ AbandonedWait(c)

LifeNext ==
    \/ WsfPluginSetup \/ OtherProcess
    \/ \E c \in Computers : Simulation(c) \/ IoThread(c) \/ ReceiveCompletes(c)

LifeSafety == LifeInit /\ [][LifeNext]_lifeVars

\* A destructor that was entered goes on, the IO threads are scheduled, and
\* a receive whose socket was closed is aborted.
LifeSpec ==
    /\ LifeSafety
    /\ \A c \in Computers :
         /\ WF_lifeVars(Destructor(c))
         /\ WF_lifeVars(IoThread(c))
         /\ WF_lifeVars(ReceiveCompletes(c) /\ receiveOp[c] = "aborting")
-----------------------------------------------------------------------------
InHandler(c) == thread[c] \in {"callback", "echo", "rearm", "post", "pending",
                               "handleError", "finish"}

\* The IO thread wrote memory that was freed: nothing is known from here on.
Undefined(c) == thread[c] = "lost"

LifeTypeOK ==
    /\ registered \in BOOLEAN /\ terminated \in BOOLEAN
    /\ port \in Computers \cup {Free, Other}
    /\ computer \in [Computers -> {"none", "created", "failed", "constructed",
                       "detached", "initialized", "complete", "draining",
                       "drainWaiting", "drained", "destroyed"}]
    /\ mCallbacks \in [Computers -> BOOLEAN]
    /\ receiveOp \in [Computers -> {"none", "posted", "aborting"}]
    /\ queue \in [Computers -> Seq({"datagram", "error", "stop"})]
    /\ outstanding_work \in [Computers -> Nat]
    /\ stopped \in [Computers -> BOOLEAN]
    /\ stop_event_posted \in [Computers -> BOOLEAN]
    /\ thread \in [Computers -> {"none", "callback", "echo", "rearm", "post",
                     "pending", "handleError", "finish", "waiting", "exited", "lost",
                     "abandoned"} \cup Touches]

\* The count that run, the destructor and stop rely on is right at every
\* moment of a teardown, whichever step of a handler the closing of the socket
\* or the destruction of its new receive falls between: one for the receive,
\* from the moment it is counted until it is taken, and one for the handler
\* that runs; and there is never more than one receive, posted or queued.  Of
\* a thread that has written a freed operation nothing is claimed.
WorkBalanced ==
    \A c \in Computers : computer[c] # "destroyed" /\ ~Undefined(c) =>
      /\ outstanding_work[c] =
           (IF Receiving(c) \/ thread[c] = "post" THEN 1 ELSE 0)
           + (IF InHandler(c) THEN 1 ELSE 0)
      /\ receiveOp[c] # "none" => Operations(queue[c]) = {}
      /\ \A j, k \in Operations(queue[c]) : j = k

\* The destructor waits for a handler that is running: no callback, echo or
\* re-arming works on a freed io_context, or for a computer that is gone.  The
\* operation a handler re-arms may be freed under it, the io_context not.
NoHandlerOutlivesContext ==
    \A c \in Computers : computer[c] = "destroyed" => ~InHandler(c) /\ ~mCallbacks[c]

\* A simulation finds the port free again whatever became of the one before
\* it, although no code of the plugin closes the socket: its bind fails only
\* when another process has the port.
BindFailsOnlyForOthers ==
    [][\A c \in Computers :
         computer'[c] = "failed" /\ computer[c] # "failed" => port = Other]_lifeVars

\* Destroying a simulation does not hang: the destructor, which waits on the
\* same queue as the IO thread, is woken whoever of the two takes which packet,
\* unless the process ended or the IO thread wrote a freed operation.
DestructorReturns ==
    \A c \in Computers :
      computer[c] = "draining"
        ~> computer[c] = "destroyed" \/ terminated \/ Undefined(c)

\* What the documentation of io_context asks of a program: run calls are
\* terminated before the io_context is destroyed.
ContextOutlivesRun ==
    \A c \in Computers : computer[c] = "destroyed" => thread[c] \in {"none", "exited"}
=============================================================================
