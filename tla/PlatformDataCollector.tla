------------------------ MODULE PlatformDataCollector ------------------------
(***************************************************************************)
(* PlatformDataCollector across the simulations of one process: it is      *)
(* created, initialised, started and destroyed with each simulation, while *)
(* the agent's commands and the frame counter live in static variables.    *)
(* Movers call OnMoverUpdated on the threads of Threads; the simulation    *)
(* itself runs on SimThread.  The agent sends commands at any time.        *)
(***************************************************************************)
EXTENDS UdpJsonSender, FiniteSets, SequencesExt

CONSTANTS Threads,       \* threads that call OnMoverUpdated
          SimThread,     \* the thread of the event loop
          Platforms,     \* ids of the platforms, one mover each
          Commands,      \* what the agent may send
          Absorbing,     \* headings so large that 2 pi is absorbed
          mSendInterval, \* ticks between two frames
          MaxTime,       \* bound: ticks counted in a simulation
          MaxRuns,       \* bound: simulations in the process
          MaxCommands    \* bound: datagrams the agent sends

ASSUME CollectorAssumption ==
    /\ SimThread \in Threads
    /\ mSendInterval \in Nat \ {0}
    /\ MaxTime \in Nat /\ MaxRuns \in Nat /\ MaxCommands \in Nat

VARIABLES
    phase,      \* the life of the current simulation
    run,        \* how many simulations were created
    simTime,
    due,        \* movers the event loop still updates at this time
    broken,     \* platforms that are broken
    heading,    \* platform -> the last heading a command gave it
    mMoverUpdatedCallback, \* the observer is connected
    mHasSentStartFrame, mNextSendTime, mIsShuttingDown,
    gLatestAgentCommands,  \* static: platform -> latest command
    sent,       \* datagrams the agent sent so far
    pc,         \* thread -> where it is
    frame       \* thread -> local variables of its callback

flags == <<mMoverUpdatedCallback, mHasSentStartFrame, mNextSendTime,
           mIsShuttingDown>>
world == <<phase, run, simTime, due, broken>>
collectorVars == <<world, heading, flags, gLatestAgentCommands, sent, pc,
                   frame, senderVars>>

NoCommand == [n |-> 0, action |-> "none", heading |-> 0]
Unturned == [n |-> 0, heading |-> 0]
Idle == [mover |-> 0, at |-> 0, agentData |-> NoData, seq |-> 0]

Running == phase = "started"

CollectorInit ==
    /\ SenderInit
    /\ phase = "none" /\ run = 0 /\ simTime = 0 /\ due = {} /\ broken = {}
    /\ heading = [p \in Platforms |-> Unturned]
    /\ mMoverUpdatedCallback = FALSE /\ mHasSentStartFrame = FALSE
    /\ mNextSendTime = 0 /\ mIsShuttingDown = FALSE
    /\ gLatestAgentCommands = [p \in Platforms |-> NoCommand]
    /\ sent = 0
    /\ pc = [t \in Threads |-> "idle"]
    /\ frame = [t \in Threads |-> Idle]

Goto(t, step) == pc' = [pc EXCEPT ![t] = step]
-----------------------------------------------------------------------------
(* The simulation and its collector are created, initialised, started.     *)

\* Mutant: frames are numbered by the member mSeq instead of the static.
ResetStatics == sSeq' = 0 /\ UNCHANGED gLatestAgentCommands

KeepStatics == UNCHANGED <<sSeq, gLatestAgentCommands>>

\* Constructor and AddedToSimulation: members reset, statics kept.
AddedToSimulation ==
    /\ phase = "none" /\ run < MaxRuns
    /\ phase' = "added" /\ run' = run + 1
    /\ simTime' = 0 /\ due' = {} /\ broken' = {}
    /\ heading' = [p \in Platforms |-> Unturned]
    /\ mHasSentStartFrame' = FALSE /\ mNextSendTime' = 0
    /\ mIsShuttingDown' = FALSE /\ mMoverUpdatedCallback' = TRUE
    /\ KeepStatics
    /\ UNCHANGED <<sent, pc, frame, socketVars, wire, inbox>>

\* Initialize: the sending socket first, the receiving socket second.
InitializeSender ==
    /\ phase = "added"
    /\ \/ SenderInitialize /\ phase' = "sender"
       \/ SenderInitializeFails /\ phase' = "failed"
    /\ UNCHANGED <<run, simTime, due, broken, heading, flags,
                   gLatestAgentCommands, sent, pc, frame, sSeq, wire, inbox>>

InitializeRecv ==
    /\ phase = "sender"
    /\ \/ InitializeReceiver /\ phase' = "initialized"
       \/ InitializeReceiverFails /\ phase' = "failed"
    /\ UNCHANGED <<run, simTime, due, broken, heading, flags,
                   gLatestAgentCommands, sent, pc, frame, sSeq, wire, inbox>>

\* Start sends the first frame by the steps of CollectAndSend below.
Start ==
    /\ phase = "initialized" /\ pc[SimThread] = "idle"
    /\ phase' = "starting"
    /\ frame' = [frame EXCEPT ![SimThread] = [Idle EXCEPT !.at = simTime]]
    /\ Goto(SimThread, "build")
    /\ UNCHANGED <<run, simTime, due, broken, heading, flags,
                   gLatestAgentCommands, sent, senderVars>>

\* The start frame is flagged before the next send time is set.
FlagStartFrame ==
    /\ phase = "starting" /\ pc[SimThread] = "sent"
    /\ mHasSentStartFrame' = TRUE
    /\ Goto(SimThread, "next")
    /\ UNCHANGED <<world, heading, mMoverUpdatedCallback, mNextSendTime,
                   mIsShuttingDown, gLatestAgentCommands,
                   sent, frame, senderVars>>
-----------------------------------------------------------------------------
(* OnMoverUpdated, step by step.                                           *)

\* The guards; before the start frame and after Shutdown the callback returns.
OnMoverUpdated(t, p) ==
    /\ pc[t] = "idle"
    /\ mMoverUpdatedCallback /\ ~mIsShuttingDown /\ mHasSentStartFrame
    /\ t = SimThread => p \in due
    /\ due' = IF t = SimThread THEN due \ {p} ELSE due
    /\ frame' = [frame EXCEPT ![t] = [Idle EXCEPT !.mover = p, !.at = simTime]]
    /\ Goto(t, "receive")
    /\ UNCHANGED <<phase, run, simTime, broken, heading, flags,
                   gLatestAgentCommands, sent, senderVars>>

Receive(t) ==
    /\ pc[t] = "receive"
    /\ \E result \in {NoData} \cup {<<m>> : m \in {inbox[i] : i \in DOMAIN inbox}} :
         /\ ReceiveAgentData(result)
         /\ frame' = [frame EXCEPT ![t].agentData = result]
         /\ Goto(t, IF result = NoData THEN "apply" ELSE "cache")
    /\ UNCHANGED <<world, heading, flags,
                   gLatestAgentCommands, sent, socketVars, sSeq, wire>>

\* The actions parsed before the first id that overflows an int; the ones
\* after it are lost with it.
ParseAgentActions(msg) ==
    LET overflow == {i \in DOMAIN msg.actions : msg.actions[i].id = "overflow"}
    IN  IF overflow = {} THEN msg.actions
                         ELSE SubSeq(msg.actions, 1, Min(overflow) - 1)

\* The action cached for p: the last one in the datagram that names it.
LastActionFor(p, actions) ==
    LET named == {i \in DOMAIN actions : actions[i].id = p}
    IN  IF named = {} THEN <<>> ELSE <<actions[Max(named)]>>

\* Mutant: a cached command is not replaced.
LatestOnce(p, cmd) == IF gLatestAgentCommands[p].n > 0
                        THEN gLatestAgentCommands[p] ELSE cmd

\* What the map holds for p after cmd is assigned to it.
Latest(p, cmd) == cmd

\* HandleAgentCommandTextOnly: platforms that are missing or broken are
\* skipped, anything that is not a command is ignored.
HandleAgentCommand(t) ==
    /\ pc[t] = "cache"
    /\ LET msg == Head(frame[t].agentData)
           actions == IF msg.isCommand THEN ParseAgentActions(msg) ELSE <<>>
           Found(p) == LastActionFor(p, actions)
       IN  gLatestAgentCommands' =
             [p \in Platforms |->
                IF p \in broken \/ Found(p) = <<>>
                  THEN gLatestAgentCommands[p]
                  ELSE Latest(p, [n |-> msg.n, action |-> Found(p)[1].action,
                                  heading |-> Found(p)[1].heading])]
    /\ Goto(t, "apply")
    /\ UNCHANGED <<world, heading, flags, sent, frame, senderVars>>

\* A heading command without a heading, a move without a target, HOLD, FIRE
\* and unknown actions leave the mover alone.
Turns(cmd) == cmd.action \in {"SET_HEADING", "MOVE"} /\ cmd.heading # 0

\* Mutant: only caching looks at whether the platform is broken.
AlwaysSteerable(p) == TRUE

Steerable(p) == p \notin broken

\* NormalizeRad0To2Pi loops for ever: its loops are in AgentSteering.  The
\* bearing of a MOVE is within a turn of the range.
NeverInRange(cmd) == cmd.action = "SET_HEADING" /\ cmd.heading \in Absorbing

\* The command is applied, or the thread never leaves the normalisation of its
\* heading.
ApplyLatestCommand(t) ==
    /\ pc[t] = "apply"
    /\ LET p == frame[t].mover
           cmd == gLatestAgentCommands[p]
           turns == Steerable(p) /\ Turns(cmd)
       IN  \/ /\ turns /\ NeverInRange(cmd)
              /\ Goto(t, "normalize")
              /\ UNCHANGED heading
           \/ /\ ~(turns /\ NeverInRange(cmd))
              /\ heading' = IF turns
                    THEN [heading EXCEPT ![p] = [n |-> cmd.n,
                                                 heading |-> cmd.heading]]
                    ELSE heading
              /\ Goto(t, "pace")
    /\ UNCHANGED <<world, flags, gLatestAgentCommands, sent, frame, senderVars>>

\* It is too early for the next frame, or the frame is collected.
Pace(t) ==
    /\ pc[t] = "pace"
    /\ Goto(t, IF frame[t].at < mNextSendTime THEN "idle" ELSE "build")
    /\ UNCHANGED <<world, heading, flags,
                   gLatestAgentCommands, sent, frame, senderVars>>

Build(t) ==
    /\ pc[t] = "build"
    /\ BuildJson
    /\ frame' = [frame EXCEPT ![t].seq = sSeq]
    /\ Goto(t, "send")
    /\ UNCHANGED <<world, heading, flags,
                   gLatestAgentCommands, sent, socketVars, wire, inbox>>

\* The result of SendPlatformData is only printed.
Send(t) ==
    /\ pc[t] = "send"
    /\ SendTo(frame[t].seq, [run |-> run, time |-> frame[t].at])
    /\ Goto(t, IF phase = "starting" THEN "sent" ELSE "next")
    /\ UNCHANGED <<world, heading, flags,
                   gLatestAgentCommands, sent, frame, socketVars, sSeq, inbox>>

\* Mutant: Start does not set the next send time.
NextSendTimeNotAtStart(t) == IF phase = "starting" THEN mNextSendTime
                             ELSE frame[t].at + mSendInterval

NextSendTime(t) == frame[t].at + mSendInterval

\* Both Start and OnMoverUpdated end by setting the next send time.
SetNextSendTime(t) ==
    /\ pc[t] = "next"
    /\ mNextSendTime' = NextSendTime(t)
    /\ phase' = IF phase = "starting" THEN "started" ELSE phase
    /\ frame' = [frame EXCEPT ![t] = Idle]
    /\ Goto(t, "idle")
    /\ UNCHANGED <<run, simTime, due, broken, heading, mMoverUpdatedCallback,
                   mHasSentStartFrame, mIsShuttingDown,
                   gLatestAgentCommands, sent, senderVars>>

Callback(t) ==
    \/ \E p \in Platforms : OnMoverUpdated(t, p)
    \/ Receive(t) \/ HandleAgentCommand(t) \/ ApplyLatestCommand(t)
    \/ Pace(t) \/ Build(t) \/ Send(t) \/ SetNextSendTime(t)
-----------------------------------------------------------------------------
(* The simulation around the collector, and the agent.                     *)

\* Time advances when every mover was updated; past MaxTime it is no longer
\* counted, and the movers go on being updated.
Tick ==
    /\ Running /\ pc[SimThread] = "idle" /\ due = {}
    /\ simTime' = IF simTime < MaxTime THEN simTime + 1 ELSE simTime
    /\ due' = Platforms
    /\ UNCHANGED <<phase, run, broken, heading, flags,
                   gLatestAgentCommands, sent, pc, frame, senderVars>>

Break(p) ==
    /\ Running /\ pc[SimThread] = "idle" /\ p \notin broken
    /\ broken' = broken \cup {p}
    /\ UNCHANGED <<phase, run, simTime, due, heading, flags,
                   gLatestAgentCommands, sent, pc, frame, senderVars>>

\* Complete only prints: the callback stays connected until destruction.
Complete ==
    /\ Running /\ pc[SimThread] = "idle"
    /\ phase' = "complete"
    /\ UNCHANGED <<run, simTime, due, broken, heading, flags,
                   gLatestAgentCommands, sent, pc, frame, senderVars>>

\* The destructor's Shutdown, then the one of the sender it owns.
Shutdown ==
    /\ phase \in {"added", "failed", "initialized", "complete"}
    /\ pc[SimThread] = "idle" /\ ~mIsShuttingDown
    /\ mIsShuttingDown' = TRUE
    /\ mMoverUpdatedCallback' = FALSE
    /\ SenderShutdown
    /\ phase' = "destroying"
    /\ UNCHANGED <<run, simTime, due, broken, heading, mHasSentStartFrame,
                   mNextSendTime, gLatestAgentCommands, sent, pc, frame, sSeq,
                   wire>>

DestroySender ==
    /\ phase = "destroying"
    /\ SenderShutdown
    /\ phase' = "none"
    /\ UNCHANGED <<run, simTime, due, broken, heading, flags,
                   gLatestAgentCommands, sent, pc, frame, sSeq, wire>>

AgentSends(c) ==
    /\ mRecvSocket /\ sent < MaxCommands
    /\ sent' = sent + 1
    /\ inbox' = Append(inbox, [n |-> sent + 1, fits |-> c.fits,
                               isCommand |-> c.isCommand,
                               actions |-> c.actions])
    /\ UNCHANGED <<world, heading, flags,
                   gLatestAgentCommands, pc, frame, socketVars, sSeq, wire>>

Lifecycle == AddedToSimulation \/ InitializeSender \/ InitializeRecv \/ Start
             \/ FlagStartFrame \/ Complete \/ Shutdown \/ DestroySender

CollectorNext ==
    \/ Lifecycle \/ Tick
    \/ \E t \in Threads : Callback(t)
    \/ \E p \in Platforms : Break(p)
    \/ \E c \in Commands : AgentSends(c)

\* The event loop keeps updating movers and advancing time; it owes neither
\* damage to a platform nor the end of a simulation, and the agent nothing.
CollectorSpec ==
    /\ CollectorInit /\ [][CollectorNext]_collectorVars
    /\ WF_collectorVars(Tick \/ FlagStartFrame \/ Callback(SimThread))
-----------------------------------------------------------------------------
CollectorTypeOK ==
    /\ phase \in {"none", "added", "sender", "initialized", "failed",
                  "starting", "started", "complete", "destroying"}
    /\ run \in 0 .. MaxRuns /\ simTime \in 0 .. MaxTime /\ sent \in 0 .. MaxCommands
    /\ due \subseteq Platforms /\ broken \subseteq Platforms
    /\ mNextSendTime \in 0 .. MaxTime + mSendInterval
    /\ {mMoverUpdatedCallback, mHasSentStartFrame, mIsShuttingDown, mSocket,
        mInitialized, mRecvSocket, mRecvInitialized} \subseteq BOOLEAN
    /\ startups \in Nat /\ openSockets \in Nat /\ sSeq \in Nat
    /\ \A p \in Platforms : /\ gLatestAgentCommands[p].n \in 0 .. MaxCommands
                            /\ heading[p].n \in 0 .. MaxCommands
    /\ \A t \in Threads :
         /\ pc[t] \in {"idle", "receive", "cache", "apply", "normalize",
                       "pace", "build", "send", "sent", "next"}
         /\ frame[t].at \in 0 .. MaxTime

\* Within a simulation two frames are never closer than the send interval,
\* whichever movers are updated in between and whether or not sends fail.
FramesPaced ==
    \A i, j \in DOMAIN wire :
      i < j /\ wire[i].frame.run = wire[j].frame.run
        => wire[j].frame.time >= wire[i].frame.time + mSendInterval

\* The agent can order frames and detect losses by the sequence number alone,
\* across the simulations of the process.
SeqIncreases ==
    \A i, j \in DOMAIN wire : i < j => wire[i].seq < wire[j].seq

\* Winsock and the sockets are released exactly as often as acquired, through
\* every failing initialisation and both calls of Shutdown.
WinsockBalanced ==
    /\ startups = IF mInitialized THEN 1 ELSE 0
    /\ openSockets = (IF mSocket THEN 1 ELSE 0) + (IF mRecvSocket THEN 1 ELSE 0)
    /\ phase = "none" => startups = 0 /\ openSockets = 0

\* No command turns a platform that is broken, not even one cached before the
\* platform broke; and an older command never overrides a newer one.
SteersSoundly ==
    [][\A p \in Platforms :
         heading'[p] # heading[p] /\ run' = run
           => p \notin broken /\ heading'[p].n >= heading[p].n]_collectorVars

\* The thread is in the normalisation of a heading that never comes into range.
Stuck(t) ==
    pc[t] = "normalize" /\ NeverInRange(gLatestAgentCommands[frame[t].mover])

\* A command that turns p, once queued, turns it, unless a newer command for p
\* is cached, p breaks or the simulation ends first, or the simulation thread
\* is caught for good by a command, this one or another, whose heading never
\* comes into range.
TurnQueued(n, p) ==
    \E i \in DOMAIN inbox :
      /\ inbox[i].n = n /\ inbox[i].fits /\ inbox[i].isCommand
      /\ LET last == LastActionFor(p, ParseAgentActions(inbox[i]))
         IN  last # <<>> /\ Turns(last[1])

CommandTakesEffect ==
    \A n \in 1 .. MaxCommands, p \in Platforms :
      (Running /\ TurnQueued(n, p))
        ~> \/ heading[p].n = n \/ gLatestAgentCommands[p].n > n
           \/ p \in broken \/ ~Running \/ Stuck(SimThread)
=============================================================================
