--------------------- MODULE PlatformDataCollectorProofs ---------------------
(***************************************************************************)
(* TLAPS proofs about PlatformDataCollector: the sockets are released as   *)
(* often as acquired, for any number of threads; and with the callbacks on *)
(* the simulation thread alone, frames are paced and numbered upwards,     *)
(* commands steer soundly, and each command comes nearer to its platform   *)
(* step by step, for any number of simulations, any send interval and any  *)
(* commands.                                                               *)
(***************************************************************************)
EXTENDS PlatformDataCollector, FiniteSetTheorems, SequenceTheorems, TLAPS

Received == [n : Nat, fits : {c.fits : c \in Commands},
             isCommand : {c.isCommand : c \in Commands},
             actions : {c.actions : c \in Commands}]

Locals == [mover : Platforms \cup {0}, at : Nat,
           agentData : {NoData} \cup {<<m>> : m \in Received}, seq : Nat]

Steps == {"idle", "receive", "cache", "apply", "normalize", "pace", "build",
          "send", "sent", "next"}

Sent == [seq : Nat, frame : [run : Nat, time : Nat]]

LocalType ==
    /\ run \in Nat /\ simTime \in Nat /\ mNextSendTime \in Nat
    /\ sent \in Nat /\ sSeq \in Nat
    /\ inbox \in Seq(Received)
    /\ wire \in Seq(Sent)
    /\ pc \in [Threads -> Steps]
    /\ frame \in [Threads -> Locals]

\* The life of the sockets follows the life of the simulation.
SocketLife ==
    /\ startups = IF mInitialized THEN 1 ELSE 0
    /\ openSockets = (IF mSocket THEN 1 ELSE 0) + (IF mRecvSocket THEN 1 ELSE 0)
    /\ mInitialized <=> mSocket
    /\ mRecvInitialized <=> mRecvSocket
    /\ mRecvSocket => mSocket
    /\ phase \in {"none", "added", "destroying"} => ~mSocket
    /\ phase = "sender" => mSocket /\ ~mRecvSocket
-----------------------------------------------------------------------------
(* Sockets.                                                                *)

\* Only Initialize and Shutdown touch the sockets, and they keep the count.
LEMMA SocketLifeInvariant == CollectorSpec => []SocketLife
<1>1. CollectorInit => SocketLife
  BY DEF CollectorInit, SenderInit, SocketLife
<1>2. SocketLife /\ [CollectorNext]_collectorVars => SocketLife'
  <2>1. SUFFICES ASSUME SocketLife, [CollectorNext]_collectorVars
                 PROVE  SocketLife'
    OBVIOUS
  <2> USE DEF socketVars, senderVars, world, flags
  <2>2. ASSUME UNCHANGED socketVars, phase' = phase \/
               phase' \notin {"none", "added", "destroying", "sender"}
        PROVE  SocketLife'
    BY <2>1, <2>2 DEF SocketLife
  <2>3. CASE AddedToSimulation
    BY <2>1, <2>3 DEF AddedToSimulation, KeepStatics, SocketLife
  <2>4. CASE InitializeSender
    BY <2>1, <2>4 DEF InitializeSender, SenderInitialize,
       SenderInitializeFails, SocketLife
  <2>5. CASE InitializeRecv
    <3>1. mSocket /\ mInitialized /\ ~mRecvSocket /\ ~mRecvInitialized
      BY <2>1, <2>5 DEF InitializeRecv, SocketLife
    <3>2. startups = 1 /\ openSockets = 1
      BY <2>1, <3>1 DEF SocketLife
    <3>3. CASE InitializeReceiver /\ phase' = "initialized"
      <4>1. mRecvSocket' /\ mRecvInitialized' /\ openSockets' = 2
        BY <3>1, <3>2, <3>3 DEF InitializeReceiver
      <4>2. mSocket' /\ mInitialized' /\ startups' = 1
        BY <3>1, <3>2, <3>3 DEF InitializeReceiver
      <4>3. QED
        BY <3>3, <4>1, <4>2 DEF SocketLife
    <3>4. CASE InitializeReceiverFails /\ phase' = "failed"
      BY <2>2, <3>4 DEF InitializeReceiverFails
    <3>5. QED
      BY <2>5, <3>3, <3>4 DEF InitializeRecv
  <2>6. CASE Start \/ FlagStartFrame \/ Complete \/ Tick
    BY <2>2, <2>6 DEF Start, FlagStartFrame, Complete, Tick
  <2>7. CASE Shutdown
    BY <2>1, <2>7 DEF Shutdown, SenderShutdown, SocketLife
  <2>8. CASE DestroySender
    BY <2>1, <2>8 DEF DestroySender, SenderShutdown, SocketLife
  <2>9. ASSUME NEW t \in Threads, Callback(t)
        PROVE  SocketLife'
    BY <2>2, <2>9 DEF Callback, OnMoverUpdated, Receive, HandleAgentCommand,
       ApplyLatestCommand, Pace, Build, Send, SetNextSendTime
  <2>10. ASSUME NEW p \in Platforms, Break(p)
         PROVE  SocketLife'
    BY <2>2, <2>10 DEF Break
  <2>11. ASSUME NEW c \in Commands, AgentSends(c)
         PROVE  SocketLife'
    BY <2>2, <2>11 DEF AgentSends
  <2>12. CASE UNCHANGED collectorVars
    BY <2>2, <2>12 DEF collectorVars
  <2>13. QED
    BY <2>1, <2>3, <2>4, <2>5, <2>6, <2>7, <2>8, <2>9, <2>10, <2>11, <2>12
    DEF CollectorNext, Lifecycle
<1>3. QED
  BY <1>1, <1>2, PTL DEF CollectorSpec

\* Winsock and the sockets are given back as often as taken, for any number of
\* simulations, failures and callback threads.
THEOREM SocketsBalanced == CollectorSpec => []WinsockBalanced
<1>1. SocketLife => WinsockBalanced
  BY DEF SocketLife, WinsockBalanced
<1>2. QED
  BY <1>1, SocketLifeInvariant, PTL
-----------------------------------------------------------------------------
(* Types of the local variables and of the network.                        *)

\* A process starts with empty queues and idle threads.
LEMMA InitLocalType == CollectorInit => LocalType
<1> SUFFICES ASSUME CollectorInit PROVE LocalType
  OBVIOUS
<1>1. inbox \in Seq(Received) /\ wire \in Seq(Sent)
  BY EmptySeq DEF CollectorInit, SenderInit
<1>2. pc \in [Threads -> Steps]
  BY DEF CollectorInit, Steps
<1>3. frame \in [Threads -> Locals]
  BY DEF CollectorInit, Locals, Idle
<1>4. QED
  BY <1>1, <1>2, <1>3 DEF CollectorInit, SenderInit, LocalType

\* No operation of the collector or of its surroundings breaks the types.
LEMMA StepLocalType == LocalType /\ [CollectorNext]_collectorVars => LocalType'
<1> SUFFICES ASSUME LocalType, [CollectorNext]_collectorVars
             PROVE  LocalType'
  OBVIOUS
<1> USE CollectorAssumption DEF socketVars, senderVars, world, flags, LocalType
<1>1. CASE AddedToSimulation
  BY <1>1 DEF AddedToSimulation, KeepStatics
<1>2. CASE InitializeSender \/ InitializeRecv
  BY <1>2 DEF InitializeSender, InitializeRecv
<1>3. CASE Start
  <2>1. [Idle EXCEPT !.at = simTime] \in Locals
    BY DEF Idle, Locals
  <2>2. QED
    BY <1>3, <2>1 DEF Start, Goto, Steps
<1>4. CASE FlagStartFrame
  BY <1>4 DEF FlagStartFrame, Goto, Steps
<1>5. CASE Complete \/ Tick
  BY <1>5 DEF Complete, Tick
<1>6. CASE Shutdown \/ DestroySender
  BY <1>6, EmptySeq DEF Shutdown, DestroySender, SenderShutdown
<1>7. ASSUME NEW t \in Threads, NEW p \in Platforms, OnMoverUpdated(t, p)
      PROVE  LocalType'
  <2>1. [Idle EXCEPT !.mover = p, !.at = simTime] \in Locals
    BY DEF Idle, Locals
  <2>2. QED
    BY <1>7, <2>1 DEF OnMoverUpdated, Goto, Steps
<1>8. ASSUME NEW t \in Threads, Receive(t)
      PROVE  LocalType'
  <2>1. PICK result \in {NoData} \cup
                        {<<m>> : m \in {inbox[i] : i \in DOMAIN inbox}} :
          /\ ReceiveAgentData(result)
          /\ frame' = [frame EXCEPT ![t].agentData = result]
          /\ Goto(t, IF result = NoData THEN "apply" ELSE "cache")
    BY <1>8 DEF Receive
  <2>2. result \in {NoData} \cup {<<m>> : m \in Received}
    BY <2>1, ElementOfSeq, LenProperties
  <2>3. frame' \in [Threads -> Locals]
    BY <2>1, <2>2 DEF Locals
  <2>4. inbox' \in Seq(Received)
    BY <2>1, HeadTailProperties DEF ReceiveAgentData
  <2>5. pc' \in [Threads -> Steps]
    BY <2>1 DEF Goto, Steps
  <2>6. QED
    BY <1>8, <2>3, <2>4, <2>5 DEF Receive
<1>9. ASSUME NEW t \in Threads,
             HandleAgentCommand(t) \/ ApplyLatestCommand(t) \/ Pace(t)
      PROVE  LocalType'
  BY <1>9 DEF HandleAgentCommand, ApplyLatestCommand, Pace, Goto, Steps
<1>10. ASSUME NEW t \in Threads, Build(t)
       PROVE  LocalType'
  <2>1. sSeq' \in Nat
    BY <1>10 DEF Build, BuildJson
  <2>2. frame' \in [Threads -> Locals]
    BY <1>10 DEF Build, Locals
  <2>3. QED
    BY <1>10, <2>1, <2>2 DEF Build, Goto, Steps
<1>11. ASSUME NEW t \in Threads, Send(t)
       PROVE  LocalType'
  <2>1. [seq |-> frame[t].seq,
         frame |-> [run |-> run, time |-> frame[t].at]] \in Sent
    <3>1. frame[t] \in Locals /\ run \in Nat
      OBVIOUS
    <3>2. frame[t].seq \in Nat /\ frame[t].at \in Nat
      BY <3>1 DEF Locals
    <3>3. QED
      BY <3>1, <3>2 DEF Sent
  <2>2. wire' \in Seq(Sent)
    <3>1. wire' \in {wire, Append(wire, [seq |-> frame[t].seq,
            frame |-> [run |-> run, time |-> frame[t].at]])}
      BY <1>11 DEF Send, SendTo
    <3>2. wire \in Seq(Sent)
      OBVIOUS
    <3>3. \A e \in Sent : Append(wire, e) \in Seq(Sent)
      BY <3>2, AppendProperties
    <3>4. QED
      BY <2>1, <3>1, <3>2, <3>3
  <2>3. QED
    BY <1>11, <2>2 DEF Send, Goto, Steps
<1>12. ASSUME NEW t \in Threads, SetNextSendTime(t)
       PROVE  LocalType'
  <2>1. mNextSendTime' \in Nat
    BY <1>12 DEF SetNextSendTime, NextSendTime, Locals
  <2>2. Idle \in Locals
    BY DEF Idle, Locals
  <2>3. QED
    BY <1>12, <2>1, <2>2 DEF SetNextSendTime, NextSendTime, Goto, Steps
<1>13. ASSUME NEW p \in Platforms, Break(p)
       PROVE  LocalType'
  BY <1>13 DEF Break
<1>14. ASSUME NEW c \in Commands, AgentSends(c)
       PROVE  LocalType'
  <2>1. [n |-> sent + 1, fits |-> c.fits, isCommand |-> c.isCommand,
         actions |-> c.actions] \in Received
    BY DEF Received
  <2>2. inbox' \in Seq(Received) /\ sent' \in Nat
    BY <1>14, <2>1, AppendProperties DEF AgentSends
  <2>3. QED
    BY <1>14, <2>2 DEF AgentSends
<1>15. CASE UNCHANGED collectorVars
  BY <1>15 DEF collectorVars
<1>16. QED
  BY <1>1, <1>2, <1>3, <1>4, <1>5, <1>6, <1>7, <1>8, <1>9, <1>10, <1>11,
     <1>12, <1>13, <1>14, <1>15
  DEF CollectorNext, Lifecycle, Callback
-----------------------------------------------------------------------------
(* Types, with the bounds of the instance.                                 *)

\* A datagram that is to be cached is there, and its number is one the agent
\* used; so is that of every datagram still queued.
CommandBounds ==
    /\ sent \in 0 .. MaxCommands
    /\ \A i \in 1 .. Len(inbox) : inbox[i].n \in 0 .. MaxCommands
    /\ \A t \in Threads : pc[t] = "cache"
         => /\ frame[t].agentData # NoData
            /\ Head(frame[t].agentData).n \in 0 .. MaxCommands
    /\ DOMAIN heading = Platforms /\ DOMAIN gLatestAgentCommands = Platforms
    /\ \A p \in Platforms : /\ gLatestAgentCommands[p].n \in 0 .. MaxCommands
                            /\ heading[p].n \in 0 .. MaxCommands

TimeBounds ==
    /\ phase \in {"none", "added", "sender", "initialized", "failed",
                  "starting", "started", "complete", "destroying"}
    /\ run \in 0 .. MaxRuns /\ simTime \in 0 .. MaxTime
    /\ due \subseteq Platforms /\ broken \subseteq Platforms
    /\ mNextSendTime \in 0 .. MaxTime + mSendInterval
    /\ \A t \in Threads : frame[t].at \in 0 .. MaxTime

FlagTypes ==
    /\ mMoverUpdatedCallback \in BOOLEAN /\ mHasSentStartFrame \in BOOLEAN
    /\ mIsShuttingDown \in BOOLEAN /\ mSocket \in BOOLEAN
    /\ mInitialized \in BOOLEAN /\ mRecvSocket \in BOOLEAN
    /\ mRecvInitialized \in BOOLEAN

\* Members and flags are set to truth values only.
LEMMA StepFlagTypes ==
    FlagTypes /\ [CollectorNext]_collectorVars => FlagTypes'
<1> SUFFICES ASSUME FlagTypes, [CollectorNext]_collectorVars
             PROVE  FlagTypes'
  OBVIOUS
<1> USE DEF flags, socketVars, senderVars, FlagTypes
<1>1. CASE AddedToSimulation \/ InitializeSender \/ InitializeRecv
  BY <1>1 DEF AddedToSimulation, InitializeSender, SenderInitialize,
     SenderInitializeFails, InitializeRecv, InitializeReceiver,
     InitializeReceiverFails
<1>2. CASE Start \/ FlagStartFrame \/ Complete \/ Tick
  BY <1>2 DEF Start, FlagStartFrame, Complete, Tick
<1>3. CASE Shutdown \/ DestroySender
  BY <1>3 DEF Shutdown, DestroySender, SenderShutdown
<1>4. ASSUME NEW t \in Threads, Callback(t)
      PROVE  FlagTypes'
  BY <1>4 DEF Callback, OnMoverUpdated, Receive, HandleAgentCommand,
     ApplyLatestCommand, Pace, Build, Send, SetNextSendTime
<1>5. CASE \/ \E p \in Platforms : Break(p)
           \/ \E c \in Commands : AgentSends(c)
           \/ UNCHANGED collectorVars
  BY <1>5 DEF Break, AgentSends, collectorVars
<1>6. QED
  BY <1>1, <1>2, <1>3, <1>4, <1>5 DEF CollectorNext, Lifecycle

\* Frames carry times of the simulation, and the next send time is at most an
\* interval later.
LEMMA StepTimeBounds ==
    LocalType /\ TimeBounds /\ [CollectorNext]_collectorVars => TimeBounds'
<1> SUFFICES ASSUME LocalType, TimeBounds, [CollectorNext]_collectorVars
             PROVE  TimeBounds'
  OBVIOUS
<1> USE CollectorAssumption DEF world, flags, Goto, TimeBounds
<1>1. CASE AddedToSimulation \/ InitializeSender \/ InitializeRecv
  BY <1>1 DEF AddedToSimulation, InitializeSender, InitializeRecv
<1>2. CASE Start
  <2>1. \A t \in Threads : frame'[t].at \in 0 .. MaxTime
    BY <1>2 DEF Start, Idle, LocalType
  <2>2. QED
    BY <1>2, <2>1 DEF Start
<1>3. CASE FlagStartFrame \/ Complete \/ Tick
  BY <1>3 DEF FlagStartFrame, Complete, Tick
<1>4. CASE Shutdown \/ DestroySender
  BY <1>4 DEF Shutdown, DestroySender
<1>5. ASSUME NEW t \in Threads, NEW p \in Platforms, OnMoverUpdated(t, p)
      PROVE  TimeBounds'
  <2>1. \A u \in Threads : frame'[u].at \in 0 .. MaxTime
    BY <1>5 DEF OnMoverUpdated, Idle, LocalType
  <2>2. QED
    BY <1>5, <2>1 DEF OnMoverUpdated
<1>6. ASSUME NEW t \in Threads, Receive(t)
      PROVE  TimeBounds'
  <2>1. \A u \in Threads : frame'[u].at \in 0 .. MaxTime
    BY <1>6 DEF Receive, LocalType, Locals
  <2>2. QED
    BY <1>6, <2>1 DEF Receive
<1>7. ASSUME NEW t \in Threads,
             HandleAgentCommand(t) \/ ApplyLatestCommand(t) \/ Pace(t) \/ Send(t)
      PROVE  TimeBounds'
  BY <1>7 DEF HandleAgentCommand, ApplyLatestCommand, Pace, Send
<1>8. ASSUME NEW t \in Threads, Build(t)
      PROVE  TimeBounds'
  <2>1. \A u \in Threads : frame'[u].at \in 0 .. MaxTime
    BY <1>8 DEF Build, LocalType, Locals
  <2>2. QED
    BY <1>8, <2>1 DEF Build
<1>9. ASSUME NEW t \in Threads, SetNextSendTime(t)
      PROVE  TimeBounds'
  <2>1. \A u \in Threads : frame'[u].at \in 0 .. MaxTime
    BY <1>9 DEF SetNextSendTime, Idle, LocalType
  <2>2. mNextSendTime' \in 0 .. MaxTime + mSendInterval
    BY <1>9 DEF SetNextSendTime, NextSendTime
  <2>3. QED
    BY <1>9, <2>1, <2>2 DEF SetNextSendTime
<1>10. CASE \/ \E p \in Platforms : Break(p)
            \/ \E c \in Commands : AgentSends(c)
            \/ UNCHANGED collectorVars
  BY <1>10 DEF Break, AgentSends, collectorVars
<1>11. QED
  BY <1>1, <1>2, <1>3, <1>4, <1>5, <1>6, <1>7, <1>8, <1>9, <1>10
  DEF CollectorNext, Lifecycle, Callback

\* The number of a command is one the agent used, wherever the command is.
LEMMA StepCommandBounds ==
    LocalType /\ CommandBounds /\ [CollectorNext]_collectorVars
      => CommandBounds'
<1> SUFFICES ASSUME LocalType, CommandBounds, [CollectorNext]_collectorVars
             PROVE  CommandBounds'
  OBVIOUS
<1> USE CollectorAssumption DEF Goto, CommandBounds, senderVars
<1>1. CASE AddedToSimulation
  BY <1>1 DEF AddedToSimulation, KeepStatics, Unturned
<1>2. CASE InitializeSender \/ InitializeRecv \/ Complete \/ Tick
  BY <1>2 DEF InitializeSender, InitializeRecv, Complete, Tick
<1>3. CASE Start
  BY <1>3 DEF Start, LocalType
<1>4. CASE FlagStartFrame
  BY <1>4 DEF FlagStartFrame, LocalType
<1>5. CASE Shutdown \/ DestroySender
  BY <1>5, EmptySeq DEF Shutdown, DestroySender, SenderShutdown
<1>6. ASSUME NEW t \in Threads, NEW p \in Platforms, OnMoverUpdated(t, p)
      PROVE  CommandBounds'
  BY <1>6 DEF OnMoverUpdated, LocalType
<1>7. ASSUME NEW t \in Threads, Receive(t)
      PROVE  CommandBounds'
  <2>1. PICK result \in {NoData} \cup
                        {<<m>> : m \in {inbox[i] : i \in DOMAIN inbox}} :
          /\ ReceiveAgentData(result)
          /\ frame' = [frame EXCEPT ![t].agentData = result]
          /\ Goto(t, IF result = NoData THEN "apply" ELSE "cache")
    BY <1>7 DEF Receive
  <2>2. result # NoData => Head(result).n \in 0 .. MaxCommands
    <3>1. ASSUME NEW i \in DOMAIN inbox, result = <<inbox[i]>>
          PROVE  Head(result).n \in 0 .. MaxCommands
      <4>1. Head(result) = inbox[i]
        BY <3>1
      <4>2. i \in 1 .. Len(inbox)
        BY LenProperties DEF LocalType
      <4>3. QED
        BY <4>1, <4>2
    <3>2. QED
      BY <2>1, <3>1
  <2>3. \A i \in 1 .. Len(inbox') : inbox'[i].n \in 0 .. MaxCommands
    <3>1. CASE inbox' = inbox
      BY <3>1
    <3>2. CASE inbox # <<>> /\ inbox' = Tail(inbox)
      BY <3>2, HeadTailProperties, LenProperties DEF LocalType
    <3>3. QED
      BY <2>1, <3>1, <3>2 DEF ReceiveAgentData
  <2>4. \A u \in Threads : pc'[u] = "cache"
          => /\ frame'[u].agentData # NoData
             /\ Head(frame'[u].agentData).n \in 0 .. MaxCommands
    <3>1. frame'[t].agentData = result
      BY <2>1 DEF LocalType, Locals
    <3>2. \A u \in Threads \ {t} : frame'[u] = frame[u] /\ pc'[u] = pc[u]
      BY <2>1 DEF LocalType
    <3>3. pc'[t] = "cache" => result # NoData
      BY <2>1 DEF LocalType
    <3>4. QED
      BY <2>2, <3>1, <3>2, <3>3
  <2>5. QED
    BY <1>7, <2>3, <2>4 DEF Receive
<1>8. ASSUME NEW t \in Threads, HandleAgentCommand(t)
      PROVE  CommandBounds'
  <2>1. Head(frame[t].agentData).n \in 0 .. MaxCommands
    BY <1>8 DEF HandleAgentCommand
  <2>2. /\ DOMAIN gLatestAgentCommands' = Platforms
        /\ \A p \in Platforms :
             \/ gLatestAgentCommands'[p] = gLatestAgentCommands[p]
             \/ gLatestAgentCommands'[p].n = Head(frame[t].agentData).n
    BY <1>8 DEF HandleAgentCommand, Latest
  <2>3. \A u \in Threads : pc'[u] = "cache" => pc[u] = "cache"
    BY <1>8 DEF HandleAgentCommand, LocalType
  <2>4. QED
    BY <1>8, <2>1, <2>2, <2>3 DEF HandleAgentCommand
<1>9. ASSUME NEW t \in Threads, ApplyLatestCommand(t)
      PROVE  CommandBounds'
  <2>1. \A p \in Platforms : \/ heading'[p] = heading[p]
                             \/ heading'[p].n = gLatestAgentCommands[p].n
    BY <1>9 DEF ApplyLatestCommand
  <2>2. DOMAIN heading' = Platforms
    BY <1>9 DEF ApplyLatestCommand
  <2>3. \A u \in Threads : pc'[u] = "cache" => pc[u] = "cache"
    BY <1>9 DEF ApplyLatestCommand, LocalType
  <2>4. QED
    BY <1>9, <2>1, <2>2, <2>3 DEF ApplyLatestCommand
<1>10. ASSUME NEW t \in Threads, Pace(t) \/ Send(t)
       PROVE  CommandBounds'
  BY <1>10 DEF Pace, Send, LocalType
<1>11. ASSUME NEW t \in Threads, Build(t) \/ SetNextSendTime(t)
       PROVE  CommandBounds'
  BY <1>11 DEF Build, SetNextSendTime, LocalType
<1>12. ASSUME NEW c \in Commands, AgentSends(c)
       PROVE  CommandBounds'
  <2>1. sent' \in 0 .. MaxCommands
    BY <1>12 DEF AgentSends
  <2>2. \A i \in 1 .. Len(inbox') : inbox'[i].n \in 0 .. MaxCommands
    <3> DEFINE m == [n |-> sent + 1, fits |-> c.fits,
                     isCommand |-> c.isCommand, actions |-> c.actions]
    <3>1. inbox' = Append(inbox, m) /\ m \in Received /\ m.n = sent'
      BY <1>12 DEF AgentSends, Received, LocalType
    <3> HIDE DEF m
    <3>2. /\ Len(inbox') = Len(inbox) + 1
          /\ \A i \in 1 .. Len(inbox) : inbox'[i] = inbox[i]
          /\ inbox'[Len(inbox) + 1] = m
      BY <3>1, AppendProperties DEF LocalType
    <3>3. Len(inbox) \in Nat
      BY LenProperties DEF LocalType
    <3>4. QED
      BY <2>1, <3>1, <3>2, <3>3
  <2>3. QED
    BY <1>12, <2>1, <2>2 DEF AgentSends
<1>13. CASE (\E p \in Platforms : Break(p)) \/ UNCHANGED collectorVars
  BY <1>13 DEF Break, collectorVars
<1>14. QED
  BY <1>1, <1>2, <1>3, <1>4, <1>5, <1>6, <1>7, <1>8, <1>9, <1>10, <1>11,
     <1>12, <1>13
  DEF CollectorNext, Lifecycle, Callback

\* Every variable of the collector keeps its type and its bound, for any
\* number of callback threads and simulations.
THEOREM CollectorTypeCorrect == CollectorSpec => []CollectorTypeOK
<1> DEFINE Bounds == LocalType /\ FlagTypes /\ TimeBounds /\ CommandBounds
<1>1. CollectorInit => Bounds
  <2> SUFFICES ASSUME CollectorInit PROVE Bounds
    OBVIOUS
  <2>1. Len(inbox) = 0
    BY EmptySeq DEF CollectorInit, SenderInit
  <2>2. LocalType /\ FlagTypes
    BY InitLocalType DEF CollectorInit, SenderInit, FlagTypes
  <2>3. TimeBounds
    BY CollectorAssumption DEF CollectorInit, TimeBounds, Idle
  <2>4. CommandBounds
    BY CollectorAssumption, <2>1
    DEF CollectorInit, CommandBounds, NoCommand, Unturned
  <2>5. QED
    BY <2>2, <2>3, <2>4
<1>2. Bounds /\ [CollectorNext]_collectorVars => Bounds'
  BY StepLocalType, StepFlagTypes, StepTimeBounds, StepCommandBounds
<1>3. Bounds /\ SocketLife => CollectorTypeOK
  BY DEF LocalType, FlagTypes, TimeBounds, CommandBounds, SocketLife, Steps,
     CollectorTypeOK
<1>4. QED
  <2> HIDE DEF Bounds
  <2>1. CollectorSpec => []Bounds
    BY <1>1, <1>2, PTL DEF CollectorSpec
  <2>2. QED
    BY <1>3, <2>1, SocketLifeInvariant, PTL
-----------------------------------------------------------------------------
(* Frames, when the simulation thread is the only one to call back.        *)

\* Where the simulation thread can be in each phase of the simulation.
PhaseInv ==
    /\ phase \in {"none", "added", "sender", "failed", "initialized",
                  "destroying"} => pc[SimThread] = "idle"
    /\ phase \in {"none", "destroying"} => ~mMoverUpdatedCallback
    /\ phase \in {"added", "sender", "failed", "initialized"}
         => ~mHasSentStartFrame

ThisRun(i) == i \in 1 .. Len(wire) /\ wire[i].frame.run = run

\* How far the frames of this simulation are from the next one, at each point
\* of the callback.
PaceInv ==
    /\ \A i \in 1 .. Len(wire) : wire[i].frame.run <= run
    /\ phase \in {"added", "sender", "failed", "initialized"}
         => \A i \in 1 .. Len(wire) : ~ThisRun(i)
    /\ pc[SimThread] \in {"idle", "receive", "cache", "apply", "pace"}
         => \A i \in 1 .. Len(wire) : ThisRun(i)
              => wire[i].frame.time + mSendInterval <= mNextSendTime
    /\ pc[SimThread] \in {"build", "send"}
         => \A i \in 1 .. Len(wire) : ThisRun(i)
              => wire[i].frame.time + mSendInterval <= frame[SimThread].at
    /\ pc[SimThread] \in {"sent", "next"}
         => \A i \in 1 .. Len(wire) : ThisRun(i)
              => wire[i].frame.time <= frame[SimThread].at

Paced ==
    \A i, j \in 1 .. Len(wire) :
      i < j /\ wire[i].frame.run = wire[j].frame.run
        => wire[j].frame.time >= wire[i].frame.time + mSendInterval

\* A number is on the wire only after BuildJson has moved past it.
SeqInv ==
    /\ \A i \in 1 .. Len(wire) : wire[i].seq < sSeq
    /\ pc[SimThread] = "send"
         => /\ \A i \in 1 .. Len(wire) : wire[i].seq < frame[SimThread].seq
            /\ mInitialized => frame[SimThread].seq < sSeq

Numbered ==
    \A i, j \in 1 .. Len(wire) : i < j => wire[i].seq < wire[j].seq

\* Callbacks are only on between Start and the end of the simulation.
LEMMA StepPhase ==
    ASSUME Threads = {SimThread}, LocalType, PhaseInv,
           [CollectorNext]_collectorVars
    PROVE  PhaseInv'
<1> USE DEF world, flags, PhaseInv, LocalType, Goto
<1>1. CASE AddedToSimulation
  BY <1>1 DEF AddedToSimulation, KeepStatics
<1>2. CASE InitializeSender \/ InitializeRecv
  BY <1>2 DEF InitializeSender, InitializeRecv
<1>3. CASE Start
  BY <1>3 DEF Start
<1>4. CASE FlagStartFrame
  BY <1>4 DEF FlagStartFrame
<1>5. CASE Complete \/ Tick
  BY <1>5 DEF Complete, Tick, Running
<1>6. CASE Shutdown \/ DestroySender
  BY <1>6 DEF Shutdown, DestroySender
<1>7. ASSUME NEW p \in Platforms, OnMoverUpdated(SimThread, p)
      PROVE  PhaseInv'
  BY <1>7 DEF OnMoverUpdated
<1>8. CASE Receive(SimThread)
  BY <1>8 DEF Receive
<1>9. CASE \/ HandleAgentCommand(SimThread) \/ ApplyLatestCommand(SimThread)
           \/ Pace(SimThread) \/ Build(SimThread)
  BY <1>9 DEF HandleAgentCommand, ApplyLatestCommand, Pace, Build
<1>10. CASE Send(SimThread) \/ SetNextSendTime(SimThread)
  BY <1>10 DEF Send, SetNextSendTime
<1>11. ASSUME NEW p \in Platforms, Break(p)
       PROVE  PhaseInv'
  BY <1>11 DEF Break, Running
<1>12. ASSUME NEW c \in Commands, AgentSends(c)
       PROVE  PhaseInv'
  BY <1>12 DEF AgentSends
<1>13. CASE UNCHANGED collectorVars
  BY <1>13 DEF collectorVars
<1>14. QED
  BY <1>1, <1>2, <1>3, <1>4, <1>5, <1>6, <1>7, <1>8, <1>9, <1>10, <1>11,
     <1>12, <1>13
  DEF CollectorNext, Lifecycle, Callback

\* Times, runs and sequence numbers are numbers, on the wire and in a frame
\* being built.
LEMMA FrameType ==
    ASSUME LocalType, SimThread \in Threads
    PROVE  /\ frame[SimThread].at \in Nat /\ frame[SimThread].seq \in Nat
           /\ Len(wire) \in Nat
           /\ \A i \in 1 .. Len(wire) :
                /\ wire[i].seq \in Nat
                /\ wire[i].frame.run \in Nat /\ wire[i].frame.time \in Nat
<1>1. frame[SimThread] \in Locals
  BY DEF LocalType
<1>2. \A i \in 1 .. Len(wire) : wire[i] \in Sent
  BY ElementOfSeq DEF LocalType
<1>3. Len(wire) \in Nat
  BY LenProperties DEF LocalType
<1>4. QED
  BY <1>1, <1>2, <1>3 DEF Locals, Sent

\* A send appends the frame of the thread's locals, or nothing.
LEMMA SendAppends ==
    ASSUME LocalType, SimThread \in Threads, Send(SimThread)
    PROVE  \/ wire' = wire
           \/ /\ Len(wire') = Len(wire) + 1
              /\ \A i \in 1 .. Len(wire) : wire'[i] = wire[i]
              /\ wire'[Len(wire) + 1] =
                   [seq |-> frame[SimThread].seq,
                    frame |-> [run |-> run, time |-> frame[SimThread].at]]
              /\ mInitialized
<1> DEFINE e == [seq |-> frame[SimThread].seq,
                 frame |-> [run |-> run, time |-> frame[SimThread].at]]
<1>1. wire' = wire \/ (mInitialized /\ wire' = Append(wire, e))
  BY DEF Send, SendTo
<1>2. e \in Sent
  BY FrameType DEF LocalType, Sent
<1>3. wire \in Seq(Sent)
  BY DEF LocalType
<1> HIDE DEF e
<1>4. /\ Len(Append(wire, e)) = Len(wire) + 1
      /\ \A i \in 1 .. Len(wire) : Append(wire, e)[i] = wire[i]
      /\ Append(wire, e)[Len(wire) + 1] = e
  BY <1>2, <1>3, AppendProperties
<1>5. QED
  BY <1>1, <1>4 DEF e

\* Start, the pace check and the setting of the next send time keep the
\* distance of the next frame from the ones sent.
LEMMA StepPace ==
    ASSUME Threads = {SimThread}, LocalType, PhaseInv, PaceInv,
           [CollectorNext]_collectorVars
    PROVE  PaceInv'
<1> USE FrameType, CollectorAssumption DEF world, flags, senderVars
<1>1. CASE AddedToSimulation
  BY <1>1
  DEF AddedToSimulation, KeepStatics, PaceInv, ThisRun, PhaseInv, LocalType
<1>2. CASE InitializeSender \/ InitializeRecv
  BY <1>2 DEF InitializeSender, InitializeRecv, PaceInv, ThisRun
<1>3. CASE Start
  <2>1. \A i \in 1 .. Len(wire) : ~ThisRun(i)
    BY <1>3 DEF Start, PaceInv
  <2>2. wire' = wire /\ run' = run /\ pc'[SimThread] = "build"
    BY <1>3 DEF Start, Goto, LocalType
  <2>3. QED
    BY <1>3, <2>1, <2>2 DEF Start, PaceInv, ThisRun
<1>4. CASE FlagStartFrame
  BY <1>4 DEF FlagStartFrame, Goto, PaceInv, ThisRun, LocalType
<1>5. CASE Complete \/ Tick
  BY <1>5 DEF Complete, Tick, PaceInv, ThisRun
<1>6. CASE Shutdown \/ DestroySender
  BY <1>6 DEF Shutdown, DestroySender, PaceInv, ThisRun
<1>7. ASSUME NEW p \in Platforms, OnMoverUpdated(SimThread, p)
      PROVE  PaceInv'
  BY <1>7 DEF OnMoverUpdated, Goto, PaceInv, ThisRun, LocalType
<1>8. CASE Receive(SimThread)
  <2>1. /\ pc[SimThread] = "receive" /\ pc'[SimThread] \in {"apply", "cache"}
        /\ UNCHANGED <<wire, run, phase, mNextSendTime>>
    BY <1>8 DEF Receive, Goto, LocalType
  <2>2. QED
    BY <2>1 DEF PaceInv, ThisRun
<1>9. CASE HandleAgentCommand(SimThread) \/ ApplyLatestCommand(SimThread)
  BY <1>9 DEF HandleAgentCommand, ApplyLatestCommand, Goto, PaceInv, ThisRun,
     LocalType
<1>10. CASE Pace(SimThread)
  <2>1. /\ pc[SimThread] = "pace"
        /\ UNCHANGED <<wire, run, phase, mNextSendTime, frame>>
        /\ IF frame[SimThread].at < mNextSendTime
             THEN pc'[SimThread] = "idle" ELSE pc'[SimThread] = "build"
    BY <1>10 DEF Pace, Goto, LocalType
  <2>2. mNextSendTime \in Nat /\ mSendInterval \in Nat
    BY DEF LocalType
  <2>3. CASE frame[SimThread].at < mNextSendTime
    BY <2>1, <2>3 DEF PaceInv, ThisRun
  <2>4. CASE ~(frame[SimThread].at < mNextSendTime)
    <3>1. \A t \in Nat : t + mSendInterval <= mNextSendTime
                          => t + mSendInterval <= frame[SimThread].at
      BY <2>2, <2>4
    <3>2. \A i \in 1 .. Len(wire) : ThisRun(i)
            => wire[i].frame.time + mSendInterval <= frame[SimThread].at
      BY <2>1, <3>1 DEF PaceInv
    <3>3. QED
      BY <2>1, <2>4, <3>2 DEF PaceInv, ThisRun
  <2>5. QED
    BY <2>3, <2>4
<1>11. CASE Build(SimThread)
  <2>1. /\ pc[SimThread] = "build" /\ pc'[SimThread] = "send"
        /\ UNCHANGED <<wire, run, phase, mNextSendTime>>
        /\ frame'[SimThread].at = frame[SimThread].at
    BY <1>11 DEF Build, Goto, LocalType, Locals
  <2>2. QED
    BY <2>1 DEF PaceInv, ThisRun
<1>12. CASE Send(SimThread)
  <2>1. /\ pc[SimThread] = "send" /\ pc'[SimThread] \in {"sent", "next"}
        /\ UNCHANGED <<run, phase, mNextSendTime, frame>>
    BY <1>12 DEF Send, Goto, LocalType
  <2>2. \A i \in 1 .. Len(wire) : /\ wire[i].frame.run <= run
                                  /\ ThisRun(i) => wire[i].frame.time
                                                     <= frame[SimThread].at
    BY <2>1 DEF PaceInv
  <2>3. phase \notin {"added", "sender", "failed", "initialized"}
    BY <2>1 DEF PhaseInv
  <2>4. CASE wire' = wire
    BY <2>1, <2>2, <2>3, <2>4 DEF PaceInv, ThisRun
  <2>5. CASE wire' # wire
    <3>1. /\ Len(wire') = Len(wire) + 1
          /\ \A i \in 1 .. Len(wire) : wire'[i] = wire[i]
          /\ wire'[Len(wire) + 1].frame = [run |-> run, time |-> frame[SimThread].at]
      BY <1>12, <2>5, SendAppends
    <3>2. ASSUME NEW i \in 1 .. Len(wire')
          PROVE  /\ wire'[i].frame.run <= run
                 /\ wire'[i].frame.run = run
                      => wire'[i].frame.time <= frame[SimThread].at
      <4>1. CASE i \in 1 .. Len(wire)
        BY <2>2, <3>1, <4>1 DEF ThisRun
      <4>2. CASE i = Len(wire) + 1
        BY <3>1, <4>2 DEF LocalType
      <4>3. QED
        BY <3>1, <4>1, <4>2
    <3>3. QED
      BY <2>1, <2>3, <3>2 DEF PaceInv, ThisRun
  <2>6. QED
    BY <2>4, <2>5
<1>13. CASE SetNextSendTime(SimThread)
  <2>1. /\ pc[SimThread] = "next" /\ pc'[SimThread] = "idle"
        /\ UNCHANGED <<wire, run>>
        /\ mNextSendTime' = frame[SimThread].at + mSendInterval
        /\ phase' \in {"started", phase}
    BY <1>13 DEF SetNextSendTime, NextSendTime, Goto, LocalType
  <2>2. phase \notin {"added", "sender", "failed", "initialized"}
    BY <2>1 DEF PhaseInv
  <2>3. QED
    BY <2>1, <2>2 DEF PaceInv, ThisRun
<1>14. ASSUME NEW p \in Platforms, Break(p)
       PROVE  PaceInv'
  BY <1>14 DEF Break, PaceInv, ThisRun
<1>15. ASSUME NEW c \in Commands, AgentSends(c)
       PROVE  PaceInv'
  BY <1>15 DEF AgentSends, PaceInv, ThisRun
<1>16. CASE UNCHANGED collectorVars
  BY <1>16 DEF collectorVars, PaceInv, ThisRun
<1>17. QED
  BY <1>1, <1>2, <1>3, <1>4, <1>5, <1>6, <1>7, <1>8, <1>9, <1>10, <1>11,
     <1>12, <1>13, <1>14, <1>15, <1>16
  DEF CollectorNext, Lifecycle, Callback

\* BuildJson moves the counter, and nothing moves it back between simulations.
LEMMA StepSeq ==
    ASSUME Threads = {SimThread}, LocalType, PhaseInv, SeqInv,
           [CollectorNext]_collectorVars
    PROVE  SeqInv'
<1> USE FrameType DEF world, flags, socketVars, senderVars
<1> sSeq \in Nat
  BY DEF LocalType
<1>1. CASE AddedToSimulation
  BY <1>1 DEF AddedToSimulation, KeepStatics, SeqInv
<1>2. CASE InitializeSender \/ InitializeRecv
  BY <1>2 DEF InitializeSender, InitializeRecv, SeqInv, PhaseInv
<1>3. CASE Start
  BY <1>3 DEF Start, Goto, SeqInv, LocalType
<1>4. CASE FlagStartFrame
  BY <1>4 DEF FlagStartFrame, Goto, SeqInv, LocalType
<1>5. CASE Complete \/ Tick
  BY <1>5 DEF Complete, Tick, SeqInv
<1>6. CASE Shutdown \/ DestroySender
  BY <1>6 DEF Shutdown, DestroySender, SenderShutdown, SeqInv
<1>7. ASSUME NEW p \in Platforms, OnMoverUpdated(SimThread, p)
      PROVE  SeqInv'
  BY <1>7 DEF OnMoverUpdated, Goto, SeqInv, LocalType
<1>8. CASE Receive(SimThread)
  <2>1. /\ pc'[SimThread] \in {"apply", "cache"}
        /\ UNCHANGED <<wire, sSeq>>
    BY <1>8 DEF Receive, Goto, LocalType
  <2>2. QED
    BY <2>1 DEF SeqInv
<1>9. CASE \/ HandleAgentCommand(SimThread) \/ ApplyLatestCommand(SimThread)
           \/ Pace(SimThread)
  BY <1>9 DEF HandleAgentCommand, ApplyLatestCommand, Pace, Goto, SeqInv,
     LocalType
<1>10. CASE Build(SimThread)
  <2>1. /\ frame'[SimThread].seq = sSeq
        /\ UNCHANGED <<wire, mInitialized>>
        /\ sSeq' = IF mInitialized THEN sSeq + 1 ELSE sSeq
    BY <1>10 DEF Build, BuildJson, LocalType, Locals
  <2>2. QED
    BY <2>1 DEF SeqInv
<1>11. CASE Send(SimThread)
  <2>1. /\ pc[SimThread] = "send" /\ pc'[SimThread] # "send"
        /\ sSeq' = sSeq
    BY <1>11 DEF Send, Goto, LocalType
  <2>2. \A i \in 1 .. Len(wire') : wire'[i].seq < sSeq
    BY <1>11, <2>1, SendAppends DEF SeqInv
  <2>3. QED
    BY <2>1, <2>2 DEF SeqInv
<1>12. CASE SetNextSendTime(SimThread)
  BY <1>12 DEF SetNextSendTime, NextSendTime, Goto, SeqInv, LocalType
<1>13. ASSUME NEW p \in Platforms, Break(p)
       PROVE  SeqInv'
  BY <1>13 DEF Break, SeqInv
<1>14. ASSUME NEW c \in Commands, AgentSends(c)
       PROVE  SeqInv'
  BY <1>14 DEF AgentSends, SeqInv
<1>15. CASE UNCHANGED collectorVars
  BY <1>15 DEF collectorVars, SeqInv
<1>16. QED
  BY <1>1, <1>2, <1>3, <1>4, <1>5, <1>6, <1>7, <1>8, <1>9, <1>10, <1>11,
     <1>12, <1>13, <1>14, <1>15
  DEF CollectorNext, Lifecycle, Callback

\* Frames reach the network in Send and nowhere else.
LEMMA OnlySendWrites ==
    ASSUME Threads = {SimThread}, [CollectorNext]_collectorVars
    PROVE  wire' = wire \/ Send(SimThread)
<1> USE DEF senderVars
<1>1. CASE Lifecycle \/ Tick
  BY <1>1
  DEF Lifecycle, AddedToSimulation, KeepStatics, InitializeSender,
     InitializeRecv, Start, FlagStartFrame, Complete, Shutdown, DestroySender, Tick
<1>2. CASE Callback(SimThread)
  BY <1>2 DEF Callback, OnMoverUpdated, Receive, HandleAgentCommand,
     ApplyLatestCommand, Pace, Build, SetNextSendTime
<1>3. CASE \/ \E p \in Platforms : Break(p)
           \/ \E c \in Commands : AgentSends(c)
           \/ UNCHANGED collectorVars
  BY <1>3 DEF Break, AgentSends, collectorVars
<1>4. QED
  BY <1>1, <1>2, <1>3 DEF CollectorNext

\* A frame that goes out keeps its distance from, and its number above, all
\* the frames before it.
LEMMA StepWire ==
    ASSUME Threads = {SimThread}, LocalType, PaceInv, SeqInv, Paced, Numbered,
           [CollectorNext]_collectorVars
    PROVE  Paced' /\ Numbered'
<1> USE FrameType
<1>1. CASE wire' = wire
  BY <1>1 DEF Paced, Numbered
<1>2. CASE wire' # wire
  <2>1. Send(SimThread) /\ pc[SimThread] = "send"
    BY <1>2, OnlySendWrites DEF Send
  <2>2. /\ Len(wire') = Len(wire) + 1
        /\ \A i \in 1 .. Len(wire) : wire'[i] = wire[i]
        /\ wire'[Len(wire) + 1].seq = frame[SimThread].seq
        /\ wire'[Len(wire) + 1].frame.run = run
        /\ wire'[Len(wire) + 1].frame.time = frame[SimThread].at
    BY <1>2, <2>1, SendAppends
  <2>3. \A i \in 1 .. Len(wire) :
          /\ wire[i].seq < frame[SimThread].seq
          /\ wire[i].frame.run = run
               => wire[i].frame.time + mSendInterval <= frame[SimThread].at
    BY <2>1 DEF PaceInv, SeqInv, ThisRun
  <2>4. ASSUME NEW i \in 1 .. Len(wire'), NEW j \in 1 .. Len(wire'), i < j
        PROVE  /\ wire'[i].seq < wire'[j].seq
               /\ wire'[i].frame.run = wire'[j].frame.run
                    => wire'[j].frame.time >= wire'[i].frame.time + mSendInterval
    <3>1. i \in 1 .. Len(wire) /\ wire'[i] = wire[i]
      BY <2>2, <2>4
    <3>2. CASE j \in 1 .. Len(wire)
      BY <2>2, <2>4, <3>1, <3>2 DEF Paced, Numbered
    <3>3. CASE j = Len(wire) + 1
      BY <2>2, <2>3, <3>1, <3>3, CollectorAssumption
    <3>4. QED
      BY <2>2, <3>2, <3>3
  <2>5. QED
    BY <2>4 DEF Paced, Numbered
<1>3. QED
  BY <1>1, <1>2

\* The strengthening under which pacing and numbering are inductive.
WireInv == LocalType /\ PhaseInv /\ PaceInv /\ SeqInv /\ Paced /\ Numbered

\* With callbacks on the simulation thread alone, WireInv always holds.
LEMMA WireInvariant ==
    ASSUME Threads = {SimThread}
    PROVE  CollectorSpec => []WireInv
<1>1. CollectorInit => WireInv
  <2> SUFFICES ASSUME CollectorInit PROVE WireInv
    OBVIOUS
  <2>1. LocalType
    BY InitLocalType
  <2>2. Len(wire) = 0
    BY EmptySeq DEF CollectorInit, SenderInit
  <2>3. pc[SimThread] = "idle" /\ phase = "none" /\ ~mMoverUpdatedCallback
    BY CollectorAssumption DEF CollectorInit
  <2>4. QED
    BY <2>1, <2>2, <2>3
    DEF WireInv, PhaseInv, PaceInv, SeqInv, Paced, Numbered
<1>2. WireInv /\ [CollectorNext]_collectorVars => WireInv'
  BY StepLocalType, StepPhase, StepPace, StepSeq, StepWire DEF WireInv
<1>3. QED
  BY <1>1, <1>2, PTL DEF CollectorSpec

\* Consecutive frames of a simulation are a send interval apart, whatever the
\* interval, the movers and the failures of the network, as long as movers are
\* updated by the simulation thread (OnMoverUpdated takes no lock).
THEOREM FramesArePaced ==
    ASSUME Threads = {SimThread}
    PROVE  CollectorSpec => []FramesPaced
<1>1. WireInv => FramesPaced
  BY LenProperties DEF WireInv, LocalType, Paced, FramesPaced
<1>2. QED
  BY <1>1, WireInvariant, PTL

\* Sequence numbers increase along the wire through every failed send and every
\* new simulation of the process, under the same condition on the threads.
THEOREM SequenceIncreases ==
    ASSUME Threads = {SimThread}
    PROVE  CollectorSpec => []SeqIncreases
<1>1. WireInv => SeqIncreases
  BY LenProperties DEF WireInv, LocalType, Numbered, SeqIncreases
<1>2. QED
  BY <1>1, WireInvariant, PTL
-----------------------------------------------------------------------------
(* Commands, when the simulation thread is the only one to call back.      *)

\* Numbers grow along the way of a command: what steers a platform is not
\* newer than what is cached for it, that is older than the datagram just
\* received, and that is older than any datagram still queued.
CachedUpTo(n) == \A p \in Platforms : gLatestAgentCommands[p].n <= n
CachedBefore(n) == \A p \in Platforms : gLatestAgentCommands[p].n < n
QueuedAfter(n) == \A i \in 1 .. Len(inbox) : n < inbox[i].n

CommandInv ==
    /\ DOMAIN heading = Platforms /\ DOMAIN gLatestAgentCommands = Platforms
    /\ \A p \in Platforms :
         /\ heading[p].n \in Nat /\ gLatestAgentCommands[p].n \in Nat
         /\ heading[p].n <= gLatestAgentCommands[p].n
    /\ CachedUpTo(sent)
    /\ \A i \in 1 .. Len(inbox) : /\ inbox[i].n <= sent
                                  /\ CachedBefore(inbox[i].n)
    /\ \A i, j \in 1 .. Len(inbox) : i < j => inbox[i].n < inbox[j].n
    /\ pc[SimThread] = "cache"
         => /\ frame[SimThread].agentData # NoData
            /\ CachedBefore(Head(frame[SimThread].agentData).n)
            /\ QueuedAfter(Head(frame[SimThread].agentData).n)
            /\ Head(frame[SimThread].agentData).n <= sent

\* Datagrams are numbered by numbers, queued or just received.
LEMMA InboxType ==
    ASSUME LocalType, SimThread \in Threads
    PROVE  /\ sent \in Nat /\ Len(inbox) \in Nat
           /\ \A i \in 1 .. Len(inbox) : inbox[i].n \in Nat
           /\ frame[SimThread].agentData # NoData
                => Head(frame[SimThread].agentData).n \in Nat
<1>1. \A i \in 1 .. Len(inbox) : inbox[i] \in Received
  BY ElementOfSeq DEF LocalType
<1>2. frame[SimThread].agentData \in {NoData} \cup {<<m>> : m \in Received}
  BY DEF LocalType, Locals
<1>3. Len(inbox) \in Nat
  BY LenProperties DEF LocalType
<1>4. ASSUME NEW m \in Received
      PROVE  Head(<<m>>).n \in Nat
  BY <1>4 DEF Received
<1>5. QED
  BY <1>1, <1>2, <1>3, <1>4 DEF LocalType, Received

\* Receiving takes the oldest datagram off the queue.
LEMMA ReceiveTakesHead ==
    ASSUME LocalType, SimThread \in Threads, Receive(SimThread)
    PROVE  \/ pc'[SimThread] = "apply" /\ inbox' = inbox
           \/ /\ inbox # <<>> /\ inbox' = Tail(inbox)
              /\ \/ pc'[SimThread] = "apply"
                 \/ /\ pc'[SimThread] = "cache"
                    /\ frame'[SimThread].agentData = <<inbox[1]>>
<1>1. PICK result \in {NoData} \cup {<<m>> : m \in {inbox[i] : i \in DOMAIN inbox}} :
        /\ ReceiveAgentData(result)
        /\ frame' = [frame EXCEPT ![SimThread].agentData = result]
        /\ pc' = [pc EXCEPT ![SimThread] = IF result = NoData THEN "apply"
                                                          ELSE "cache"]
  BY DEF Receive, Goto
<1>2. frame'[SimThread].agentData = result
  BY <1>1 DEF LocalType, Locals
<1>3. pc'[SimThread] = IF result = NoData THEN "apply" ELSE "cache"
  BY <1>1 DEF LocalType
<1>4. CASE ~mRecvInitialized \/ inbox = <<>>
  BY <1>1, <1>3, <1>4 DEF ReceiveAgentData
<1>5. CASE ~(~mRecvInitialized \/ inbox = <<>>)
  <2>1. inbox' = Tail(inbox) /\ (result = <<Head(inbox)>> \/ result = NoData)
    BY <1>1, <1>5 DEF ReceiveAgentData
  <2>2. Head(inbox) = inbox[1]
    BY <1>5 DEF LocalType
  <2>3. QED
    BY <1>2, <1>3, <1>5, <2>1, <2>2
<1>6. QED
  BY <1>4, <1>5

\* No step lets an older command overtake a newer one.
LEMMA StepCommand ==
    ASSUME Threads = {SimThread}, LocalType, PhaseInv, CommandInv,
           [CollectorNext]_collectorVars
    PROVE  CommandInv'
<1> USE InboxType DEF world, flags, socketVars, senderVars
<1>1. CASE /\ UNCHANGED <<heading, gLatestAgentCommands, sent, inbox>>
           /\ pc'[SimThread] # "cache" \/ UNCHANGED <<pc, frame>>
  BY <1>1 DEF CommandInv, CachedUpTo, CachedBefore, QueuedAfter
<1>2. CASE AddedToSimulation
  <2>1. /\ heading' = [p \in Platforms |-> Unturned]
        /\ UNCHANGED <<gLatestAgentCommands, sent, inbox, pc, frame>>
    BY <1>2 DEF AddedToSimulation, KeepStatics
  <2>2. DOMAIN heading' = Platforms /\ \A p \in Platforms : heading'[p].n = 0
    BY <2>1 DEF Unturned
  <2>3. QED
    BY <2>1, <2>2 DEF CommandInv, CachedUpTo, CachedBefore, QueuedAfter
<1>3. CASE InitializeSender \/ InitializeRecv \/ Complete \/ Tick
  BY <1>1, <1>3 DEF InitializeSender, InitializeRecv, Complete, Tick
<1>4. CASE Start \/ FlagStartFrame
  BY <1>1, <1>4 DEF Start, FlagStartFrame, Goto, LocalType
<1>5. CASE Shutdown \/ DestroySender
  <2>1. /\ inbox' = <<>>
        /\ UNCHANGED <<heading, gLatestAgentCommands, sent, pc, frame>>
    BY <1>5 DEF Shutdown, DestroySender, SenderShutdown
  <2>2. Len(inbox') = 0
    BY <2>1, EmptySeq
  <2>3. QED
    BY <2>1, <2>2 DEF CommandInv, CachedUpTo, CachedBefore, QueuedAfter
<1>6. ASSUME NEW p \in Platforms, OnMoverUpdated(SimThread, p)
      PROVE  CommandInv'
  BY <1>1, <1>6 DEF OnMoverUpdated, Goto, LocalType
<1>7. CASE Receive(SimThread)
  <2>1. UNCHANGED <<heading, gLatestAgentCommands, sent>>
    BY <1>7 DEF Receive
  <2>2. CASE pc'[SimThread] = "apply" /\ inbox' = inbox
    BY <1>1, <2>1, <2>2
  <2>3. CASE /\ inbox # <<>> /\ inbox' = Tail(inbox)
             /\ \/ pc'[SimThread] = "apply"
                \/ /\ pc'[SimThread] = "cache"
                   /\ frame'[SimThread].agentData = <<inbox[1]>>
    <3>1. /\ Len(inbox) \in Nat /\ Len(inbox) > 0
          /\ Len(inbox') = Len(inbox) - 1
          /\ \A i \in 1 .. Len(inbox') : inbox'[i] = inbox[i + 1]
      BY <2>3, HeadTailProperties, EmptySeq, LenProperties DEF LocalType
    <3>2. ASSUME NEW i \in 1 .. Len(inbox')
          PROVE  inbox[1].n < inbox'[i].n
      <4>1. /\ 1 \in 1 .. Len(inbox) /\ i + 1 \in 1 .. Len(inbox) /\ 1 < i + 1
            /\ inbox'[i] = inbox[i + 1]
        BY <3>1
      <4>2. QED
        BY <4>1 DEF CommandInv
    <3>3. ASSUME NEW i \in 1 .. Len(inbox'), NEW j \in 1 .. Len(inbox'), i < j
          PROVE  inbox'[i].n < inbox'[j].n
      <4>1. /\ i + 1 \in 1 .. Len(inbox) /\ j + 1 \in 1 .. Len(inbox)
            /\ i + 1 < j + 1 /\ inbox'[i] = inbox[i + 1] /\ inbox'[j] = inbox[j + 1]
        BY <3>1, <3>3
      <4>2. QED
        BY <4>1 DEF CommandInv
    <3>4. ASSUME NEW i \in 1 .. Len(inbox')
          PROVE  inbox'[i].n <= sent /\ CachedBefore(inbox'[i].n)
      <4>1. i + 1 \in 1 .. Len(inbox) /\ inbox'[i] = inbox[i + 1]
        BY <3>1
      <4>2. QED
        BY <4>1 DEF CommandInv
    <3>5. inbox[1].n <= sent /\ CachedBefore(inbox[1].n)
      BY <3>1 DEF CommandInv
    <3>6. pc'[SimThread] = "cache"
            => /\ frame'[SimThread].agentData # NoData
               /\ Head(frame'[SimThread].agentData) = inbox[1]
      BY <2>3 DEF NoData
    <3>7. QED
      BY <2>1, <3>2, <3>3, <3>4, <3>5, <3>6
      DEF CommandInv, CachedUpTo, CachedBefore, QueuedAfter
  <2>4. QED
    BY <1>7, <2>2, <2>3, ReceiveTakesHead
<1>8. CASE HandleAgentCommand(SimThread)
  <2> DEFINE n == Head(frame[SimThread].agentData).n
  <2>1. /\ pc[SimThread] = "cache" /\ pc'[SimThread] # "cache"
        /\ UNCHANGED <<heading, sent, inbox>>
    BY <1>8 DEF HandleAgentCommand, Goto, LocalType
  <2>2. /\ DOMAIN gLatestAgentCommands' = Platforms
        /\ \A p \in Platforms : gLatestAgentCommands'[p].n
                                  \in {gLatestAgentCommands[p].n, n}
    BY <1>8 DEF HandleAgentCommand, Latest
  <2>3. n \in Nat /\ n <= sent /\ CachedBefore(n) /\ QueuedAfter(n)
    BY <2>1 DEF CommandInv
  <2> HIDE DEF n
  <2>4. \A p \in Platforms :
          /\ heading[p].n \in Nat /\ gLatestAgentCommands[p].n \in Nat
          /\ heading[p].n <= gLatestAgentCommands[p].n
          /\ gLatestAgentCommands[p].n < n
    BY <2>3 DEF CommandInv, CachedBefore
  <2>5. \A p \in Platforms :
          /\ gLatestAgentCommands'[p].n \in Nat
          /\ heading[p].n <= gLatestAgentCommands'[p].n
          /\ gLatestAgentCommands'[p].n <= n
    BY <2>2, <2>3, <2>4
  <2>6. \A i \in 1 .. Len(inbox) :
          \A p \in Platforms : gLatestAgentCommands'[p].n < inbox[i].n
    BY <2>3, <2>5 DEF QueuedAfter
  <2>7. \A p \in Platforms : gLatestAgentCommands'[p].n <= sent
    BY <2>3, <2>5
  <2>8. QED
    BY <2>1, <2>2, <2>5, <2>6, <2>7
    DEF CommandInv, CachedUpTo, CachedBefore, QueuedAfter
<1>9. CASE ApplyLatestCommand(SimThread)
  <2>1. /\ pc'[SimThread] # "cache"
        /\ UNCHANGED <<gLatestAgentCommands, sent, inbox>>
    BY <1>9 DEF ApplyLatestCommand, Goto, LocalType
  <2>2. /\ DOMAIN heading' = Platforms
        /\ \A p \in Platforms : heading'[p].n
                                  \in {heading[p].n, gLatestAgentCommands[p].n}
    BY <1>9 DEF ApplyLatestCommand, CommandInv
  <2>3. QED
    BY <2>1, <2>2 DEF CommandInv, CachedUpTo, CachedBefore, QueuedAfter
<1>10. CASE Pace(SimThread) \/ Build(SimThread) \/ Send(SimThread)
            \/ SetNextSendTime(SimThread)
  BY <1>1, <1>10 DEF Pace, Build, Send, SetNextSendTime, Goto, LocalType
<1>11. ASSUME NEW p \in Platforms, Break(p)
       PROVE  CommandInv'
  BY <1>1, <1>11 DEF Break
<1>12. ASSUME NEW c \in Commands, AgentSends(c)
       PROVE  CommandInv'
  <2> DEFINE m == [n |-> sent + 1, fits |-> c.fits,
                   isCommand |-> c.isCommand, actions |-> c.actions]
  <2>1. /\ inbox' = Append(inbox, m) /\ sent' = sent + 1
        /\ UNCHANGED <<heading, gLatestAgentCommands, pc, frame>>
    BY <1>12 DEF AgentSends
  <2>2. m \in Received /\ m.n = sent + 1
    BY DEF Received
  <2> HIDE DEF m
  <2>3. /\ Len(inbox') = Len(inbox) + 1
        /\ \A i \in 1 .. Len(inbox) : inbox'[i] = inbox[i]
        /\ inbox'[Len(inbox) + 1].n = sent + 1
    BY <2>1, <2>2, AppendProperties DEF LocalType
  <2>4. QED
    BY <2>1, <2>3 DEF CommandInv, CachedUpTo, CachedBefore, QueuedAfter
<1>13. CASE UNCHANGED collectorVars
  BY <1>1, <1>13 DEF collectorVars
<1>14. QED
  BY <1>2, <1>3, <1>4, <1>5, <1>6, <1>7, <1>8, <1>9, <1>10, <1>11, <1>12,
     <1>13
  DEF CollectorNext, Lifecycle, Callback

\* A queued, cached or applied command is never older than the one before it.
LEMMA CommandInvariant ==
    ASSUME Threads = {SimThread}
    PROVE  CollectorSpec => [](LocalType /\ CommandInv)
<1>1. CollectorInit => CommandInv
  <2> SUFFICES ASSUME CollectorInit PROVE CommandInv
    OBVIOUS
  <2>1. Len(inbox) = 0 /\ sent = 0
    BY EmptySeq DEF CollectorInit, SenderInit
  <2>2. /\ DOMAIN heading = Platforms /\ DOMAIN gLatestAgentCommands = Platforms
        /\ \A p \in Platforms :
             heading[p].n = 0 /\ gLatestAgentCommands[p].n = 0
    BY DEF CollectorInit, Unturned, NoCommand
  <2>3. pc[SimThread] = "idle"
    BY CollectorAssumption DEF CollectorInit
  <2>4. QED
    BY <2>1, <2>2, <2>3 DEF CommandInv, CachedUpTo, CachedBefore, QueuedAfter
<1>2. CollectorSpec => []WireInv
  BY WireInvariant
<1>3. WireInv => LocalType /\ PhaseInv
  BY DEF WireInv
<1>4. LocalType /\ PhaseInv /\ CommandInv /\ [CollectorNext]_collectorVars
        => CommandInv'
  BY StepCommand
<1>5. QED
  BY <1>1, <1>2, <1>3, <1>4, PTL DEF CollectorSpec

\* A command never turns a broken platform, and never overrides a newer one,
\* for any commands, delays and losses on the way from the agent.
THEOREM CommandsSteerSoundly ==
    ASSUME Threads = {SimThread}
    PROVE  CollectorSpec => SteersSoundly
<1> DEFINE Sound == \A p \in Platforms :
                      heading'[p] # heading[p] /\ run' = run
                        => p \notin broken /\ heading'[p].n >= heading[p].n
<1>1. ASSUME LocalType, CommandInv, [CollectorNext]_collectorVars
      PROVE  Sound
  <2>1. CASE UNCHANGED heading
    BY <2>1
  <2>2. CASE AddedToSimulation
    BY <1>1, <2>2 DEF AddedToSimulation, LocalType
  <2>3. CASE ApplyLatestCommand(SimThread)
    BY <1>1, <2>3 DEF ApplyLatestCommand, Steerable, CommandInv
  <2>4. QED
    <3> USE DEF world, flags, senderVars, socketVars
    <3>1. CASE Lifecycle \/ Tick
      BY <2>1, <2>2, <3>1 DEF Lifecycle, InitializeSender, InitializeRecv,
         Start, FlagStartFrame, Complete, Shutdown, DestroySender, Tick
    <3>2. CASE Callback(SimThread)
      BY <2>1, <2>3, <3>2 DEF Callback, OnMoverUpdated, Receive,
         HandleAgentCommand, Pace, Build, Send, SetNextSendTime
    <3>3. CASE \/ \E p \in Platforms : Break(p)
               \/ \E c \in Commands : AgentSends(c)
               \/ UNCHANGED collectorVars
      BY <2>1, <3>3 DEF Break, AgentSends, collectorVars
    <3>4. QED
      BY <1>1, <3>1, <3>2, <3>3 DEF CollectorNext
<1>2. QED
  BY <1>1, CommandInvariant, PTL DEF CollectorSpec, SteersSoundly
-----------------------------------------------------------------------------
(* Commands on their way to a mover, when the simulation thread is the     *)
(* only one to call back.                                                  *)

\* The simulation thread can go on: nothing that OnMoverUpdated or the
\* receiving needs is missing once the simulation was started.
Goes ==
    /\ phase \in {"added", "sender", "initialized", "starting", "started"}
         => mMoverUpdatedCallback /\ ~mIsShuttingDown
    /\ phase \in {"initialized", "starting", "started"} => mRecvInitialized
    /\ phase = "starting" => /\ pc[SimThread] \in {"build", "send", "sent", "next"}
                             /\ (pc[SimThread] = "next" => mHasSentStartFrame)
    /\ Running => mHasSentStartFrame /\ pc[SimThread] # "sent"

\* The datagram that ReceiveAgentData returned.
InHand == Head(frame[SimThread].agentData)

\* On its way to p, a command that turns p is queued at a position i, or was just
\* received and not yet cached, or is cached. n is its number.
TurnsPlatform(cmd, n, p) ==
    /\ cmd.n = n /\ cmd.fits /\ cmd.isCommand
    /\ LET last == LastActionFor(p, ParseAgentActions(cmd))
       IN  last # <<>> /\ Turns(last[1])

QueuedAt(i, n, p) == i \in DOMAIN inbox /\ TurnsPlatform(inbox[i], n, p)

InHandFor(n, p) == pc[SimThread] = "cache" /\ TurnsPlatform(InHand, n, p)

CachedFor(n, p) ==
    gLatestAgentCommands[p].n = n /\ Turns(gLatestAgentCommands[p])

OnItsWay(n, p) ==
    CachedFor(n, p) \/ InHandFor(n, p) \/ \E i \in DOMAIN inbox : QueuedAt(i, n, p)

\* What CommandTakesEffect promises of a command.
Settled(n, p) ==
    \/ heading[p].n = n \/ gLatestAgentCommands[p].n > n
    \/ p \in broken \/ ~Running \/ Stuck(SimThread)

\* The steps of a callback that are left, none in a loop that never ends, and the
\* steps before the next callback receives.
CallbackLeft(t) ==
    CASE pc[t] \in {"idle", "normalize"} -> 0
      [] pc[t] = "next"    -> 1
      [] pc[t] = "sent"    -> 2
      [] pc[t] = "send"    -> 3
      [] pc[t] = "build"   -> 4
      [] pc[t] = "pace"    -> 5
      [] pc[t] = "apply"   -> 6
      [] pc[t] = "cache"   -> 7
      [] pc[t] = "receive" -> 8

ToReceive(t) == IF pc[t] = "receive" THEN 0
                ELSE CallbackLeft(t) + (IF due = {} THEN 2 ELSE 1)

\* A round of mover updates has nine steps for each mover.
Round == 9 * Cardinality(Platforms)

\* The steps before the cached command for p is applied: those of p's own
\* callback, or the rest of the round, or that and a round more.
ToApply(p) ==
    IF pc[SimThread] \in {"receive", "cache", "apply"} /\ frame[SimThread].mover = p
      THEN CallbackLeft(SimThread) - 5
      ELSE CallbackLeft(SimThread) + 9 * Cardinality(due)
             + (IF p \in due THEN 0 ELSE Round + 1)

\* What is left to do until command n turns p: at most two rounds once it is
\* cached, and a callback for each datagram up to it before that.
ToEffect(n, p) ==
    IF CachedFor(n, p) THEN ToApply(p)
    ELSE IF InHandFor(n, p) THEN 2 * Round + 10
    ELSE LET i == CHOOSE j \in DOMAIN inbox : QueuedAt(j, n, p)
         IN  2 * Round + 1 + 10 * i + ToReceive(SimThread)

\* A command on its way is never forgotten: each step of the simulation thread
\* brings it nearer to its mover or settles it, were it by getting stuck in a
\* heading that absorbs 2 pi, and no other step sets it back.
ComesNearer(n, p) ==
    Running /\ OnItsWay(n, p) /\ ~Settled(n, p) =>
      \/ Settled(n, p)'
      \/ /\ OnItsWay(n, p)'
         /\ \/ ToEffect(n, p)' < ToEffect(n, p)
            \/ /\ ToEffect(n, p)' = ToEffect(n, p)
               /\ UNCHANGED <<simTime, due, pc, frame>>

\* Starting, the simulation opens the guards of OnMoverUpdated and they stay
\* open until it ends.
LEMMA StepGoes ==
    ASSUME Threads = {SimThread}, LocalType, PhaseInv, SocketLife, Goes,
           [CollectorNext]_collectorVars
    PROVE  Goes'
<1> USE DEF world, flags, socketVars, senderVars, Goes, Running, Goto, LocalType
<1>1. CASE AddedToSimulation
  BY <1>1 DEF AddedToSimulation, PhaseInv
<1>2. CASE InitializeSender
  BY <1>2 DEF InitializeSender
<1>3. CASE InitializeRecv
  BY <1>3 DEF InitializeRecv, InitializeReceiver, SocketLife
<1>4. CASE Start
  BY <1>4 DEF Start
<1>5. CASE FlagStartFrame
  BY <1>5 DEF FlagStartFrame
<1>6. CASE Complete \/ Tick
  BY <1>6 DEF Complete, Tick
<1>7. CASE Shutdown \/ DestroySender
  BY <1>7 DEF Shutdown, DestroySender
<1>8. ASSUME NEW p \in Platforms, OnMoverUpdated(SimThread, p)
      PROVE  Goes'
  BY <1>8 DEF OnMoverUpdated
<1>9. CASE Receive(SimThread)
  BY <1>9 DEF Receive
<1>10. CASE \/ HandleAgentCommand(SimThread) \/ ApplyLatestCommand(SimThread)
            \/ Pace(SimThread) \/ Build(SimThread)
  <2>1. CASE HandleAgentCommand(SimThread)
    BY <2>1 DEF HandleAgentCommand
  <2>2. CASE ApplyLatestCommand(SimThread)
    BY <2>2 DEF ApplyLatestCommand
  <2>3. CASE Pace(SimThread) \/ Build(SimThread)
    BY <2>3 DEF Pace, Build
  <2>4. QED
    BY <1>10, <2>1, <2>2, <2>3
<1>11. CASE Send(SimThread) \/ SetNextSendTime(SimThread)
  BY <1>11 DEF Send, SetNextSendTime
<1>12. ASSUME NEW p \in Platforms, Break(p)
       PROVE  Goes'
  BY <1>12 DEF Break
<1>13. ASSUME NEW c \in Commands, AgentSends(c)
       PROVE  Goes'
  BY <1>13 DEF AgentSends
<1>14. CASE UNCHANGED collectorVars
  BY <1>14 DEF collectorVars
<1>15. QED
  BY <1>1, <1>2, <1>3, <1>4, <1>5, <1>6, <1>7, <1>8, <1>9, <1>10, <1>11,
     <1>12, <1>13, <1>14
  DEF CollectorNext, Lifecycle, Callback

\* While the simulation runs, only time, callbacks, damage and the agent act.
LEMMA RunningSteps ==
    ASSUME Threads = {SimThread}, Running, Running', [CollectorNext]_collectorVars
    PROVE  \/ Tick \/ Callback(SimThread)
           \/ \E p \in Platforms : Break(p)
           \/ \E c \in Commands : AgentSends(c)
           \/ UNCHANGED collectorVars
BY DEF CollectorNext, Lifecycle, Running, AddedToSimulation, InitializeSender,
   InitializeRecv, Start, FlagStartFrame, Complete, Shutdown, DestroySender

\* Movers are counted.
LEMMA MoversCounted ==
    ASSUME IsFiniteSet(Platforms), NEW S, S \subseteq Platforms
    PROVE  /\ Cardinality(S) \in Nat /\ Cardinality(S) <= Cardinality(Platforms)
           /\ Cardinality(Platforms) \in Nat
           /\ S = {} => Cardinality(S) = 0
           /\ \A p \in S : /\ Cardinality(S) > 0
                           /\ Cardinality(S \ {p}) = Cardinality(S) - 1
<1>1. IsFiniteSet(S) /\ Cardinality(S) <= Cardinality(Platforms)
  BY FS_Subset
<1>2. Cardinality(S) \in Nat /\ Cardinality(Platforms) \in Nat
  BY <1>1, FS_CardinalityType
<1>3. S = {} <=> Cardinality(S) = 0
  BY <1>1, FS_EmptySet
<1>4. \A p \in S : Cardinality(S \ {p}) = Cardinality(S) - 1
  BY <1>1, FS_RemoveElement
<1>5. QED
  BY <1>1, <1>2, <1>3, <1>4

\* What is left to do, in numbers.
LEMMA LeftBounds ==
    ASSUME Threads = {SimThread}, IsFiniteSet(Platforms), LocalType,
           due \subseteq Platforms, NEW p \in Platforms
    PROVE  /\ Round \in Nat
           /\ CallbackLeft(SimThread) \in 0 .. 8 /\ ToReceive(SimThread) \in 0 .. 10
           /\ ToApply(p) \in 1 .. 2 * Round + 9
<1>1. pc[SimThread] \in Steps
  BY DEF LocalType
<1>2. CallbackLeft(SimThread) \in 0 .. 8
  BY <1>1 DEF Steps, CallbackLeft
<1>3. /\ Cardinality(due) \in Nat /\ Cardinality(due) <= Cardinality(Platforms)
      /\ Cardinality(Platforms) \in Nat /\ (p \in due => Cardinality(due) > 0)
  BY MoversCounted
<1>4. Round \in Nat
  BY <1>3 DEF Round
<1>5. ToReceive(SimThread) \in 0 .. 10
  BY <1>2 DEF ToReceive
<1>6. CASE /\ pc[SimThread] \in {"receive", "cache", "apply"}
           /\ frame[SimThread].mover = p
  <2>1. /\ CallbackLeft(SimThread) \in {6, 7, 8}
        /\ ToApply(p) = CallbackLeft(SimThread) - 5
    BY <1>6 DEF ToApply, CallbackLeft
  <2> HIDE DEF Round
  <2>2. QED
    BY <1>2, <1>4, <1>5, <2>1
<1>7. CASE ~ /\ pc[SimThread] \in {"receive", "cache", "apply"}
             /\ frame[SimThread].mover = p
  <2>1. ToApply(p) = CallbackLeft(SimThread) + 9 * Cardinality(due)
                       + (IF p \in due THEN 0 ELSE Round + 1)
    BY <1>7 DEF ToApply
  <2>2. 9 * Cardinality(due) <= Round
    BY <1>3 DEF Round
  <2> HIDE DEF Round
  <2>3. CASE p \in due
    BY <1>2, <1>3, <1>4, <1>5, <2>1, <2>2, <2>3
  <2>4. CASE p \notin due
    BY <1>2, <1>3, <1>4, <1>5, <2>1, <2>2, <2>4
  <2>5. QED
    BY <2>3, <2>4
<1>8. QED
  BY <1>6, <1>7
\* A step within a callback leaves less of it.
LEMMA CallbackAdvances ==
    ASSUME Threads = {SimThread}, IsFiniteSet(Platforms), LocalType,
           due \subseteq Platforms, NEW p \in Platforms,
           CallbackLeft(SimThread)' \in Nat,
           CallbackLeft(SimThread)' < CallbackLeft(SimThread), due' = due,
           pc'[SimThread] # "receive",
           \/ /\ pc'[SimThread] \in {"receive", "cache", "apply"}
              /\ frame'[SimThread].mover = frame[SimThread].mover
           \/ pc[SimThread] \notin {"receive", "cache", "apply"}
              /\ pc'[SimThread] \notin {"receive", "cache", "apply"}
           \/ /\ pc[SimThread] = "apply" /\ pc'[SimThread] = "pace"
              /\ frame[SimThread].mover # p
    PROVE  /\ ToApply(p)' < ToApply(p)
           /\ pc[SimThread] # "receive"
                => ToReceive(SimThread)' < ToReceive(SimThread)
           /\ ToReceive(SimThread)' \in 0 .. 9
<1>1. /\ Round \in Nat
      /\ CallbackLeft(SimThread) \in 0 .. 8 /\ ToReceive(SimThread) \in 0 .. 10
      /\ Cardinality(due) \in Nat
  BY LeftBounds, MoversCounted
<1>2. ToReceive(SimThread)' = CallbackLeft(SimThread)' + (IF due = {} THEN 2 ELSE 1)
  BY DEF ToReceive
<1>3. /\ CallbackLeft(SimThread)' \in 0 .. 7
      /\ CallbackLeft(SimThread)' < CallbackLeft(SimThread)
  BY <1>1
<1>4. /\ ToReceive(SimThread)' \in 0 .. 9
      /\ pc[SimThread] # "receive"
           => ToReceive(SimThread)' < ToReceive(SimThread)
  <2>1. CASE due = {}
    BY <1>1, <1>2, <1>3, <2>1 DEF ToReceive
  <2>2. CASE due # {}
    BY <1>1, <1>2, <1>3, <2>2 DEF ToReceive
  <2>3. QED
    BY <2>1, <2>2
<1> DEFINE Own == pc[SimThread] \in {"receive", "cache", "apply"}
                  /\ frame[SimThread].mover = p
           Rest == 9 * Cardinality(due) + (IF p \in due THEN 0 ELSE Round + 1)
<1>5. /\ Rest \in Nat /\ Round' = Round
      /\ ToApply(p) = IF Own THEN CallbackLeft(SimThread) - 5
                      ELSE CallbackLeft(SimThread) + Rest
      /\ ToApply(p)' = IF Own' THEN CallbackLeft(SimThread)' - 5
                       ELSE CallbackLeft(SimThread)' + Rest
  <2>1. Round' = Round
    BY DEF Round
  <2>2. /\ ToApply(p) = IF Own THEN CallbackLeft(SimThread) - 5
                        ELSE CallbackLeft(SimThread) + 9 * Cardinality(due)
                               + (IF p \in due THEN 0 ELSE Round + 1)
        /\ ToApply(p)' = IF Own' THEN CallbackLeft(SimThread)' - 5
                         ELSE CallbackLeft(SimThread)' + 9 * Cardinality(due)
                               + (IF p \in due THEN 0 ELSE Round + 1)
    BY <2>1 DEF ToApply
  <2> HIDE DEF Own
  <2>3. QED
    BY <1>1, <2>1, <2>2
<1>6. Own <=> Own'
  <2>1. pc'[SimThread] \in {"cache", "apply"}
          => pc[SimThread] \in {"receive", "cache"}
    <3>1. pc[SimThread] \in Steps
      BY DEF LocalType
    <3>2. QED
      BY <3>1 DEF CallbackLeft, Steps
  <2>2. QED
    BY <2>1
<1> HIDE DEF Own, Rest
<1>7. ToApply(p)' < ToApply(p)
  BY <1>1, <1>5, <1>6
<1>8. QED
  BY <1>3, <1>4, <1>7

\* Applying ends, or the heading is one that the normalisation never brings
\* into range.
LEMMA ApplyEndsOrSticks ==
    ASSUME LocalType, ApplyLatestCommand(SimThread)
    PROVE  \/ pc'[SimThread] = "pace"
           \/ Stuck(SimThread)' /\ UNCHANGED heading
<1> DEFINE cmd == gLatestAgentCommands[frame[SimThread].mover]
<1>1. CASE pc' = [pc EXCEPT ![SimThread] = "pace"]
  BY <1>1, CollectorAssumption DEF LocalType
<1>2. CASE /\ NeverInRange(cmd) /\ UNCHANGED heading
           /\ pc' = [pc EXCEPT ![SimThread] = "normalize"]
  <2>1. pc'[SimThread] = "normalize"
    BY <1>2, CollectorAssumption DEF LocalType
  <2>2. UNCHANGED <<frame, gLatestAgentCommands>>
    BY DEF ApplyLatestCommand
  <2>3. NeverInRange(cmd)'
    BY <1>2, <2>2 DEF NeverInRange
  <2>4. QED
    BY <1>2, <2>1, <2>3 DEF Stuck
<1>3. QED
  BY <1>1, <1>2 DEF ApplyLatestCommand, Goto

\* Every step of the simulation thread is a step towards the next receiving,
\* and towards the next command for p that is applied, unless the thread is
\* caught in the normalisation of a heading.
LEMMA ThreadAdvances ==
    ASSUME Threads = {SimThread}, IsFiniteSet(Platforms), LocalType,
           due \subseteq Platforms, Goes, Running, Running',
           [CollectorNext]_collectorVars, NEW p \in Platforms,
           ~Stuck(SimThread)'
    PROVE  \/ UNCHANGED <<simTime, due, pc, frame>>
           \/ /\ \/ ToApply(p)' < ToApply(p)
                 \/ ApplyLatestCommand(SimThread) /\ frame[SimThread].mover = p
              /\ \/ ToReceive(SimThread)' < ToReceive(SimThread)
                 \/ Receive(SimThread) /\ ToReceive(SimThread)' \in 0 .. 9
<1>1. /\ Round \in Nat
      /\ CallbackLeft(SimThread) \in 0 .. 8 /\ ToReceive(SimThread) \in 0 .. 10
      /\ Cardinality(due) \in Nat /\ Cardinality(Platforms) \in Nat
  BY LeftBounds, MoversCounted
<1>2. Round' = Round
  BY DEF Round
<1>3. CASE Tick
  <2>1. /\ pc[SimThread] = "idle" /\ due = {} /\ due' = Platforms
        /\ pc' = pc /\ frame' = frame
    BY <1>3 DEF Tick
  <2>2. CallbackLeft(SimThread) = 0 /\ CallbackLeft(SimThread)' = 0
    BY <2>1 DEF CallbackLeft
  <2>3. Cardinality(due) = 0
    BY <2>1, MoversCounted
  <2>4. ToApply(p) = Round + 1
    BY <1>1, <2>1, <2>2, <2>3 DEF ToApply
  <2>5. ToApply(p)' = Round
    BY <1>1, <1>2, <2>1, <2>2 DEF ToApply, Round
  <2>6. ToReceive(SimThread) = 2 /\ ToReceive(SimThread)' = 1
    BY <2>1, <2>2 DEF ToReceive
  <2>7. QED
    BY <1>1, <2>4, <2>5, <2>6
<1>4. ASSUME NEW q \in Platforms, OnMoverUpdated(SimThread, q)
      PROVE  ToApply(p)' < ToApply(p) /\ ToReceive(SimThread)' < ToReceive(SimThread)
  <2>1. /\ pc[SimThread] = "idle" /\ pc'[SimThread] = "receive"
        /\ q \in due /\ due' = due \ {q} /\ frame'[SimThread].mover = q
    BY <1>4 DEF OnMoverUpdated, Goto, LocalType, Idle
  <2>2. CallbackLeft(SimThread) = 0 /\ CallbackLeft(SimThread)' = 8
    BY <2>1 DEF CallbackLeft
  <2>3. Cardinality(due) > 0 /\ Cardinality(due') = Cardinality(due) - 1
    BY <2>1, MoversCounted
  <2>4. ToReceive(SimThread) = 1 /\ ToReceive(SimThread)' = 0
    BY <2>1, <2>2 DEF ToReceive
  <2>5. ToApply(p) = 9 * Cardinality(due) + (IF p \in due THEN 0 ELSE Round + 1)
    BY <1>1, <2>1, <2>2 DEF ToApply
  <2>6. CASE p = q
    <3>1. ToApply(p)' = 3
      BY <2>1, <2>2, <2>6 DEF ToApply
    <3>2. QED
      BY <1>1, <2>1, <2>3, <2>4, <2>5, <2>6, <3>1
  <2>7. CASE p # q
    <3>1. ToApply(p)' = 8 + 9 * (Cardinality(due) - 1)
                          + (IF p \in due THEN 0 ELSE Round + 1)
      BY <1>2, <2>1, <2>2, <2>3, <2>7 DEF ToApply
    <3> HIDE DEF Round
    <3>2. CASE p \in due
      BY <1>1, <2>4, <2>5, <3>1, <3>2
    <3>3. CASE p \notin due
      BY <1>1, <2>4, <2>5, <3>1, <3>3
    <3>4. QED
      BY <3>2, <3>3
  <2>8. QED
    BY <2>6, <2>7
<1>5. CASE Receive(SimThread)
  <2>1. PICK result \in {NoData} \cup
                        {<<m>> : m \in {inbox[i] : i \in DOMAIN inbox}} :
          /\ frame' = [frame EXCEPT ![SimThread].agentData = result]
          /\ pc' = [pc EXCEPT ![SimThread] = IF result = NoData THEN "apply"
                                                            ELSE "cache"]
    BY <1>5 DEF Receive, Goto
  <2>2. /\ pc[SimThread] = "receive" /\ pc'[SimThread] \in {"apply", "cache"}
        /\ due' = due /\ frame'[SimThread].mover = frame[SimThread].mover
    BY <1>5, <2>1 DEF Receive, world, LocalType, Locals
  <2>3. CallbackLeft(SimThread) = 8 /\ CallbackLeft(SimThread)' \in {6, 7}
    BY <2>2 DEF CallbackLeft
  <2>4. QED
    BY <1>5, <2>2, <2>3, CallbackAdvances
<1>6. CASE HandleAgentCommand(SimThread)
  <2>1. /\ pc[SimThread] = "cache" /\ pc'[SimThread] = "apply"
        /\ due' = due /\ frame' = frame
    BY <1>6 DEF HandleAgentCommand, Goto, world, LocalType
  <2>2. CallbackLeft(SimThread) = 7 /\ CallbackLeft(SimThread)' = 6
    BY <2>1 DEF CallbackLeft
  <2>3. QED
    BY <2>1, <2>2, CallbackAdvances
<1>7. CASE ApplyLatestCommand(SimThread)
  <2>1. /\ pc[SimThread] = "apply" /\ pc'[SimThread] = "pace" /\ due' = due
    BY <1>7, ApplyEndsOrSticks DEF ApplyLatestCommand, world
  <2>2. CallbackLeft(SimThread) = 6 /\ CallbackLeft(SimThread)' = 5
    BY <2>1 DEF CallbackLeft
  <2>3. CASE frame[SimThread].mover # p
    BY <2>1, <2>2, <2>3, CallbackAdvances
  <2>4. CASE frame[SimThread].mover = p
    <3>1. ToReceive(SimThread)' < ToReceive(SimThread)
      BY <2>1, <2>2 DEF ToReceive
    <3>2. QED
      BY <1>7, <2>4, <3>1
  <2>5. QED
    BY <2>3, <2>4
<1>8. CASE \/ Pace(SimThread) \/ Build(SimThread) \/ Send(SimThread)
           \/ SetNextSendTime(SimThread)
  <2>1. /\ pc[SimThread] \notin {"receive", "cache", "apply"}
        /\ pc'[SimThread] \notin {"receive", "cache", "apply"} /\ due' = due
    BY <1>8 DEF Pace, Build, Send, SetNextSendTime, Goto, world, LocalType
  <2>2. /\ CallbackLeft(SimThread)' \in Nat
        /\ CallbackLeft(SimThread)' < CallbackLeft(SimThread)
    BY <1>8 DEF CallbackLeft, Pace, Build, Send, SetNextSendTime, Goto, Running,
       LocalType
  <2>3. QED
    BY <2>1, <2>2, CallbackAdvances
<1>9. CASE \/ \E q \in Platforms : Break(q)
           \/ \E c \in Commands : AgentSends(c)
           \/ UNCHANGED collectorVars
  BY <1>9 DEF Break, AgentSends, collectorVars, world
<1>10. QED
  BY <1>3, <1>4, <1>5, <1>6, <1>7, <1>8, <1>9, RunningSteps DEF Callback
\* Where a command is says how much is left: numbers are strictly ordered, so
\* that a command is in one place.
LEMMA EffectLeft ==
    \A n, p : LocalType /\ CommandInv /\ p \in Platforms =>
      /\ CachedFor(n, p) => ToEffect(n, p) = ToApply(p)
      /\ InHandFor(n, p) => /\ ~CachedFor(n, p)
                            /\ ToEffect(n, p) = 2 * Round + 10
      /\ \A i \in DOMAIN inbox : QueuedAt(i, n, p) =>
           /\ ~CachedFor(n, p) /\ ~InHandFor(n, p)
           /\ ToEffect(n, p) = 2 * Round + 1 + 10 * i + ToReceive(SimThread)
<1> SUFFICES ASSUME LocalType, CommandInv, NEW n, NEW p \in Platforms
             PROVE  /\ CachedFor(n, p) => ToEffect(n, p) = ToApply(p)
                    /\ InHandFor(n, p) => /\ ~CachedFor(n, p)
                                          /\ ToEffect(n, p) = 2 * Round + 10
                    /\ \A i \in DOMAIN inbox : QueuedAt(i, n, p) =>
                         /\ ~CachedFor(n, p) /\ ~InHandFor(n, p)
                         /\ ToEffect(n, p)
                              = 2 * Round + 1 + 10 * i + ToReceive(SimThread)
  OBVIOUS
<1> USE CollectorAssumption
<1>1. DOMAIN inbox = 1 .. Len(inbox) /\ gLatestAgentCommands[p].n \in Nat
  BY LenProperties DEF LocalType, CommandInv
<1>2. \A i \in 1 .. Len(inbox) : inbox[i].n \in Nat
  BY InboxType
<1>3. ASSUME InHandFor(n, p)
      PROVE  /\ ~CachedFor(n, p) /\ InHand.n = n /\ n \in Nat
             /\ \A i \in 1 .. Len(inbox) : n < inbox[i].n
  <2>1. InHand.n = n /\ gLatestAgentCommands[p].n < n /\ n \in Nat
    BY <1>3, InboxType
    DEF InHandFor, InHand, TurnsPlatform, CommandInv, CachedBefore
  <2>2. \A i \in 1 .. Len(inbox) : n < inbox[i].n
    BY <1>3, <2>1 DEF InHandFor, InHand, CommandInv, QueuedAfter
  <2>3. QED
    BY <1>1, <2>1, <2>2 DEF CachedFor
<1>4. ASSUME NEW i \in DOMAIN inbox, QueuedAt(i, n, p)
      PROVE  /\ ~CachedFor(n, p) /\ ~InHandFor(n, p)
             /\ \A j \in DOMAIN inbox : QueuedAt(j, n, p) => j = i
  <2>1. i \in 1 .. Len(inbox) /\ inbox[i].n = n /\ n \in Nat
    BY <1>1, <1>2, <1>4 DEF QueuedAt, TurnsPlatform
  <2>2. gLatestAgentCommands[p].n < n
    BY <2>1 DEF CommandInv, CachedBefore
  <2>3. ~InHandFor(n, p)
    BY <1>3, <2>1
  <2>4. ASSUME NEW j \in DOMAIN inbox, QueuedAt(j, n, p)
        PROVE  j = i
    <3>1. j \in 1 .. Len(inbox) /\ inbox[j].n = n
      BY <1>1, <2>4 DEF QueuedAt, TurnsPlatform
    <3>2. ~(i < j) /\ ~(j < i)
      BY <2>1, <3>1 DEF CommandInv
    <3>3. Len(inbox) \in Nat
      BY LenProperties DEF LocalType
    <3>4. QED
      BY <2>1, <3>1, <3>2, <3>3
  <2>5. QED
    BY <1>1, <2>1, <2>2, <2>3, <2>4 DEF CachedFor
<1>5. CachedFor(n, p) => ToEffect(n, p) = ToApply(p)
  BY DEF ToEffect
<1>6. ASSUME InHandFor(n, p)
      PROVE  ToEffect(n, p) = 2 * Round + 10
  BY <1>3, <1>6 DEF ToEffect
<1>7. ASSUME NEW i \in DOMAIN inbox, QueuedAt(i, n, p)
      PROVE  ToEffect(n, p) = 2 * Round + 1 + 10 * i + ToReceive(SimThread)
  <2>1. (CHOOSE j \in DOMAIN inbox : QueuedAt(j, n, p)) = i
    BY <1>4, <1>7
  <2>2. QED
    BY <1>4, <1>7, <2>1 DEF ToEffect
<1>8. QED
  BY <1>3, <1>4, <1>5, <1>6, <1>7

\* ... after a step as before it.
LEMMA EffectLeftNext ==
    (\A n, p : LocalType /\ CommandInv /\ p \in Platforms =>
       /\ CachedFor(n, p) => ToEffect(n, p) = ToApply(p)
       /\ InHandFor(n, p) => /\ ~CachedFor(n, p)
                             /\ ToEffect(n, p) = 2 * Round + 10
       /\ \A i \in DOMAIN inbox : QueuedAt(i, n, p) =>
            /\ ~CachedFor(n, p) /\ ~InHandFor(n, p)
            /\ ToEffect(n, p) = 2 * Round + 1 + 10 * i + ToReceive(SimThread))'
BY EffectLeft, PTL

\* A command in the cache stays there until a newer one is cached.
LEMMA CachedStays ==
    ASSUME Threads = {SimThread}, LocalType, CommandInv, Running, Running',
           [CollectorNext]_collectorVars, NEW n \in Nat, NEW p \in Platforms,
           CachedFor(n, p)
    PROVE  gLatestAgentCommands'[p].n > n \/ CachedFor(n, p)'
<1>1. CASE HandleAgentCommand(SimThread)
  <2> DEFINE m == Head(frame[SimThread].agentData)
  <2>1. pc[SimThread] = "cache" /\ gLatestAgentCommands[p].n = n
    BY <1>1 DEF HandleAgentCommand, CachedFor
  <2>2. m.n > n
    BY <2>1, InboxType DEF CommandInv, CachedBefore
  <2> HIDE DEF m
  <2>3. \/ gLatestAgentCommands'[p] = gLatestAgentCommands[p]
        \/ gLatestAgentCommands'[p].n = m.n
    BY <1>1 DEF HandleAgentCommand, Latest, m
  <2>4. QED
    BY <2>2, <2>3 DEF CachedFor
<1>2. CASE ~HandleAgentCommand(SimThread)
  <2>1. gLatestAgentCommands' = gLatestAgentCommands
    BY <1>2, RunningSteps
    DEF Tick, Callback, OnMoverUpdated, Receive, ApplyLatestCommand, Pace, Build,
        Send, SetNextSendTime, Break, AgentSends, collectorVars
  <2>2. QED
    BY <2>1 DEF CachedFor
<1>3. QED
  BY <1>1, <1>2

\* Caching a command that was just received.
LEMMA HandCaches ==
    ASSUME CommandInv, NEW n \in Nat, NEW p \in Platforms, p \notin broken,
           InHandFor(n, p), HandleAgentCommand(SimThread)
    PROVE  CachedFor(n, p)'
<1> DEFINE last == LastActionFor(p, ParseAgentActions(InHand))
<1>1. InHand.n = n /\ InHand.isCommand /\ last # <<>> /\ Turns(last[1])
  BY DEF InHandFor, TurnsPlatform
<1>2. gLatestAgentCommands'[p] = [n |-> InHand.n, action |-> last[1].action,
                                  heading |-> last[1].heading]
  BY <1>1 DEF HandleAgentCommand, Latest, InHand
<1>3. QED
  BY <1>1, <1>2 DEF CachedFor, Turns

\* Receiving moves a queued command up, and the first one into the hand.
LEMMA ReceiveMovesUp ==
    ASSUME Threads = {SimThread}, LocalType, Goes, Running,
           Receive(SimThread), NEW n \in Nat, NEW p \in Platforms,
           NEW i \in DOMAIN inbox, QueuedAt(i, n, p)
    PROVE  IF i = 1 THEN InHandFor(n, p)'
           ELSE i - 1 \in DOMAIN inbox' /\ QueuedAt(i - 1, n, p)'
<1>1. PICK result \in {NoData} \cup {<<m>> : m \in {inbox[j] : j \in DOMAIN inbox}} :
        /\ ReceiveAgentData(result)
        /\ frame' = [frame EXCEPT ![SimThread].agentData = result]
        /\ pc' = [pc EXCEPT ![SimThread] = IF result = NoData THEN "apply"
                                                          ELSE "cache"]
  BY DEF Receive, Goto
<1>2. i \in 1 .. Len(inbox) /\ Len(inbox) \in Nat /\ inbox # <<>>
  BY LenProperties, EmptySeq DEF LocalType
<1>3. /\ inbox' = Tail(inbox)
      /\ result = IF Head(inbox).fits THEN <<Head(inbox)>> ELSE NoData
  BY <1>1, <1>2 DEF ReceiveAgentData, Goes, Running
<1>4. CASE i = 1
  <2>1. Head(inbox) = inbox[i] /\ inbox[i].fits
    BY <1>2, <1>4 DEF QueuedAt, TurnsPlatform, LocalType
  <2>2. result = <<inbox[i]>> /\ result # NoData
    BY <1>3, <2>1 DEF NoData
  <2>3. pc'[SimThread] = "cache" /\ frame'[SimThread].agentData = <<inbox[i]>>
    BY <1>1, <2>2 DEF LocalType, Locals
  <2>4. InHand' = inbox[i]
    BY <2>3 DEF InHand
  <2>5. QED
    BY <1>4, <2>3, <2>4 DEF InHandFor, QueuedAt, TurnsPlatform
<1>5. CASE i # 1
  <2>1. /\ Len(inbox') = Len(inbox) - 1
        /\ \A j \in 1 .. Len(inbox') : inbox'[j] = inbox[j + 1]
        /\ DOMAIN inbox' = 1 .. Len(inbox')
    BY <1>2, <1>3, HeadTailProperties, LenProperties DEF LocalType
  <2>2. i - 1 \in 1 .. Len(inbox') /\ (i - 1) + 1 = i
    BY <1>2, <1>5, <2>1
  <2>3. i - 1 \in DOMAIN inbox' /\ inbox'[i - 1] = inbox[i]
    BY <2>1, <2>2
  <2>4. QED
    BY <1>5, <2>3 DEF QueuedAt, TurnsPlatform
<1>6. QED
  BY <1>4, <1>5

\* Other steps leave the queue as it is, or append to it.
LEMMA QueueStays ==
    ASSUME Threads = {SimThread}, LocalType, Running, Running',
           [CollectorNext]_collectorVars, ~Receive(SimThread),
           NEW n \in Nat, NEW p \in Platforms,
           NEW i \in DOMAIN inbox, QueuedAt(i, n, p)
    PROVE  i \in DOMAIN inbox' /\ QueuedAt(i, n, p)'
<1>1. CASE inbox' = inbox
  BY <1>1 DEF QueuedAt, TurnsPlatform
<1>2. ASSUME NEW c \in Commands, AgentSends(c)
      PROVE  i \in DOMAIN inbox' /\ inbox'[i] = inbox[i]
  <2> DEFINE m == [n |-> sent + 1, fits |-> c.fits,
                   isCommand |-> c.isCommand, actions |-> c.actions]
  <2>1. inbox' = Append(inbox, m)
    BY <1>2 DEF AgentSends
  <2>2. m \in Received
    BY DEF Received, LocalType
  <2> HIDE DEF m
  <2>3. i \in 1 .. Len(inbox) /\ Len(inbox) \in Nat
    BY LenProperties DEF LocalType
  <2>4. QED
    BY <2>1, <2>2, <2>3, AppendProperties, LenProperties DEF LocalType
<1>3. CASE \E c \in Commands : AgentSends(c)
  BY <1>2, <1>3 DEF QueuedAt, TurnsPlatform
<1>4. CASE ~(\E c \in Commands : AgentSends(c))
  <2>1. inbox' = inbox
    BY <1>4, RunningSteps
    DEF Tick, Callback, OnMoverUpdated, HandleAgentCommand, ApplyLatestCommand,
        Pace, Build, Send, SetNextSendTime, Break, collectorVars, senderVars
  <2>2. QED
    BY <1>1, <2>1
<1>5. QED
  BY <1>3, <1>4
\* What is left is a number after a step, too.
LEMMA LeftNext ==
    ASSUME Threads = {SimThread}, IsFiniteSet(Platforms), NEW p \in Platforms
    PROVE  (LocalType /\ due \subseteq Platforms
              => ToReceive(SimThread) \in Nat /\ ToApply(p) \in Nat)'
<1>1. LocalType /\ due \subseteq Platforms
        => ToReceive(SimThread) \in Nat /\ ToApply(p) \in Nat
  <2> SUFFICES ASSUME LocalType, due \subseteq Platforms
               PROVE  ToReceive(SimThread) \in Nat /\ ToApply(p) \in Nat
    OBVIOUS
  <2> HIDE DEF Round
  <2>1. QED
    BY LeftBounds
<1>2. QED
  BY <1>1, PTL

\* One step of a command's way.
LEMMA StepComesNearer ==
    ASSUME Threads = {SimThread}, IsFiniteSet(Platforms), LocalType,
           due \subseteq Platforms, CommandInv, Goes, LocalType', CommandInv',
           due' \subseteq Platforms,
           [CollectorNext]_collectorVars, NEW n \in Nat, NEW p \in Platforms
    PROVE  ComesNearer(n, p)
<1> SUFFICES ASSUME Running, OnItsWay(n, p), ~Settled(n, p), ~Settled(n, p)'
             PROVE  /\ OnItsWay(n, p)'
                    /\ \/ ToEffect(n, p)' < ToEffect(n, p)
                       \/ /\ ToEffect(n, p)' = ToEffect(n, p)
                          /\ UNCHANGED <<simTime, due, pc, frame>>
  BY DEF ComesNearer
<1>1. /\ Running' /\ p \notin broken /\ ~(gLatestAgentCommands'[p].n > n)
      /\ heading'[p].n # n /\ ~Stuck(SimThread)'
  BY DEF Settled
<1> DEFINE Still == UNCHANGED <<simTime, due, pc, frame>>
<1>2. /\ Round \in Nat /\ ToReceive(SimThread) \in 0 .. 10
      /\ ToApply(p) \in 1 .. 2 * Round + 9
  BY LeftBounds
<1>3. \/ Still
      \/ /\ \/ ToApply(p)' < ToApply(p)
            \/ ApplyLatestCommand(SimThread) /\ frame[SimThread].mover = p
         /\ \/ ToReceive(SimThread)' < ToReceive(SimThread)
            \/ Receive(SimThread) /\ ToReceive(SimThread)' \in 0 .. 9
  BY <1>1, ThreadAdvances
<1>4. Round' = Round /\ ToReceive(SimThread)' \in Nat /\ ToApply(p)' \in Nat
  BY LeftNext DEF Round
<1>5. Still => /\ ToApply(p)' = ToApply(p)
               /\ ToReceive(SimThread)' = ToReceive(SimThread)
  BY <1>4 DEF ToApply, ToReceive, CallbackLeft
<1>6. CASE CachedFor(n, p)
  <2>1. CachedFor(n, p)'
    BY <1>1, <1>6, CachedStays
  <2>2. ToEffect(n, p) = ToApply(p) /\ ToEffect(n, p)' = ToApply(p)'
    BY <1>6, <2>1 DEF ToEffect
  <2>3. ~(ApplyLatestCommand(SimThread) /\ frame[SimThread].mover = p)
    <3> SUFFICES ASSUME ApplyLatestCommand(SimThread),
                        frame[SimThread].mover = p
                 PROVE  FALSE
      OBVIOUS
    <3>1. pc' # [pc EXCEPT ![SimThread] = "normalize"]
      BY <1>1, ApplyEndsOrSticks DEF LocalType
    <3>2. QED
      BY <1>1, <1>6, <3>1
      DEF ApplyLatestCommand, Goto, CachedFor, Steerable, CommandInv
  <2>4. QED
    BY <1>3, <1>5, <2>1, <2>2, <2>3 DEF OnItsWay
<1>7. CASE InHandFor(n, p)
  <2>1. ToEffect(n, p) = 2 * Round + 10 /\ pc[SimThread] = "cache"
    BY <1>7, EffectLeft DEF InHandFor
  <2>2. CASE HandleAgentCommand(SimThread)
    <3>1. CachedFor(n, p)'
      BY <1>1, <1>7, <2>2, HandCaches
    <3>2. ToEffect(n, p)' = ToApply(p)'
      BY <3>1 DEF ToEffect
    <3>3. ToApply(p)' = ToApply(p) \/ ToApply(p)' < ToApply(p)
      BY <1>3, <1>5, <2>1 DEF ApplyLatestCommand
    <3>4. ToApply(p)' < 2 * Round + 10
      BY <1>2, <1>4, <3>3
    <3>5. QED
      BY <2>1, <3>1, <3>2, <3>4 DEF OnItsWay
  <2>3. CASE ~HandleAgentCommand(SimThread)
    <3>1. Still
      BY <1>1, <2>1, <2>3, RunningSteps
      DEF Tick, Callback, OnMoverUpdated, Receive, ApplyLatestCommand, Pace,
          Build, Send, SetNextSendTime, Break, AgentSends, collectorVars, world
    <3>2. InHandFor(n, p)'
      BY <1>7, <3>1 DEF InHandFor, InHand, TurnsPlatform
    <3>3. ToEffect(n, p)' = 2 * Round + 10
      BY <1>4, <3>2, EffectLeftNext
    <3>4. QED
      BY <2>1, <3>1, <3>2, <3>3 DEF OnItsWay
  <2>4. QED
    BY <2>2, <2>3
<1>8. ASSUME NEW i \in DOMAIN inbox, QueuedAt(i, n, p)
      PROVE  /\ OnItsWay(n, p)'
             /\ \/ ToEffect(n, p)' < ToEffect(n, p)
                \/ ToEffect(n, p)' = ToEffect(n, p) /\ Still
  <2>1. ToEffect(n, p) = 2 * Round + 1 + 10 * i + ToReceive(SimThread)
    BY <1>8, EffectLeft
  <2>2. i \in Nat /\ i >= 1
    BY LenProperties DEF LocalType
  <2>3. CASE Receive(SimThread) /\ i = 1
    <3>1. InHandFor(n, p)'
      BY <1>8, <2>3, ReceiveMovesUp
    <3>2. ToEffect(n, p)' = 2 * Round + 10
      BY <1>4, <3>1, EffectLeftNext
    <3>3. QED
      BY <1>2, <2>1, <2>3, <3>1, <3>2 DEF OnItsWay
  <2>4. CASE Receive(SimThread) /\ i # 1
    <3>1. i - 1 \in DOMAIN inbox' /\ QueuedAt(i - 1, n, p)'
      BY <1>8, <2>4, ReceiveMovesUp
    <3>2. ToEffect(n, p)' = 2 * Round + 1 + 10 * (i - 1) + ToReceive(SimThread)'
      BY <1>4, <3>1, EffectLeftNext
    <3>3. ToReceive(SimThread) = 0 /\ ~Still
      BY <2>4 DEF Receive, ToReceive, Goto, LocalType
    <3>4. \/ ToReceive(SimThread)' \in 0 .. 9
          \/ ToReceive(SimThread)' < ToReceive(SimThread)
      BY <1>3, <3>3
    <3>5. ToEffect(n, p)' < ToEffect(n, p)
      BY <1>2, <1>4, <2>1, <2>2, <3>2, <3>3, <3>4
    <3>6. QED
      BY <3>1, <3>5 DEF OnItsWay
  <2>5. CASE ~Receive(SimThread)
    <3>1. i \in DOMAIN inbox' /\ QueuedAt(i, n, p)'
      BY <1>1, <1>8, <2>5, QueueStays
    <3>2. ToEffect(n, p)' = 2 * Round + 1 + 10 * i + ToReceive(SimThread)'
      BY <1>4, <3>1, EffectLeftNext
    <3>3. \/ ToReceive(SimThread)' < ToReceive(SimThread)
          \/ ToReceive(SimThread)' = ToReceive(SimThread) /\ Still
      BY <1>3, <1>5, <2>5
    <3>4. QED
      BY <1>2, <1>4, <2>1, <2>2, <3>1, <3>2, <3>3 DEF OnItsWay
  <2>6. QED
    BY <2>3, <2>4, <2>5
<1>9. QED
  BY <1>6, <1>7, <1>8 DEF OnItsWay
\* Once a simulation is started and until it ends, the callback is connected,
\* the start frame is flagged and the receiver is up: no guard of
\* OnMoverUpdated and nothing in ReceiveAgentData keeps commands waiting.
THEOREM GuardsStayOpen ==
    ASSUME Threads = {SimThread}
    PROVE  CollectorSpec => []Goes
<1>1. CollectorInit => Goes
  BY DEF CollectorInit, Goes, Running
<1>2. CollectorSpec => []WireInv
  BY WireInvariant
<1>3. WireInv => LocalType /\ PhaseInv
  BY DEF WireInv
<1>4. LocalType /\ PhaseInv /\ SocketLife /\ Goes /\ [CollectorNext]_collectorVars
        => Goes'
  BY StepGoes
<1>5. QED
  BY <1>1, <1>2, <1>3, <1>4, SocketLifeInvariant, PTL DEF CollectorSpec

\* The safety part of CommandTakesEffect: a command on its way to a platform is
\* never forgotten, and each step of the simulation thread brings it nearer.
THEOREM CommandsComeNearer ==
    ASSUME Threads = {SimThread}, IsFiniteSet(Platforms)
    PROVE  CollectorSpec =>
             [][\A n \in 1 .. MaxCommands, p \in Platforms :
                  ComesNearer(n, p)]_collectorVars
<1> DEFINE Inv == LocalType /\ CommandInv /\ Goes /\ due \subseteq Platforms
           Nearer == \A n \in 1 .. MaxCommands, p \in Platforms : ComesNearer(n, p)
<1>1. CollectorSpec => []Inv
  <2>1. CollectorTypeOK => due \subseteq Platforms
    BY DEF CollectorTypeOK
  <2>2. QED
    BY <2>1, CommandInvariant, GuardsStayOpen, CollectorTypeCorrect, PTL
<1>2. Inv /\ Inv' /\ [CollectorNext]_collectorVars => Nearer
  <2> SUFFICES ASSUME Inv, Inv', [CollectorNext]_collectorVars,
                      NEW n \in 1 .. MaxCommands, NEW p \in Platforms
               PROVE  ComesNearer(n, p)
    OBVIOUS
  <2>1. n \in Nat
    BY CollectorAssumption
  <2>2. QED
    BY <2>1, StepComesNearer
<1> HIDE DEF Inv, Nearer
<1>3. QED
  BY <1>1, <1>2, PTL DEF CollectorSpec, Nearer

\* While the thread is not caught in the normalisation of a heading, what is left
\* to do for it is a positive number, at most two rounds of mover updates and ten
\* steps for each datagram up to it.
THEOREM CommandsAreNear ==
    ASSUME Threads = {SimThread}, IsFiniteSet(Platforms)
    PROVE  CollectorSpec =>
             [](\A n \in 1 .. MaxCommands, p \in Platforms :
                  OnItsWay(n, p) /\ ~Stuck(SimThread)
                    => ToEffect(n, p) \in 1 .. 2 * Round + 11 + 10 * Len(inbox))
<1> DEFINE Inv == LocalType /\ CommandInv /\ due \subseteq Platforms
           Near == \A n \in 1 .. MaxCommands, p \in Platforms :
                     OnItsWay(n, p) /\ ~Stuck(SimThread)
                       => ToEffect(n, p) \in 1 .. 2 * Round + 11 + 10 * Len(inbox)
<1>1. CollectorSpec => []Inv
  <2>1. CollectorTypeOK => due \subseteq Platforms
    BY DEF CollectorTypeOK
  <2>2. QED
    BY <2>1, CommandInvariant, CollectorTypeCorrect, PTL
<1>2. Inv => Near
  <2> SUFFICES ASSUME Inv, NEW n \in 1 .. MaxCommands, NEW p \in Platforms,
                      OnItsWay(n, p)
               PROVE  ToEffect(n, p) \in 1 .. 2 * Round + 11 + 10 * Len(inbox)
    OBVIOUS
  <2>1. /\ Round \in Nat /\ ToReceive(SimThread) \in 0 .. 10
        /\ ToApply(p) \in 1 .. 2 * Round + 9
    BY LeftBounds
  <2>2. Len(inbox) \in Nat /\ DOMAIN inbox = 1 .. Len(inbox)
    BY LenProperties DEF LocalType
  <2>3. CASE CachedFor(n, p)
    <3>1. ToEffect(n, p) = ToApply(p)
      BY <2>3, EffectLeft
    <3> HIDE DEF Round
    <3>2. QED
      BY <2>1, <2>2, <3>1
  <2>4. CASE InHandFor(n, p)
    <3>1. ToEffect(n, p) = 2 * Round + 10
      BY <2>4, EffectLeft
    <3> HIDE DEF Round
    <3>2. QED
      BY <2>1, <2>2, <3>1
  <2>5. ASSUME NEW i \in DOMAIN inbox, QueuedAt(i, n, p)
        PROVE  ToEffect(n, p) \in 1 .. 2 * Round + 11 + 10 * Len(inbox)
    <3>1. ToEffect(n, p) = 2 * Round + 1 + 10 * i + ToReceive(SimThread)
      BY <2>5, EffectLeft
    <3>2. i \in 1 .. Len(inbox)
      BY <2>2
    <3> HIDE DEF Round
    <3>3. ASSUME NEW r \in Nat, NEW len \in Nat,
                 NEW k \in 1 .. len, NEW t \in 0 .. 10
          PROVE  2 * r + 1 + 10 * k + t \in 1 .. 2 * r + 11 + 10 * len
      OBVIOUS
    <3>4. 2 * Round + 1 + 10 * i + ToReceive(SimThread)
            \in 1 .. 2 * Round + 11 + 10 * Len(inbox)
      BY <2>1, <2>2, <3>2, <3>3, Zenon
    <3>5. QED
      BY <3>1, <3>4, Zenon
  <2>6. QED
    BY <2>3, <2>4, <2>5 DEF OnItsWay
<1> HIDE DEF Inv, Near
<1>3. QED
  BY <1>1, <1>2, PTL DEF Near

\* Nothing but an absorbing heading catches the simulation thread, and what
\* caught it never lets it go: no later command or callback gets it out.
THEOREM OnlyAbsorbingHeadingsCatch ==
    ASSUME Threads = {SimThread}
    PROVE  CollectorSpec =>
             /\ [](pc[SimThread] = "normalize" => Stuck(SimThread))
             /\ [][Stuck(SimThread) => Stuck(SimThread)']_collectorVars
<1> DEFINE Caught == pc[SimThread] = "normalize" => Stuck(SimThread)
           Stays == Stuck(SimThread) => Stuck(SimThread)'
<1>1. CollectorInit => Caught
  BY CollectorAssumption DEF CollectorInit
<1>2. ASSUME LocalType, [CollectorNext]_collectorVars
      PROVE  Stays /\ (Caught => Caught')
  <2>1. SimThread \in Threads
    BY CollectorAssumption
  <2>2. CASE UNCHANGED <<pc, frame, gLatestAgentCommands>>
    BY <2>2 DEF Stuck, NeverInRange
  <2>3. CASE pc[SimThread] # "normalize" /\ pc'[SimThread] # "normalize"
    BY <2>3 DEF Stuck
  <2>4. CASE ApplyLatestCommand(SimThread)
    <3>1. pc[SimThread] = "apply"
      BY <2>4 DEF ApplyLatestCommand
    <3>2. pc'[SimThread] = "pace" \/ Stuck(SimThread)'
      BY <1>2, <2>4, ApplyEndsOrSticks
    <3>3. ~Stuck(SimThread)
      BY <3>1 DEF Stuck
    <3>4. CASE pc'[SimThread] = "pace"
      BY <2>3, <3>1, <3>4
    <3>5. CASE Stuck(SimThread)'
      BY <3>3, <3>5
    <3>6. QED
      BY <3>2, <3>4, <3>5
  <2>5. ASSUME NEW next \in {"idle", "receive", "cache", "apply", "pace",
                             "build", "send", "sent", "next"},
               pc[SimThread] # "normalize", Goto(SimThread, next)
        PROVE  pc'[SimThread] # "normalize"
    BY <2>1, <2>5 DEF Goto
  <2>6. CASE Callback(SimThread) /\ ~ApplyLatestCommand(SimThread)
    <3>1. pc[SimThread] # "normalize" /\ pc'[SimThread] # "normalize"
      <4>1. ASSUME NEW p \in Platforms, OnMoverUpdated(SimThread, p)
            PROVE  pc[SimThread] # "normalize" /\ pc'[SimThread] # "normalize"
        BY <2>5, <4>1 DEF OnMoverUpdated
      <4>2. CASE Receive(SimThread)
        BY <2>5, <4>2 DEF Receive
      <4>3. CASE HandleAgentCommand(SimThread) \/ Build(SimThread)
                 \/ SetNextSendTime(SimThread)
        BY <2>5, <4>3 DEF HandleAgentCommand, Build, SetNextSendTime
      <4>4. CASE Pace(SimThread) \/ Send(SimThread)
        BY <2>5, <4>4 DEF Pace, Send
      <4>5. QED
        BY <2>6, <4>1, <4>2, <4>3, <4>4 DEF Callback
    <3>2. QED
      BY <2>3, <3>1
  <2>7. CASE Lifecycle
    <3>1. CASE Start \/ FlagStartFrame
      <4>1. pc[SimThread] # "normalize" /\ pc'[SimThread] # "normalize"
        BY <2>5, <3>1 DEF Start, FlagStartFrame
      <4>2. QED
        BY <2>3, <4>1
    <3>2. CASE ~(Start \/ FlagStartFrame)
      <4>1. UNCHANGED <<pc, frame, gLatestAgentCommands>>
        BY <2>7, <3>2
        DEF Lifecycle, AddedToSimulation, InitializeSender, InitializeRecv,
            Complete, Shutdown, DestroySender, KeepStatics
      <4>2. QED
        BY <2>2, <4>1
    <3>3. QED
      BY <3>1, <3>2
  <2>8. CASE Tick \/ (\E p \in Platforms : Break(p))
             \/ (\E c \in Commands : AgentSends(c))
             \/ UNCHANGED collectorVars
    <3>1. UNCHANGED <<pc, frame, gLatestAgentCommands>>
      BY <2>8 DEF Tick, Break, AgentSends, collectorVars
    <3>2. QED
      BY <2>2, <3>1
  <2>9. QED
    BY <1>2, <2>4, <2>6, <2>7, <2>8 DEF CollectorNext
<1>3. CollectorSpec => []LocalType
  BY CommandInvariant, PTL DEF CommandInv
<1> HIDE DEF Caught, Stays
<1>4. CollectorSpec => []Caught /\ [][Stays]_collectorVars
  BY <1>1, <1>2, <1>3, PTL DEF CollectorSpec
<1>5. QED
  BY <1>4 DEF Caught, Stays
=============================================================================
