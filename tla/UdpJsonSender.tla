---------------------------- MODULE UdpJsonSender ----------------------------
(***************************************************************************)
(* UdpJsonSender: the two Winsock sockets between the simulation and the   *)
(* Python agent (frames out on port 9000, commands in on port 9001), and   *)
(* the process-wide sequence number of the frames.  The operators below    *)
(* are the member functions; PlatformDataCollector is their only caller.   *)
(***************************************************************************)
EXTENDS Naturals, Sequences

VARIABLES
    mSocket, mInitialized,         \* the sending socket
    mRecvSocket, mRecvInitialized, \* the receiving socket
    startups,    \* WSAStartup calls not yet balanced by WSACleanup
    openSockets, \* sockets the process holds open
    sSeq,        \* the static counter of BuildJson
    wire,        \* history: frames handed to the network
    inbox        \* datagrams queued on the receiving socket

socketVars == <<mSocket, mInitialized, mRecvSocket, mRecvInitialized,
                startups, openSockets>>
senderVars == <<socketVars, sSeq, wire, inbox>>

NoData == <<>>    \* the empty string ReceiveAgentData returns

SenderInit ==
    /\ mSocket = FALSE /\ mInitialized = FALSE
    /\ mRecvSocket = FALSE /\ mRecvInitialized = FALSE
    /\ startups = 0 /\ openSockets = 0
    /\ sSeq = 0 /\ wire = <<>> /\ inbox = <<>>

\* Initialize succeeds.
SenderInitialize ==
    /\ startups' = startups + 1
    /\ mSocket' = TRUE /\ openSockets' = openSockets + 1
    /\ mInitialized' = TRUE
    /\ UNCHANGED <<mRecvSocket, mRecvInitialized>>

\* Mutant: the failing paths forget WSACleanup.
SenderInitializeFailsUncleaned ==
    /\ mSocket' = FALSE
    /\ startups' = startups + 1
    /\ UNCHANGED <<mInitialized, mRecvSocket, mRecvInitialized, openSockets>>

\* WSAStartup, socket or inet_pton fails: what was done so far is undone.
SenderInitializeFails ==
    /\ mSocket' = FALSE
    /\ UNCHANGED <<mInitialized, mRecvSocket, mRecvInitialized, startups,
                   openSockets>>

InitializeReceiver ==
    /\ mRecvSocket' = TRUE
    /\ IF mRecvSocket
         THEN UNCHANGED <<openSockets, mRecvInitialized>>
         ELSE openSockets' = openSockets + 1 /\ mRecvInitialized' = TRUE
    /\ UNCHANGED <<mSocket, mInitialized, startups>>

\* socket, ioctlsocket or bind fails: the new socket is closed again.
InitializeReceiverFails == ~mRecvSocket /\ UNCHANGED socketVars

\* Mutant: every call of Shutdown releases Winsock.
SenderShutdownAlwaysCleans ==
    /\ openSockets' = openSockets - (IF mSocket THEN 1 ELSE 0)
                                  - (IF mRecvSocket THEN 1 ELSE 0)
    /\ startups' = startups - 1
    /\ mSocket' = FALSE /\ mRecvSocket' = FALSE
    /\ mInitialized' = FALSE /\ mRecvInitialized' = FALSE
    /\ inbox' = <<>>

\* Winsock is released once, however often Shutdown is called.
SenderShutdown ==
    /\ openSockets' = openSockets - (IF mSocket THEN 1 ELSE 0)
                                  - (IF mRecvSocket THEN 1 ELSE 0)
    /\ startups' = IF mInitialized \/ mRecvInitialized THEN startups - 1
                                                       ELSE startups
    /\ mSocket' = FALSE /\ mRecvSocket' = FALSE
    /\ mInitialized' = FALSE /\ mRecvInitialized' = FALSE
    /\ inbox' = <<>>

\* BuildJson consumes a sequence number whether or not the frame gets out.
BuildJson == IF mInitialized THEN sSeq' = sSeq + 1 ELSE UNCHANGED sSeq

\* sendto: the frame goes out, or the error is only reported.
SendTo(seq, frame) ==
    \/ mInitialized /\ wire' = Append(wire, [seq |-> seq, frame |-> frame])
    \/ UNCHANGED wire

\* One datagram per call, oldest first; one that does not fit the buffer is an
\* error that consumes it.
ReceiveAgentData(result) ==
    IF ~mRecvInitialized \/ inbox = <<>>
      THEN result = NoData /\ UNCHANGED inbox
      ELSE /\ result = IF Head(inbox).fits THEN <<Head(inbox)>> ELSE NoData
           /\ inbox' = Tail(inbox)
=============================================================================
