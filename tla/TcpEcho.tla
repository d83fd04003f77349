------------------------------ MODULE TcpEcho ------------------------------
(***************************************************************************)
(* The TCP echo server: TcpServer keeps one accept outstanding and makes a *)
(* ClientSession of each connection; a session reads what there is, writes *)
(* it back whole and reads again, and lives as long as an operation holds  *)
(* its shared_ptr.  All handlers run on one IO thread, in the order in     *)
(* which the kernel queues the completions.                                *)
(***************************************************************************)
EXTENDS Naturals, Sequences

CONSTANTS Clients,     \* connections; a client that returns is another one
          Nobody,
          Bytes,       \* contents
          max_length   \* ClientSession::max_length

ASSUME TcpAssumption == Nobody \notin Clients /\ max_length \in Nat \ {0}

VARIABLES
    client,    \* client -> what it is doing
    sent,      \* client -> the stream it sent
    received,  \* client -> the stream that came back, read there or not
    backlog,   \* connections the kernel holds for the acceptor
    exhausted, \* the process can create no socket
    acceptOp,  \* the accept operation: none, pending, or queued
    readOp, writeOp, \* client -> the same of its session
    started,   \* client -> it has had a session
    taken,     \* client -> how much of its stream the session has read
    data_,     \* client -> the session's buffer, up to the length read
    written,   \* client -> how much of data_ async_write has consumed
    queue      \* completions on their way to the IO thread

clientVars == <<client, sent>>
sessionVars == <<started, readOp, writeOp, taken, data_, written>>
tcpVars == <<clientVars, received, backlog, exhausted, acceptOp, sessionVars, queue>>

Deaf == {"deaf", "idle"}              \* an idle client has finished too
Finished == {"finished", "idle"}
Present == {"connected", "deaf", "finished", "idle"}

Packet(op, c, ec, n) == [op |-> op, of |-> c, ec |-> ec, bytes |-> n]
Packets == [op : {"accept", "read", "write"}, of : Clients \cup {Nobody},
            ec : {"ok", "error"}, bytes : Nat]

\* A session is alive as long as an operation refers to it.
Alive(c) == readOp[c] # "none" \/ writeOp[c] # "none"
-----------------------------------------------------------------------------
(* Clients and the machine.                                                *)

Connect(c) ==
    /\ client[c] = "away"
    /\ client' = [client EXCEPT ![c] = "connected"]
    /\ backlog' = Append(backlog, c)
    /\ UNCHANGED <<sent, received, exhausted, acceptOp, sessionVars, queue>>

Send(c, b) ==
    /\ client[c] \in {"connected", "deaf"}
    /\ sent' = [sent EXCEPT ![c] = Append(@, b)]
    /\ UNCHANGED <<client, received, backlog, exhausted, acceptOp, sessionVars, queue>>

\* It stops reading; or says that it has finished sending; or resets.
Turns(c, from, to) ==
    /\ client[c] \in from
    /\ client' = [client EXCEPT ![c] = to]
    /\ UNCHANGED <<sent, received, backlog, exhausted, acceptOp, sessionVars, queue>>

StopReading(c) ==
    Turns(c, {"connected"}, "deaf") \/ Turns(c, {"finished"}, "idle")
FinishSending(c) ==
    Turns(c, {"connected"}, "finished") \/ Turns(c, {"deaf"}, "idle")
Reset(c) == Turns(c, Present, "gone")

Shortage ==
    /\ exhausted' = ~exhausted
    /\ UNCHANGED <<clientVars, received, backlog, acceptOp, sessionVars, queue>>
-----------------------------------------------------------------------------
(* The operations that handlers start.                                     *)

\* start_accept_op makes the socket of the next connection first.
AsyncAccept(rest) ==
    IF exhausted
      THEN /\ acceptOp' = "queued"
           /\ queue' = Append(rest, Packet("accept", Nobody, "error", 0))
      ELSE acceptOp' = "pending" /\ queue' = rest

\* Mutant: after an error the server does not accept again.
AcceptAfterSuccess(p, rest) ==
    IF p.ec = "ok" THEN AsyncAccept(rest)
                   ELSE acceptOp' = "none" /\ queue' = rest

\* OnAccept accepts again after an error too.
AcceptAgain(p, rest) == AsyncAccept(rest)

DoRead(c) == readOp' = [readOp EXCEPT ![c] = "pending"]

\* async_write is done when all of the data is; until then it goes on.
WriteFrom(c, k) == /\ writeOp' = [writeOp EXCEPT ![c] = "pending"]
                   /\ written' = [written EXCEPT ![c] = k]

EndRead(c) == readOp' = [readOp EXCEPT ![c] = "none"]
EndWrite(c) == writeOp' = [writeOp EXCEPT ![c] = "none"]
-----------------------------------------------------------------------------
(* The kernel completes operations.                                        *)

Enqueue(packet) == queue' = Append(queue, packet)

\* A connection that was reset while it waited may be reported as aborted.
AcceptCompletes ==
    /\ acceptOp = "pending" /\ backlog # <<>>
    /\ acceptOp' = "queued"
    /\ backlog' = Tail(backlog)
    /\ \/ Enqueue(Packet("accept", Head(backlog), "ok", 0))
       \/ /\ client[Head(backlog)] = "gone"
          /\ Enqueue(Packet("accept", Nobody, "error", 0))
    /\ UNCHANGED <<clientVars, received, exhausted, sessionVars>>

Some(n) == IF n = 0 THEN {0} ELSE 1 .. n

\* Mutant: the read is given more room than data_ has.
RoomBeyond(unread) == IF unread <= max_length THEN unread ELSE max_length + 1

\* buffer(data_, max_length).
Room(unread) == IF unread <= max_length THEN unread ELSE max_length

\* The read takes into data_ some of what was sent, and nothing only at the
\* end of the stream.
ReadCompletes(c) ==
    /\ readOp[c] = "pending"
    /\ LET unread == Len(sent[c]) - taken[c]
       IN \/ /\ client[c] # "gone"
             /\ unread > 0 \/ client[c] \in Finished
             /\ \E n \in Some(Room(unread)) :
                  /\ data_' = [data_ EXCEPT
                       ![c] = SubSeq(sent[c], taken[c] + 1, taken[c] + n)]
                  /\ taken' = [taken EXCEPT ![c] = @ + n]
                  /\ Enqueue(Packet("read", c, "ok", n))
          \/ /\ client[c] = "gone"
             /\ Enqueue(Packet("read", c, "error", 0))
             /\ UNCHANGED <<data_, taken>>
    /\ readOp' = [readOp EXCEPT ![c] = "queued"]
    /\ UNCHANGED <<clientVars, received, backlog, exhausted, acceptOp, started,
                   writeOp, written>>

\* The write moves some of what is left in data_ to the client, or, while that
\* does not read, into the buffers in between as far as they have room.
WriteCompletes(c) ==
    /\ writeOp[c] = "pending"
    /\ \/ /\ client[c] # "gone"
          /\ \E n \in Some(Len(data_[c]) - written[c]) :
               /\ received' = [received EXCEPT
                    ![c] = @ \o SubSeq(data_[c], written[c] + 1, written[c] + n)]
               /\ Enqueue(Packet("write", c, "ok", n))
       \/ /\ client[c] = "gone"
          /\ Enqueue(Packet("write", c, "error", 0))
          /\ UNCHANGED received
    /\ writeOp' = [writeOp EXCEPT ![c] = "queued"]
    /\ UNCHANGED <<clientVars, backlog, exhausted, acceptOp, started, readOp,
                   taken, data_, written>>
-----------------------------------------------------------------------------
(* The IO thread handles the first completion.                             *)

Completed(op) == queue # <<>> /\ Head(queue).op = op

OnAccept ==
    /\ Completed("accept")
    /\ LET p == Head(queue)
       IN /\ IF p.ec = "ok"
               THEN DoRead(p.of) /\ started' = [started EXCEPT ![p.of] = TRUE]
               ELSE UNCHANGED <<readOp, started>>
          /\ AcceptAgain(p, Tail(queue))
    /\ UNCHANGED <<clientVars, received, backlog, exhausted, writeOp, taken,
                   data_, written>>

\* Mutant: zero bytes are not taken for the end of the stream.
ReadResultOk(p) == p.ec = "ok"

\* complete_iocp_recv: no bytes and no error is eof.
ReadResult(p) == p.ec = "ok" /\ p.bytes > 0

\* Mutant: the next read is started along with the write.
WriteAndRead(c) == DoRead(c) /\ WriteFrom(c, 0)

DoWrite(c) == EndRead(c) /\ WriteFrom(c, 0)

OnRead ==
    /\ Completed("read")
    /\ LET p == Head(queue)
       IN IF ReadResult(p)
            THEN DoWrite(p.of)
            ELSE EndRead(p.of) /\ UNCHANGED <<writeOp, written>>
    /\ queue' = Tail(queue)
    /\ UNCHANGED <<clientVars, received, backlog, exhausted, acceptOp, started,
                   taken, data_>>

\* Mutant: one transfer is taken for the whole write.
OneTransfer(p) == TRUE

\* write_op: an error, nothing transferred, or nothing left.
WriteDone(p) ==
    p.ec # "ok" \/ p.bytes = 0 \/ written[p.of] + p.bytes = Len(data_[p.of])

OnWrite ==
    /\ Completed("write")
    /\ LET p == Head(queue)
       IN \/ /\ ~WriteDone(p)
             /\ WriteFrom(p.of, written[p.of] + p.bytes)
             /\ UNCHANGED readOp
          \/ /\ WriteDone(p)
             /\ EndWrite(p.of)
             /\ IF p.ec = "ok" THEN DoRead(p.of) ELSE UNCHANGED readOp
             /\ UNCHANGED written
    /\ queue' = Tail(queue)
    /\ UNCHANGED <<clientVars, received, backlog, exhausted, acceptOp, started,
                   taken, data_>>
-----------------------------------------------------------------------------
TcpInit ==
    /\ client = [c \in Clients |-> "away"]
    /\ sent = [c \in Clients |-> <<>>] /\ received = [c \in Clients |-> <<>>]
    /\ backlog = <<>> /\ queue = <<>> /\ exhausted = FALSE
    /\ acceptOp = "pending"
    /\ readOp = [c \in Clients |-> "none"] /\ writeOp = [c \in Clients |-> "none"]
    /\ started = [c \in Clients |-> FALSE]
    /\ taken = [c \in Clients |-> 0] /\ written = [c \in Clients |-> 0]
    /\ data_ = [c \in Clients |-> <<>>]

Handler == OnAccept \/ OnRead \/ OnWrite

Environment(c) ==
    \/ Connect(c) \/ StopReading(c) \/ FinishSending(c) \/ Reset(c)
    \/ \E b \in Bytes : Send(c, b)

TcpNext ==
    \/ Shortage \/ AcceptCompletes \/ Handler
    \/ \E c \in Clients : Environment(c) \/ ReadCompletes(c) \/ WriteCompletes(c)

TcpSafety == TcpInit /\ [][TcpNext]_tcpVars

\* The IO thread is scheduled and the kernel completes what it can; clients
\* owe nothing, and for one that does not read the buffers owe no room.
TcpFairness ==
    /\ WF_tcpVars(AcceptCompletes) /\ WF_tcpVars(Handler)
    /\ \A c \in Clients :
         /\ WF_tcpVars(ReadCompletes(c))
         /\ WF_tcpVars(client[c] \notin Deaf /\ WriteCompletes(c))

TcpSpec == TcpSafety /\ TcpFairness
-----------------------------------------------------------------------------
Ops == {"none", "pending", "queued"}

TcpTypeOK ==
    /\ client \in [Clients -> Present \cup {"away", "gone"}]
    /\ sent \in [Clients -> Seq(Bytes)] /\ received \in [Clients -> Seq(Bytes)]
    /\ backlog \in Seq(Clients) /\ queue \in Seq(Packets)
    /\ exhausted \in BOOLEAN /\ acceptOp \in Ops
    /\ readOp \in [Clients -> Ops] /\ writeOp \in [Clients -> Ops]
    /\ started \in [Clients -> BOOLEAN]
    /\ taken \in [Clients -> Nat] /\ written \in [Clients -> Nat]
    /\ data_ \in [Clients -> Seq(Bytes)]
    /\ \A c \in Clients : Len(data_[c]) <= max_length

\* A session has one operation at a time, so that data_ is never read into
\* while it is written from, and its completion is queued once; an operation
\* holds the session, so no completion comes for a session that is gone.
SessionHasOneOperation ==
    /\ \A c \in Clients : readOp[c] = "none" \/ writeOp[c] = "none"
    /\ \A k \in DOMAIN queue :
         /\ queue[k].op = "read" => readOp[queue[k].of] = "queued"
         /\ queue[k].op = "write" => writeOp[queue[k].of] = "queued"
         /\ \A j \in DOMAIN queue :
              queue[j].op = queue[k].op /\ queue[j].of = queue[k].of => j = k

\* A connection is not left waiting for ever: unless the process is short of
\* sockets again and again, it gets its session or leaves, however many accepts
\* failed before it.
ConnectionsAreServed ==
    <>[]~exhausted =>
      \A c \in Clients : client[c] \in Present ~> started[c] \/ client[c] = "gone"

\* A session whose client finished or left is released; what alone can keep it
\* is a write to a client that finished and does not read either.
SessionsAreReleased ==
    \A c \in Clients :
      started[c] /\ client[c] \in Finished \cup {"gone"}
        ~> ~Alive(c) \/ (client[c] = "idle" /\ writeOp[c] = "pending")

\* A client hears what it said, from the beginning, without a gap, and all of
\* it if it listens, whether or not others read, leave or fail to connect.
Line == [c \in Clients |->
           IF client[c] = "gone" THEN "cut"
           ELSE IF client[c] \in Deaf THEN "held"
           ELSE IF started[c] THEN "up" ELSE "down"]
Stream == INSTANCE StreamEcho WITH said <- sent, heard <- received, line <- Line
ImplementsStreamEcho == Stream!Spec
=============================================================================
