------------------------- MODULE TcpProgressProofs -------------------------
(***************************************************************************)
(* TLAPS proofs about TcpEcho, for every set of clients and of contents    *)
(* and every max_length: what ConnectionsAreServed and the liveness of     *)
(* ImplementsStreamEcho rest on besides fairness.  A session is released   *)
(* only when its client heard all that it said or left; a connection that  *)
(* waits, and a stream that has not come back, come nearer with every step *)
(* that concerns them; and such a step is always there to be taken.        *)
(***************************************************************************)
EXTENDS TcpEchoProofs

\* Where in q the element of S is, and that S has no more than one in it.
Place(S, q) == CHOOSE k \in DOMAIN q : q[k] \in S
Sole(S, q) == \A j, k \in DOMAIN q : q[j] \in S /\ q[k] \in S => j = k

\* The IO thread handles as many completions, up to that of S.
Ahead(S) == IF S = {} THEN 0 ELSE Place(S, queue)

\* The only element of S is where one is found.
LEMMA PlaceIs ==
  ASSUME NEW q, NEW S, Sole(S, q), NEW k \in DOMAIN q, q[k] \in S
  PROVE  Place(S, q) = k
BY DEF Place, Sole

\* A place is a position.
LEMMA PlaceInRange ==
  ASSUME NEW T, NEW q \in Seq(T), NEW S, S \cap Elements(q) # {}
  PROVE  Place(S, q) \in 1 .. Len(q) /\ q[Place(S, q)] \in S
<1>1. DOMAIN q = 1 .. Len(q)
  BY LenProperties
<1>2. \E k \in DOMAIN q : q[k] \in S
  BY DEF Elements
<1>. QED
  BY <1>1, <1>2 DEF Place

\* What is appended behind it leaves an element at its place.
LEMMA PlaceWhenAppended ==
  ASSUME NEW T, NEW q \in Seq(T), NEW p \in T, NEW S, p \notin S, Sole(S, q),
         S \cap Elements(q) # {}
  PROVE  Place(S, Append(q, p)) = Place(S, q)
<1> DEFINE r == Append(q, p)
           k == Place(S, q)
<1>1. /\ Len(q) \in Nat /\ DOMAIN q = 1 .. Len(q) /\ DOMAIN r = 1 .. Len(q) + 1
      /\ \A i \in 1 .. Len(q) : r[i] = q[i]
      /\ r[Len(q) + 1] = p
  BY AppendProperties, LenProperties
<1>2. k \in 1 .. Len(q) /\ q[k] \in S
  BY PlaceInRange
<1>. HIDE DEF r, k
<1>3. \A i \in DOMAIN r : i \in DOMAIN q \/ i = Len(q) + 1
  BY <1>1
<1>4. Sole(S, r)
  BY <1>1, <1>3 DEF Sole
<1>5. k \in DOMAIN r /\ r[k] \in S
  BY <1>1, <1>2
<1>6. Place(S, r) = k
  BY <1>4, <1>5, PlaceIs
<1>. QED
  BY <1>6 DEF r, k

\* Taking the head of a queue brings an element behind it one place forward.
LEMMA PlaceWhenHeadTaken ==
  ASSUME NEW T, NEW q \in Seq(T), q # <<>>, NEW S, Head(q) \notin S, Sole(S, q),
         S \cap Elements(q) # {}
  PROVE  /\ Place(S, Tail(q)) = Place(S, q) - 1 /\ Place(S, q) \in Nat
         /\ Sole(S, Tail(q)) /\ S \cap Elements(Tail(q)) # {}
<1> DEFINE r == Tail(q)
           k == Place(S, q)
<1>1. /\ Len(q) \in Nat /\ Len(q) # 0 /\ DOMAIN q = 1 .. Len(q) /\ Head(q) = q[1]
      /\ DOMAIN r = 1 .. Len(q) - 1
      /\ \A i \in 1 .. Len(q) - 1 : r[i] = q[i + 1]
  BY HeadTailProperties, LenProperties, EmptySeq
<1>2. k \in 1 .. Len(q) /\ q[k] \in S
  BY PlaceInRange
<1>. HIDE DEF r, k
<1>3. \A i \in DOMAIN r : i \in Int /\ i + 1 \in DOMAIN q /\ r[i] = q[i + 1]
  BY <1>1
<1>4. Sole(S, r)
  <2>. SUFFICES ASSUME NEW i \in DOMAIN r, NEW j \in DOMAIN r, r[i] \in S, r[j] \in S
                PROVE  i = j
    BY DEF Sole
  <2>1. i + 1 = j + 1 /\ i \in Int /\ j \in Int
    BY <1>3 DEF Sole
  <2>. QED
    BY <2>1
<1>5. k - 1 \in DOMAIN r /\ r[k - 1] \in S
  <2>1. k # 1
    BY <1>1, <1>2
  <2>2. k - 1 \in 1 .. Len(q) - 1 /\ (k - 1) + 1 = k
    BY <1>1, <1>2, <2>1
  <2>. QED
    BY <1>1, <1>2, <2>2
<1>6. Place(S, r) = k - 1
  BY <1>4, <1>5, PlaceIs
<1>7. r[k - 1] \in Elements(r)
  BY <1>5 DEF Elements
<1>. QED
  BY <1>2, <1>4, <1>5, <1>6, <1>7 DEF r, k

\* The accept's completion is queued once, and so is that of a session.
LEMMA SoleCompletions ==
  ASSUME TcpInv
  PROVE  /\ Sole(AcceptPackets, queue) /\ AcceptPackets \subseteq Elements(queue)
         /\ \A c \in Clients : /\ Sole(Own(c), queue)
                               /\ Own(c) \subseteq Elements(queue)
<1>1. OncePerOp(queue)
  BY DEF TcpInv
<1>2. Sole(AcceptPackets, queue)
  BY <1>1 DEF Sole, AcceptPackets, OncePerOp, SameOp
<1>3. ASSUME NEW c \in Clients PROVE Sole(Own(c), queue)
  <2>. SUFFICES ASSUME NEW j \in DOMAIN queue, NEW k \in DOMAIN queue,
                       queue[j] \in Own(c), queue[k] \in Own(c)
                PROVE  j = k
    BY DEF Sole
  <2>1. queue[j].op = queue[k].op
    BY OwnPackets
  <2>2. queue[j].of = c /\ queue[k].of = c
    BY DEF Own
  <2>. QED
    BY <1>1, <2>1, <2>2 DEF OncePerOp, SameOp
<1>. QED
  BY <1>2, <1>3 DEF AcceptPackets, Own
-----------------------------------------------------------------------------
(* Handlers and the queue.                                                 *)

\* Every handler takes the first completion; only an accept that fails again
\* puts another one behind.
LEMMA HandlerTakes ==
  ASSUME TcpInv, Handler
  PROVE  /\ queue # <<>> /\ queue \in Seq(Packets)
         /\ \/ queue' = Tail(queue)
            \/ /\ exhausted /\ Head(queue).op = "accept"
               /\ \E e \in Packets : /\ e.op = "accept"
                                     /\ queue' = Append(Tail(queue), e)
<1>1. Packet("accept", Nobody, "error", 0) \in Packets
      /\ Packet("accept", Nobody, "error", 0).op = "accept"
  BY DEF Packet, Packets
<1>2. queue # <<>> /\ queue \in Seq(Packets)
  BY DEF Handler, OnAccept, OnRead, OnWrite, Completed, TcpInv, TcpTypeOK
<1>. QED
  BY <1>1, <1>2 DEF Handler, OnAccept, OnRead, OnWrite, Completed, AcceptAgain,
                    AsyncAccept

\* A completion of another's session or accept: its handler brings c's forward.
LEMMA HandlerAdvances ==
  ASSUME TcpInv, Handler, NEW c \in Clients, Own(c) # {}, Own(c)' = Own(c)
  PROVE  Ahead(Own(c))' = Ahead(Own(c)) - 1 /\ Ahead(Own(c)) \in Nat
<1> DEFINE S == Own(c)
<1>1. /\ Sole(S, queue) /\ S \subseteq Elements(queue) /\ S # {}
      /\ queue # <<>> /\ queue \in Seq(Packets)
  BY SoleCompletions, HandlerTakes
<1>2. /\ Tail(queue) \in Seq(Packets)
      /\ \A r \in Elements(Tail(queue)) : ~SameOp(r, Head(queue))
  BY <1>1, FirstPacket
<1>3. Head(queue) \notin S
  <2>. SUFFICES ASSUME Head(queue) \in S PROVE FALSE
    OBVIOUS
  <2>1. Head(queue).op # "accept" /\ SameOp(Head(queue), Head(queue))
    BY DEF Own, SameOp
  <2>2. queue' = Tail(queue)
    BY <2>1, HandlerTakes
  <2>3. Head(queue) \in Elements(Tail(queue))
    BY <2>2 DEF Own
  <2>. QED
    BY <1>2, <2>1, <2>3
<1>. HIDE DEF S
<1>4. /\ Place(S, Tail(queue)) = Place(S, queue) - 1 /\ Place(S, queue) \in Nat
      /\ Sole(S, Tail(queue)) /\ S \cap Elements(Tail(queue)) # {}
  BY <1>1, <1>3, PlaceWhenHeadTaken
<1>5. Place(S, queue') = Place(S, Tail(queue))
  <2>1. CASE queue' = Tail(queue)
    BY <2>1
  <2>2. ASSUME NEW e \in Packets, e.op = "accept", queue' = Append(Tail(queue), e)
        PROVE  Place(S, queue') = Place(S, Tail(queue))
    <3>1. e \notin S
      BY <2>2 DEF S, Own
    <3>. QED
      BY <1>2, <1>4, <2>2, <3>1, PlaceWhenAppended
  <2>. QED
    BY <2>1, <2>2, HandlerTakes
<1>6. Ahead(S) = Place(S, queue)
  BY <1>1 DEF Ahead
<1>7. Ahead(Own(c))' = Place(S, queue')
  BY DEF Ahead, S
<1>. QED
  BY <1>4, <1>5, <1>6, <1>7 DEF S

\* What is appended behind c's completion leaves it where it is.
LEMMA OwnStays ==
  ASSUME TcpInv, NEW c \in Clients, Own(c)' = Own(c),
         \/ queue' = queue
         \/ \E p \in Packets : queue' = Append(queue, p) /\ p \notin Own(c)
  PROVE  Ahead(Own(c))' = Ahead(Own(c)) /\ (Handler => Own(c) = {})
<1>1. /\ Sole(Own(c), queue) /\ Own(c) \subseteq Elements(queue)
      /\ queue \in Seq(Packets)
  BY SoleCompletions DEF TcpInv, TcpTypeOK
<1>2. ASSUME Own(c) # {} PROVE Place(Own(c), queue') = Place(Own(c), queue)
  <2> DEFINE S == Own(c)
  <2>1. Sole(S, queue) /\ S \cap Elements(queue) # {}
    BY <1>1, <1>2
  <2>. HIDE DEF S
  <2>2. ASSUME NEW p \in Packets, queue' = Append(queue, p), p \notin S
        PROVE  Place(S, queue') = Place(S, queue)
    BY <1>1, <2>1, <2>2, PlaceWhenAppended
  <2>3. Place(S, queue') = Place(S, queue)
    BY <2>2 DEF S
  <2>. QED
    BY <2>3 DEF S
<1>3. Ahead(Own(c))' = IF Own(c) = {} THEN 0 ELSE Place(Own(c), queue')
  BY DEF Ahead
<1>4. Ahead(Own(c))' = Ahead(Own(c))
  BY <1>2, <1>3 DEF Ahead
<1>5. Handler => Own(c) = {}
  <2>. SUFFICES ASSUME Handler, Own(c) # {} PROVE FALSE
    OBVIOUS
  <2>1. Ahead(Own(c))' = Ahead(Own(c)) - 1 /\ Ahead(Own(c)) \in Nat
    BY HandlerAdvances
  <2>. QED
    BY <1>4, <2>1
<1>. QED
  BY <1>4, <1>5

\* The same of the accept's completion, as long as sockets can be created.
LEMMA AcceptStays ==
  ASSUME TcpInv, ~exhausted, AcceptPackets' = AcceptPackets,
         \/ queue' = queue
         \/ \E p \in Packets : queue' = Append(queue, p) /\ p \notin AcceptPackets
  PROVE  Ahead(AcceptPackets)' = Ahead(AcceptPackets) /\ ~Handler
<1> DEFINE S == AcceptPackets
<1>1. /\ Sole(S, queue) /\ S \subseteq Elements(queue) /\ queue \in Seq(Packets)
  BY SoleCompletions DEF TcpInv, TcpTypeOK
<1>2. Ahead(AcceptPackets)' = (IF S = {} THEN 0 ELSE Place(S, queue'))
  BY DEF Ahead
<1>. HIDE DEF S
<1>3. S # {} => Place(S, queue') = Place(S, queue)
  <2>1. ASSUME NEW p \in Packets, queue' = Append(queue, p), p \notin S, S # {}
        PROVE  Place(S, queue') = Place(S, queue)
    <3>1. S \cap Elements(queue) # {}
      BY <1>1, <2>1
    <3>. QED
      BY <1>1, <2>1, <3>1, PlaceWhenAppended
  <2>. QED
    BY <2>1 DEF S
<1>4. ~Handler
  <2>. SUFFICES ASSUME Handler PROVE FALSE
    OBVIOUS
  <2>1. queue' = Tail(queue) /\ queue # <<>>
    BY HandlerTakes
  <2>2. Len(queue) \in Nat /\ Len(queue') = Len(queue) - 1
    BY <1>1, <2>1, HeadTailProperties, LenProperties
  <2>3. Len(queue') = Len(queue) \/ Len(queue') = Len(queue) + 1
    BY <1>1, AppendProperties
  <2>. QED
    BY <2>2, <2>3
<1>. QED
  BY <1>2, <1>3, <1>4 DEF Ahead, S
-----------------------------------------------------------------------------
(* Connections that wait.                                                  *)

\* The connections that the acceptor takes, up to c.
InLine(c) == IF c \in Elements(backlog) THEN Place({c}, backlog) ELSE 0

Waits(c) == client[c] \in Present /\ ~started[c]

\* A connection is served or leaves, or comes forward in the backlog, or the
\* completion of the accept comes forward in the queue; and every handler and
\* every accept that completes does one of these.
ConnectionComesNearer(c) ==
    Waits(c) /\ ~exhausted =>
      \/ started'[c] \/ client'[c] = "gone"
      \/ InLine(c)' < InLine(c)
      \/ /\ InLine(c)' = InLine(c)
         /\ \/ Ahead(AcceptPackets)' < Ahead(AcceptPackets)
            \/ /\ Ahead(AcceptPackets)' = Ahead(AcceptPackets)
               /\ ~AcceptCompletes /\ (Handler => AcceptPackets = {})

\* For a connection that waits, a completion of the accept is queued, or the
\* kernel can complete the accept, as the backlog is not empty.
AcceptIsUnderWay(c) ==
    Waits(c) => \/ AcceptPackets # {}
                \/ acceptOp = "pending" /\ c \in Elements(backlog)

\* Whoever connects queues up behind the others.
LEMMA LineStays ==
  ASSUME TcpInv, NEW c \in Clients,
         \/ backlog' = backlog
         \/ \E d \in Clients : backlog' = Append(backlog, d) /\ d # c
  PROVE  InLine(c)' = InLine(c)
<1>1. backlog \in Seq(Clients) /\ Sole({c}, backlog)
  BY DEF TcpInv, TcpTypeOK, BacklogOK, Once, Sole
<1>2. ASSUME NEW d \in Clients, backlog' = Append(backlog, d), d # c
      PROVE  InLine(c)' = InLine(c)
  <2>1. Elements(backlog') = Elements(backlog) \cup {d}
    BY <1>1, <1>2, AppendElements
  <2>2. c \in Elements(backlog) => Place({c}, backlog') = Place({c}, backlog)
    <3>1. c \in Elements(backlog) => {c} \cap Elements(backlog) # {}
      OBVIOUS
    <3>2. d \notin {c}
      BY <1>2
    <3>. QED
      BY <1>1, <1>2, <3>1, <3>2, PlaceWhenAppended
  <2>. QED
    BY <1>2, <2>1, <2>2 DEF InLine
<1>3. backlog' = backlog => InLine(c)' = InLine(c)
  BY DEF InLine
<1>. QED
  BY <1>2, <1>3

\* An accept that completes brings everybody in the backlog forward.
LEMMA LineAdvances ==
  ASSUME TcpInv, NEW c \in Elements(backlog), AcceptCompletes
  PROVE  InLine(c)' < InLine(c)
<1>1. /\ backlog \in Seq(Clients) /\ backlog # <<>> /\ backlog' = Tail(backlog)
      /\ Once(backlog)
  BY DEF TcpInv, TcpTypeOK, BacklogOK, AcceptCompletes
<1>2. Sole({c}, backlog) /\ {c} \cap Elements(backlog) # {}
  BY <1>1 DEF Sole, Once
<1>3. Place({c}, backlog) \in 1 .. Len(backlog) /\ Len(backlog) \in Nat
  BY <1>1, <1>2, PlaceInRange, LenProperties
<1>4. InLine(c) = Place({c}, backlog)
  BY DEF InLine
<1>5. CASE c = Head(backlog)
  <2>1. c \notin Elements(backlog')
    BY <1>1, <1>5, TailElements
  <2>2. InLine(c)' = 0
    BY <2>1 DEF InLine
  <2>. QED
    BY <1>3, <1>4, <2>2
<1>6. CASE c # Head(backlog)
  <2>1. Head(backlog) \notin {c}
    BY <1>6
  <2>2. Place({c}, backlog') = Place({c}, backlog) - 1 /\ c \in Elements(backlog')
    BY <1>1, <1>2, <2>1, PlaceWhenHeadTaken
  <2>3. InLine(c)' = Place({c}, backlog')
    BY <2>2 DEF InLine
  <2>. QED
    BY <1>3, <1>4, <2>2, <2>3
<1>. QED
  BY <1>5, <1>6

\* For whoever waits the acceptor has something to do, or to handle.
LEMMA UnderWayForWaiting ==
  ASSUME TcpInv, GoesOnInv, NEW c \in Clients
  PROVE  AcceptIsUnderWay(c)
<1>1. Waits(c) => \/ AcceptPackets # {}
                  \/ c \in Elements(backlog) /\ Accepting
  BY DEF GoesOnInv, NobodyForgotten, Waits
<1>. QED
  BY <1>1 DEF Accepting, AcceptIsUnderWay

\* The steps that neither handle anything nor complete the accept.
LEMMA OthersLeaveTheLine ==
  ASSUME TcpInv, GoesOnInv, NEW c \in Clients, NEW d \in Clients,
         Environment(d) \/ Shortage \/ ReadCompletes(d) \/ WriteCompletes(d)
  PROVE  ConnectionComesNearer(c)
<1>. SUFFICES ASSUME Waits(c), ~exhausted
              PROVE  /\ InLine(c)' = InLine(c)
                     /\ Ahead(AcceptPackets)' = Ahead(AcceptPackets)
                     /\ ~AcceptCompletes /\ ~Handler
  BY DEF ConnectionComesNearer
<1>1. acceptOp' = acceptOp
  BY DEF Environment, Connect, Send, StopReading, FinishSending, Reset, Turns,
         Shortage, ReadCompletes, WriteCompletes
<1>2. ~AcceptCompletes
  BY <1>1 DEF AcceptCompletes
<1>3. InLine(c)' = InLine(c)
  <2>1. \/ backlog' = backlog
        \/ client[d] = "away" /\ backlog' = Append(backlog, d)
    BY DEF Environment, Connect, Send, StopReading, FinishSending, Reset, Turns,
           Shortage, ReadCompletes, WriteCompletes
  <2>. QED
    BY <2>1, LineStays DEF Waits, Present
<1>4. Ahead(AcceptPackets)' = Ahead(AcceptPackets) /\ ~Handler
  <2>1. CASE Environment(d) \/ Shortage
    <3>1. queue' = queue
      BY <2>1 DEF Environment, Connect, Send, StopReading, FinishSending, Reset,
                  Turns, Shortage
    <3>2. AcceptPackets' = AcceptPackets
      BY <3>1 DEF AcceptPackets
    <3>. QED
      BY <3>1, <3>2, AcceptStays
  <2>2. CASE ReadCompletes(d) \/ WriteCompletes(d)
    <3>1. PICK p \in Packets : queue' = Append(queue, p) /\ p.op # "accept"
      BY <2>2, KernelGoesOn
    <3>2. AcceptPackets' = AcceptPackets
      BY <3>1, PacketsAppended
    <3>3. p \notin AcceptPackets
      BY <3>1 DEF AcceptPackets
    <3>. QED
      BY <3>1, <3>2, <3>3, AcceptStays
  <2>. QED
    BY <2>1, <2>2
<1>. QED
  BY <1>2, <1>3, <1>4

\* A handler takes the accept's completion, or brings it forward.
LEMMA HandlersServe ==
  ASSUME TcpInv, GoesOnInv, NEW c \in Clients, Handler
  PROVE  ConnectionComesNearer(c)
<1>. SUFFICES ASSUME Waits(c), ~exhausted
              PROVE  /\ InLine(c)' = InLine(c)
                     /\ \/ Ahead(AcceptPackets)' < Ahead(AcceptPackets)
                        \/ /\ Ahead(AcceptPackets)' = Ahead(AcceptPackets)
                           /\ ~AcceptCompletes /\ AcceptPackets = {}
  BY DEF ConnectionComesNearer
<1>1. backlog' = backlog
  BY DEF Handler, OnAccept, OnRead, OnWrite
<1>2. InLine(c)' = InLine(c)
  BY <1>1, LineStays
<1>3. ~AcceptCompletes
  <2>1. SUFFICES ASSUME AcceptCompletes PROVE FALSE
    OBVIOUS
  <2>2. backlog \in Seq(Clients) /\ backlog # <<>> /\ backlog = Tail(backlog)
    BY <1>1, <2>1 DEF AcceptCompletes, TcpInv, TcpTypeOK
  <2>3. Len(backlog) \in Nat /\ Len(Tail(backlog)) = Len(backlog) - 1
    BY <2>2, HeadTailProperties, LenProperties
  <2>4. Len(backlog) = Len(backlog) - 1
    BY <2>2, <2>3
  <2>. QED
    BY <2>3, <2>4
<1>4. /\ queue' = Tail(queue) /\ queue # <<>> /\ queue \in Seq(Packets)
      /\ Sole(AcceptPackets, queue) /\ AcceptPackets \subseteq Elements(queue)
  BY HandlerTakes, SoleCompletions
<1>5. Elements(queue) = {Head(queue)} \cup Elements(queue')
  BY <1>4, PacketsLeft
<1>6. /\ \A r \in Elements(queue') : ~SameOp(r, Head(queue))
  BY <1>4, PacketsLeft
<1>7. CASE Head(queue) \in AcceptPackets
  <2>1. AcceptPackets' = {}
    BY <1>6, <1>7 DEF AcceptPackets, SameOp
  <2>2. Ahead(AcceptPackets)' = 0
    BY <2>1 DEF Ahead
  <2>3. AcceptPackets # {} /\ AcceptPackets \cap Elements(queue) # {}
    BY <1>4, <1>7
  <2>4. Place(AcceptPackets, queue) \in 1 .. Len(queue) /\ Len(queue) \in Nat
    BY <1>4, <2>3, PlaceInRange, LenProperties
  <2>5. Ahead(AcceptPackets) = Place(AcceptPackets, queue)
    BY <2>3 DEF Ahead
  <2>. QED
    BY <1>2, <2>2, <2>4, <2>5
<1>8. CASE Head(queue) \notin AcceptPackets
  <2>1. AcceptPackets' = AcceptPackets
    BY <1>5, <1>8 DEF AcceptPackets
  <2>2. CASE AcceptPackets = {}
    BY <1>2, <1>3, <2>1, <2>2 DEF Ahead
  <2>3. CASE AcceptPackets # {}
    <3>1. AcceptPackets \cap Elements(queue) # {}
      BY <1>4, <2>3
    <3> DEFINE S == AcceptPackets
    <3>2. Ahead(AcceptPackets)' = Place(S, queue')
      BY <2>1, <2>3 DEF Ahead
    <3>3. Ahead(AcceptPackets) = Place(S, queue)
      BY <2>3 DEF Ahead
    <3>. HIDE DEF S
    <3>4. Place(S, queue') = Place(S, queue) - 1 /\ Place(S, queue) \in Nat
      BY <1>4, <1>8, <3>1, PlaceWhenHeadTaken DEF S
    <3>. QED
      BY <1>2, <3>2, <3>3, <3>4
  <2>. QED
    BY <2>2, <2>3
<1>. QED
  BY <1>7, <1>8

\* The safety part of ConnectionsAreServed: while sockets can be created every
\* accept that completes and every handler brings a connection that waits
\* nearer to its session, and nothing sets it back.
THEOREM ConnectionsComeNearer ==
  TcpSafety => [][\A c \in Clients : ConnectionComesNearer(c)]_tcpVars
<1>1. ASSUME TcpInv, GoesOnInv, [TcpNext]_tcpVars, ~UNCHANGED tcpVars,
             NEW c \in Clients
      PROVE  ConnectionComesNearer(c)
  <2>1. ASSUME AcceptCompletes PROVE ConnectionComesNearer(c)
    <3>1. AcceptPackets = {}
      BY <1>1, <2>1, OwnPackets DEF AcceptCompletes
    <3>2. Waits(c) => c \in Elements(backlog)
      BY <3>1, <1>1, UnderWayForWaiting DEF AcceptIsUnderWay
    <3>3. Waits(c) => InLine(c)' < InLine(c)
      BY <1>1, <2>1, <3>2, LineAdvances
    <3>. QED
      BY <3>3 DEF ConnectionComesNearer
  <2>2. ASSUME Shortage PROVE ConnectionComesNearer(c)
    BY <1>1, <2>2, OthersLeaveTheLine
  <2>3. ASSUME NEW d \in Clients,
               Environment(d) \/ ReadCompletes(d) \/ WriteCompletes(d)
        PROVE  ConnectionComesNearer(c)
    BY <1>1, <2>3, OthersLeaveTheLine
  <2>. QED
    BY <1>1, <2>1, <2>2, <2>3, HandlersServe DEF TcpNext
<1>2. TcpInv /\ GoesOnInv /\ [TcpNext]_tcpVars
        => [\A c \in Clients : ConnectionComesNearer(c)]_tcpVars
  BY <1>1
<1>. QED
  BY <1>2, NobodyIsForgotten, TcpInvariant, PTL DEF TcpSafety

\* ... and there is always such a step to be taken: a completion of the accept
\* to be handled, or a connection for the kernel to complete it with.
THEOREM AcceptsAreUnderWay ==
  TcpSafety => [](\A c \in Clients : AcceptIsUnderWay(c))
<1>1. TcpInv /\ GoesOnInv => \A c \in Clients : AcceptIsUnderWay(c)
  BY UnderWayForWaiting
<1>. QED
  BY <1>1, NobodyIsForgotten, TcpInvariant, PTL
-----------------------------------------------------------------------------
(* Sessions are released only when they are done.                          *)

\* An operation of a session fails only when its client has gone, and a read
\* finds nothing only at the end of what a client sent that has finished.  A
\* session that no operation holds has given its client back all that it
\* said, or its client has gone.
HeldUntilDone(c) ==
    /\ \A p \in Own(c) :
         /\ p.ec = "error" => client[c] = "gone"
         /\ p.op = "read" /\ p.ec = "ok" /\ p.bytes = 0 =>
              client[c] \in Finished \cup {"gone"} /\ taken[c] = Len(sent[c])
    /\ started[c] /\ client[c] # "gone" =>
         \/ Alive(c)
         \/ client[c] \in Finished /\ Len(received[c]) = Len(sent[c])

HeldInv == \A c \in Clients : HeldUntilDone(c)

\* What HeldUntilDone is about is left alone.
LEMMA HeldStays ==
  ASSUME NEW c \in Clients, HeldUntilDone(c), Own(c)' = Own(c),
         UNCHANGED <<client[c], sent[c], received[c], taken[c], started[c],
                     readOp[c], writeOp[c]>>
  PROVE  HeldUntilDone(c)'
BY DEF HeldUntilDone, Alive

\* A client that has finished says no more, and one that has gone stays away.
LEMMA ClientsHold ==
  ASSUME TcpInv, NEW d \in Clients, Environment(d) \/ Shortage,
         NEW c \in Clients, HeldUntilDone(c)
  PROVE  HeldUntilDone(c)'
<1>1. /\ UNCHANGED <<received, started, readOp, writeOp, taken, queue>>
      /\ client \in [Clients -> Present \cup {"away", "gone"}]
      /\ sent \in [Clients -> Seq(Bytes)]
  BY DEF Environment, Shortage, Connect, Send, StopReading, FinishSending, Reset,
         Turns, clientVars, sessionVars, TcpInv, TcpTypeOK
<1>2. Own(c)' = Own(c)
  BY <1>1 DEF Own
<1>3. /\ client[c] = "gone" => client'[c] = "gone"
      /\ client[c] \in Finished => client'[c] \in Finished \cup {"gone"}
      /\ client[c] \in Finished \cup {"gone"} => sent'[c] = sent[c]
  BY <1>1 DEF Environment, Shortage, Connect, Send, StopReading, FinishSending,
         Reset, Turns, clientVars, Present, Finished
<1>. QED
  BY <1>1, <1>2, <1>3 DEF HeldUntilDone, Alive

\* What a read that completes says of the client.
LEMMA ReadTells ==
  ASSUME TcpInv, NEW c \in Clients, ReadCompletes(c)
  PROVE  \E n \in Nat, ec \in {"ok", "error"} :
           /\ Own(c)' = {Packet("read", c, ec, n)}
           /\ ec = "error" => client[c] = "gone"
           /\ n = 0 /\ ec = "ok" =>
                client[c] \in Finished /\ taken'[c] = Len(sent[c])
<1> DEFINE u == Len(sent[c]) - taken[c]
<1>1. /\ u \in Nat /\ taken[c] \in Nat /\ Len(sent[c]) \in Nat
      /\ Room(u) \in Nat /\ (Room(u) = 0 => u = 0)
  BY Positions, RoomLeft, TcpAssumption DEF Room
<1>2. Own(c) = {} /\ taken \in [Clients -> Nat]
  BY OwnPackets DEF ReadCompletes, TcpInv, TcpTypeOK
<1>3. ASSUME NEW n \in Nat, NEW ec \in {"ok", "error"},
             queue' = Append(queue, Packet("read", c, ec, n))
      PROVE  Own(c)' = {Packet("read", c, ec, n)}
  <2>1. /\ Packet("read", c, ec, n) \in Packets
        /\ Packet("read", c, ec, n).op = "read" /\ Packet("read", c, ec, n).of = c
    BY DEF Packet, Packets
  <2>. QED
    BY <1>2, <1>3, <2>1, PacketsAppended
<1>4. CASE client[c] = "gone"
  <2>1. queue' = Append(queue, Packet("read", c, "error", 0))
    BY <1>4 DEF ReadCompletes, Enqueue
  <2>2. Own(c)' = {Packet("read", c, "error", 0)}
    BY <1>3, <2>1
  <2>. QED
    BY <1>4, <2>2
<1>5. CASE client[c] # "gone"
  <2>1. PICK n \in Some(Room(u)) :
          /\ u > 0 \/ client[c] \in Finished
          /\ taken' = [taken EXCEPT ![c] = @ + n]
          /\ queue' = Append(queue, Packet("read", c, "ok", n))
    BY <1>5 DEF ReadCompletes, Enqueue
  <2>2. n \in Nat /\ (n = 0 => u = 0)
    BY <1>1, <2>1 DEF Some
  <2>3. taken'[c] = taken[c] + n
    BY <1>2, <2>1
  <2>4. Own(c)' = {Packet("read", c, "ok", n)}
    BY <1>3, <2>1, <2>2
  <2>5. n = 0 => client[c] \in Finished /\ taken'[c] = Len(sent[c])
    BY <1>1, <2>1, <2>2, <2>3
  <2>. QED
    BY <2>2, <2>4, <2>5
<1>. QED
  BY <1>4, <1>5

\* A write fails only when the client has gone.
LEMMA WriteTells ==
  ASSUME TcpInv, NEW c \in Clients, WriteCompletes(c)
  PROVE  \E n \in Nat, ec \in {"ok", "error"} :
           /\ Own(c)' = {Packet("write", c, ec, n)}
           /\ ec = "error" => client[c] = "gone"
           /\ ec = "ok" => Len(received'[c]) > Len(received[c])
<1> DEFINE u == Len(data_[c]) - written[c]
<1>1. /\ writeOp[c] = "pending" /\ written[c] \in Nat /\ Len(data_[c]) \in Nat
      /\ written[c] < Len(data_[c]) /\ Len(received[c]) \in Nat
      /\ Len(received[c]) = taken[c] - Len(data_[c]) + written[c]
  BY Positions DEF WriteCompletes, TcpInv, SessionOK
<1>2. /\ Own(c) = {} /\ received \in [Clients -> Seq(Bytes)]
      /\ TcpTypeOK /\ StreamOK(c)
  BY <1>1, OwnPackets DEF TcpInv, TcpTypeOK
<1>3. ASSUME NEW n \in Nat, NEW ec \in {"ok", "error"},
             queue' = Append(queue, Packet("write", c, ec, n))
      PROVE  Own(c)' = {Packet("write", c, ec, n)}
  <2>1. /\ Packet("write", c, ec, n) \in Packets
        /\ Packet("write", c, ec, n).op = "write" /\ Packet("write", c, ec, n).of = c
    BY DEF Packet, Packets
  <2>. QED
    BY <1>2, <1>3, <2>1, PacketsAppended
<1>4. CASE client[c] = "gone"
  <2>1. queue' = Append(queue, Packet("write", c, "error", 0))
    BY <1>4 DEF WriteCompletes, Enqueue
  <2>2. Own(c)' = {Packet("write", c, "error", 0)}
    BY <1>3, <2>1
  <2>. QED
    BY <1>4, <2>2
<1>5. CASE client[c] # "gone"
  <2>1. PICK n \in Some(u) :
          /\ received' = [received EXCEPT
               ![c] = @ \o SubSeq(data_[c], written[c] + 1, written[c] + n)]
          /\ queue' = Append(queue, Packet("write", c, "ok", n))
    BY <1>5 DEF WriteCompletes, Enqueue
  <2>2. n \in Nat /\ n > 0 /\ written[c] + n <= Len(data_[c])
    BY <1>1, <2>1 DEF Some
  <2>3. Own(c)' = {Packet("write", c, "ok", n)}
    BY <1>3, <2>1, <2>2
  <2>4. received'[c]
          = received[c] \o SubSeq(data_[c], written[c] + 1, written[c] + n)
    BY <1>2, <2>1
  <2>5. Len(received'[c]) = Len(received[c]) + n
    BY <1>1, <1>2, <2>2, <2>4, Extend
  <2>6. Len(received'[c]) > Len(received[c])
    BY <1>1, <2>2, <2>5
  <2>. QED
    BY <2>2, <2>3, <2>6
<1>. QED
  BY <1>4, <1>5
\* An operation that completes holds its session until it is handled.
LEMMA KernelHolds ==
  ASSUME TcpInv, GoesOnInv, NEW d \in Clients, ReadCompletes(d) \/ WriteCompletes(d),
         NEW c \in Clients, HeldUntilDone(c)
  PROVE  HeldUntilDone(c)'
<1>1. CASE c # d
  <2>1. Own(c)' = Own(c)
    BY <1>1, KernelGoesOn
  <2>2. UNCHANGED <<client[c], sent[c], received[c], taken[c], started[c],
                    readOp[c], writeOp[c]>>
    BY <1>1 DEF ReadCompletes, WriteCompletes, clientVars, TcpInv, TcpTypeOK
  <2>. QED
    BY <2>1, <2>2, HeldStays
<1>2. CASE c = d
  <2>1. UNCHANGED <<client, sent>> /\ Alive(c)'
    BY <1>2 DEF ReadCompletes, WriteCompletes, clientVars, TcpInv, TcpTypeOK, Alive
  <2>2. PICK n \in Nat, ec \in {"ok", "error"}, op \in {"read", "write"} :
          /\ Own(c)' = {Packet(op, c, ec, n)}
          /\ ec = "error" => client[c] = "gone"
          /\ op = "read" /\ n = 0 /\ ec = "ok" =>
               client[c] \in Finished /\ taken'[c] = Len(sent[c])
    BY <1>2, ReadTells, WriteTells
  <2>3. /\ Packet(op, c, ec, n).op = op /\ Packet(op, c, ec, n).ec = ec
        /\ Packet(op, c, ec, n).bytes = n
    BY DEF Packet
  <2>. QED
    BY <2>1, <2>2, <2>3 DEF HeldUntilDone
<1>. QED
  BY <1>1, <1>2

\* A handler that starts nothing had an error, or the end of the stream, to
\* handle: the client has gone, or has got back what the session read.
LEMMA HandlersHold ==
  ASSUME TcpInv, GoesOnInv, OnRead \/ OnWrite, NEW c \in Clients, HeldUntilDone(c)
  PROVE  HeldUntilDone(c)'
<1> DEFINE p == Head(queue)
<1>1. UNCHANGED <<client, sent, received, taken, started>>
  BY DEF OnRead, OnWrite, clientVars
<1>2. PICK d \in Clients :
        /\ p \in Packets /\ p.of = d /\ Own(d) = {p} /\ Own(d)' = {}
        /\ \A e \in Clients \ {d} : /\ Own(e)' = Own(e)
                                    /\ readOp'[e] = readOp[e]
                                    /\ writeOp'[e] = writeOp[e]
  BY HandlerGoesOn
<1>3. CASE c # d
  BY <1>1, <1>2, <1>3, HeldStays
<1>4. CASE c = d
  <2>1. readOp \in [Clients -> Ops] /\ writeOp \in [Clients -> Ops]
    BY DEF TcpInv, TcpTypeOK
  <2>2. p.ec \in {"ok", "error"} /\ p.bytes \in Nat
    BY <1>2 DEF Packets
  <2>3. /\ p.ec = "error" => client[c] = "gone"
        /\ p.op = "read" /\ p.ec = "ok" /\ p.bytes = 0 =>
             /\ client[c] \in Finished \cup {"gone"} /\ taken[c] = Len(sent[c])
             /\ Len(received[c]) = Len(sent[c])
    <3>1. p.op = "read" => Len(received[c]) = taken[c] - p.bytes
      BY <1>2, <1>4, OwnPackets DEF ReadOK
    <3>. QED
      BY <1>2, <1>4, <3>1, Positions DEF HeldUntilDone
  <2>4. CASE OnRead
    <3>1. /\ p.op = "read"
          /\ p.ec = "ok" /\ p.bytes > 0 => writeOp'[c] = "pending"
      BY <1>2, <1>4, <2>1, <2>4
         DEF OnRead, Completed, ReadResult, DoWrite, WriteFrom
    <3>2. started[c] /\ client[c] # "gone" =>
            \/ Alive(c)'
            \/ client[c] \in Finished /\ Len(received[c]) = Len(sent[c])
      BY <2>2, <2>3, <3>1 DEF Alive
    <3>. QED
      BY <1>1, <1>2, <1>4, <3>2 DEF HeldUntilDone
  <2>5. CASE OnWrite
    <3>1. p.ec = "ok" => writeOp'[c] = "pending" \/ readOp'[c] = "pending"
      BY <1>2, <1>4, <2>1, <2>5
         DEF OnWrite, Completed, WriteFrom, EndWrite, DoRead
    <3>2. client[c] # "gone" => Alive(c)'
      BY <2>2, <2>3, <3>1 DEF Alive
    <3>. QED
      BY <1>1, <1>2, <1>4, <3>2 DEF HeldUntilDone
  <2>. QED
    BY <2>4, <2>5
<1>. QED
  BY <1>3, <1>4

\* The session of a connection that is accepted is held by its first read.
LEMMA AcceptsHold ==
  ASSUME TcpInv, GoesOnInv, OnAccept \/ AcceptCompletes,
         NEW c \in Clients, HeldUntilDone(c)
  PROVE  HeldUntilDone(c)'
<1>1. Own(c)' = Own(c) /\ UNCHANGED <<client, sent, received, taken, writeOp>>
  BY OnAcceptGoesOn, AcceptGoesOn
     DEF OnAccept, AcceptCompletes, clientVars, sessionVars
<1>2. \/ readOp'[c] = readOp[c] /\ started'[c] = started[c]
      \/ readOp'[c] = "pending"
  <2>1. readOp \in [Clients -> Ops] /\ started \in [Clients -> BOOLEAN]
    BY DEF TcpInv, TcpTypeOK
  <2>2. \/ UNCHANGED <<readOp, started>>
        \/ \E e \in {Head(queue).of} : /\ readOp' = [readOp EXCEPT ![e] = "pending"]
                                      /\ started' = [started EXCEPT ![e] = TRUE]
    BY DEF OnAccept, AcceptCompletes, DoRead, sessionVars
  <2>. QED
    BY <2>1, <2>2
<1>. QED
  BY <1>1, <1>2 DEF HeldUntilDone, Alive

\* Every step holds the sessions that are not done.
LEMMA HeldStep ==
  ASSUME TcpInv, GoesOnInv, HeldInv, [TcpNext]_tcpVars
  PROVE  HeldInv'
<1>. SUFFICES ASSUME NEW c \in Clients PROVE HeldUntilDone(c)'
  BY DEF HeldInv
<1>1. HeldUntilDone(c)
  BY DEF HeldInv
<1>2. CASE Shortage
  BY <1>1, <1>2, ClientsHold
<1>3. ASSUME NEW d \in Clients, Environment(d) PROVE HeldUntilDone(c)'
  BY <1>1, <1>3, ClientsHold
<1>4. ASSUME NEW d \in Clients, ReadCompletes(d) \/ WriteCompletes(d)
      PROVE  HeldUntilDone(c)'
  BY <1>1, <1>4, KernelHolds
<1>5. CASE AcceptCompletes \/ Handler
  BY <1>1, <1>5, AcceptsHold, HandlersHold DEF Handler
<1>6. CASE UNCHANGED tcpVars
  <2>1. Own(c)' = Own(c)
    BY <1>6 DEF tcpVars, Own
  <2>. QED
    BY <1>1, <1>6, <2>1, HeldStays DEF tcpVars, clientVars, sessionVars
<1>. QED
  BY <1>2, <1>3, <1>4, <1>5, <1>6 DEF TcpNext

\* A session is released only when its client has gone, or has finished and
\* was sent back everything it said: no read that finds nothing, no transfer of a
\* part and no accept of another ends it early.
THEOREM ReleasedOnlyWhenDone == TcpSafety => []HeldInv
<1>1. TcpInit => HeldInv
  <2>. SUFFICES ASSUME TcpInit, NEW c \in Clients PROVE HeldUntilDone(c)
    BY DEF HeldInv
  <2>1. Own(c) = {}
    BY DEF TcpInit, Own, Elements
  <2>. QED
    BY <2>1 DEF TcpInit, HeldUntilDone
<1>2. TcpInv /\ GoesOnInv /\ HeldInv /\ [TcpNext]_tcpVars => HeldInv'
  BY HeldStep
<1>. QED
  BY <1>1, <1>2, NobodyIsForgotten, TcpInvariant, PTL DEF TcpSafety
-----------------------------------------------------------------------------
(* Streams that have not come back.                                        *)

Listens(c) == started[c] /\ client[c] \in {"connected", "finished"}
Unheard(c) == Len(received[c]) < Len(sent[c])

\* The turns that a session takes, from one transfer back to the next.
Turn(c) == IF writeOp[c] = "queued" THEN 4
           ELSE IF readOp[c] = "pending" THEN 3
           ELSE IF readOp[c] = "queued" THEN 2
           ELSE 1

\* More of the stream comes back, or the session takes its next turn, or its
\* completion comes forward in the queue, unless the client stops listening;
\* and each of its operations that completes, and every handler while it has a
\* completion queued, does one of these.
StreamComesNearer(c) ==
    Listens(c) /\ Unheard(c) =>
      \/ client'[c] \in Deaf \cup {"gone"}
      \/ Len(received'[c]) > Len(received[c])
      \/ Turn(c)' < Turn(c)
      \/ /\ Turn(c)' = Turn(c)
         /\ \/ Ahead(Own(c))' < Ahead(Own(c))
            \/ /\ Ahead(Own(c))' = Ahead(Own(c))
               /\ ~ReadCompletes(c) /\ ~WriteCompletes(c)
               /\ Handler => Own(c) = {}

\* For a client that has not heard all there is a completion queued, or an
\* operation that the kernel can complete.
StreamIsUnderWay(c) ==
    Listens(c) /\ Unheard(c) =>
      \/ Own(c) # {}
      \/ readOp[c] = "pending" /\ taken[c] < Len(sent[c])
      \/ writeOp[c] = "pending" /\ written[c] < Len(data_[c])

\* A step that leaves the session's operations alone, and its completion where
\* it is or one place further on.
LEMMA TurnStays ==
  ASSUME TcpInv, NEW c \in Clients, UNCHANGED <<readOp[c], writeOp[c]>>,
         \/ Ahead(Own(c))' < Ahead(Own(c))
         \/ Ahead(Own(c))' = Ahead(Own(c)) /\ (Handler => Own(c) = {})
  PROVE  StreamComesNearer(c)
<1>1. Turn(c)' = Turn(c)
  BY DEF Turn
<1>2. ~ReadCompletes(c) /\ ~WriteCompletes(c)
  BY DEF ReadCompletes, WriteCompletes, TcpInv, TcpTypeOK
<1>. QED
  BY <1>1, <1>2 DEF StreamComesNearer

\* The completion of a session's operation is its next turn, or brings back
\* more of the stream.
LEMMA KernelTakesTurns ==
  ASSUME TcpInv, GoesOnInv, NEW d \in Clients, ReadCompletes(d) \/ WriteCompletes(d),
         NEW c \in Clients
  PROVE  StreamComesNearer(c)
<1>1. CASE c # d
  <2>1. UNCHANGED <<readOp[c], writeOp[c]>>
    BY <1>1 DEF ReadCompletes, WriteCompletes, TcpInv, TcpTypeOK
  <2>2. PICK p \in Packets : /\ queue' = Append(queue, p) /\ p.of = d
                             /\ Own(c)' = Own(c)
    BY <1>1, KernelGoesOn
  <2>3. p \notin Own(c)
    BY <1>1, <2>2 DEF Own
  <2>. QED
    BY <2>1, <2>2, <2>3, OwnStays, TurnStays
<1>2. CASE c = d /\ ReadCompletes(c)
  <2>1. /\ readOp[c] = "pending" /\ readOp'[c] = "queued"
        /\ writeOp[c] = "none" /\ writeOp'[c] = "none"
    BY <1>2 DEF ReadCompletes, TcpInv, TcpTypeOK, SessionOK
  <2>2. Turn(c) = 3 /\ Turn(c)' = 2
    BY <2>1 DEF Turn
  <2>. QED
    BY <2>2 DEF StreamComesNearer
<1>3. CASE c = d /\ WriteCompletes(c)
  <2>1. PICK n \in Nat, ec \in {"ok", "error"} :
          /\ ec = "error" => client[c] = "gone"
          /\ ec = "ok" => Len(received'[c]) > Len(received[c])
    BY <1>3, WriteTells
  <2>. QED
    BY <2>1 DEF StreamComesNearer, Listens
<1>. QED
  BY <1>1, <1>2, <1>3

\* A handler of the session starts its next turn; the others bring it forward.
LEMMA HandlersTakeTurns ==
  ASSUME TcpInv, GoesOnInv, OnRead \/ OnWrite, NEW c \in Clients
  PROVE  StreamComesNearer(c)
<1> DEFINE p == Head(queue)
<1>1. PICK d \in Clients :
        /\ p \in Packets /\ p.of = d /\ Own(d) = {p} /\ Own(d)' = {}
        /\ \A e \in Clients \ {d} : /\ Own(e)' = Own(e)
                                    /\ readOp'[e] = readOp[e]
                                    /\ writeOp'[e] = writeOp[e]
  BY HandlerGoesOn
<1>2. CASE c # d
  <2>1. Own(c)' = Own(c) /\ UNCHANGED <<readOp[c], writeOp[c]>>
    BY <1>1, <1>2
  <2>2. CASE Own(c) = {}
    <3>1. Ahead(Own(c))' = Ahead(Own(c))
      BY <2>1, <2>2 DEF Ahead
    <3>. QED
      BY <2>1, <2>2, <3>1, TurnStays
  <2>3. CASE Own(c) # {}
    <3>1. Ahead(Own(c))' = Ahead(Own(c)) - 1 /\ Ahead(Own(c)) \in Nat
      BY <2>1, <2>3, HandlerAdvances DEF Handler
    <3>2. Ahead(Own(c))' < Ahead(Own(c))
      BY <3>1
    <3>. QED
      BY <2>1, <3>2, TurnStays
  <2>. QED
    BY <2>2, <2>3
<1>3. CASE c = d
  <2>1. readOp \in [Clients -> Ops] /\ writeOp \in [Clients -> Ops]
    BY DEF TcpInv, TcpTypeOK
  <2>2. CASE OnRead
    <3>1. readOp[c] = "queued" /\ writeOp[c] = "none"
      BY <1>1, <1>3, <2>2, OwnPackets DEF OnRead, Completed
    <3>2. readOp'[c] = "none" /\ writeOp'[c] \in {"none", "pending"}
      BY <1>1, <1>3, <2>1, <2>2, <3>1
         DEF OnRead, Completed, DoWrite, WriteFrom, EndRead
    <3>3. Turn(c) = 2 /\ Turn(c)' = 1
      BY <3>1, <3>2 DEF Turn
    <3>. QED
      BY <3>3 DEF StreamComesNearer
  <2>3. CASE OnWrite
    <3>1. readOp[c] = "none" /\ writeOp[c] = "queued"
      BY <1>1, <1>3, <2>3, OwnPackets DEF OnWrite, Completed
    <3>2. writeOp'[c] # "queued"
      BY <1>1, <1>3, <2>1, <2>3 DEF OnWrite, Completed, WriteFrom, EndWrite
    <3>3. Turn(c) = 4 /\ Turn(c)' \in 1 .. 3
      BY <3>1, <3>2 DEF Turn
    <3>4. Turn(c)' < Turn(c)
      BY <3>3
    <3>. QED
      BY <3>4 DEF StreamComesNearer
  <2>. QED
    BY <2>2, <2>3
<1>. QED
  BY <1>2, <1>3

\* What concerns the acceptor brings the completions of sessions forward, or
\* leaves them where they are.
LEMMA AcceptsLeaveTurns ==
  ASSUME TcpInv, GoesOnInv, OnAccept \/ AcceptCompletes, NEW c \in Clients
  PROVE  StreamComesNearer(c)
<1>. SUFFICES ASSUME started[c] PROVE StreamComesNearer(c)
  BY DEF StreamComesNearer, Listens
<1>1. Own(c)' = Own(c)
  BY OnAcceptGoesOn, AcceptGoesOn
<1>2. UNCHANGED <<readOp[c], writeOp[c]>>
  <2>1. CASE AcceptCompletes
    BY <2>1 DEF AcceptCompletes, sessionVars
  <2>2. CASE OnAccept
    <3>1. /\ writeOp' = writeOp
          /\ \/ readOp' = readOp
             \/ /\ Head(queue).ec = "ok"
                /\ readOp' = [readOp EXCEPT ![Head(queue).of] = "pending"]
      BY <2>2 DEF OnAccept, DoRead
    <3>2. Head(queue).ec = "ok" => ~started[Head(queue).of]
      BY <2>2, FirstPacket DEF OnAccept, Completed, PacketOK, AcceptOK
    <3>3. readOp'[c] = readOp[c]
      BY <3>1, <3>2 DEF TcpInv, TcpTypeOK
    <3>. QED
      BY <3>1, <3>3
  <2>. QED
    BY <2>1, <2>2
<1>3. CASE OnAccept /\ Own(c) # {}
  <2>1. Ahead(Own(c))' = Ahead(Own(c)) - 1 /\ Ahead(Own(c)) \in Nat
    BY <1>1, <1>3, HandlerAdvances DEF Handler
  <2>2. Ahead(Own(c))' < Ahead(Own(c))
    BY <2>1
  <2>. QED
    BY <1>2, <2>2, TurnStays
<1>4. CASE Own(c) = {}
  <2>1. Ahead(Own(c))' = Ahead(Own(c))
    BY <1>1, <1>4 DEF Ahead
  <2>. QED
    BY <1>2, <1>4, <2>1, TurnStays
<1>5. CASE AcceptCompletes
  <2>1. PICK n \in Clients \cup {Nobody}, ec \in {"ok", "error"} :
          queue' = Append(queue, Packet("accept", n, ec, 0))
    <3>1. Head(backlog) \in Clients
      BY <1>5, HeadTailProperties DEF AcceptCompletes, TcpInv, TcpTypeOK
    <3>. QED
      BY <1>5, <3>1 DEF AcceptCompletes, Enqueue
  <2>2. /\ Packet("accept", n, ec, 0) \in Packets
        /\ Packet("accept", n, ec, 0) \notin Own(c)
    BY DEF Packet, Packets, Own
  <2>. QED
    BY <1>1, <1>2, <2>1, <2>2, OwnStays, TurnStays
<1>. QED
  BY <1>3, <1>4, <1>5

\* The safety part of the liveness that ImplementsStreamEcho asks for: as long
\* as a client listens and has not heard all it said, every completion of its
\* session's operations and every handler brings more of its stream nearer, and
\* nothing sets it back, not even what it goes on to say.
THEOREM StreamsComeNearer ==
  TcpSafety => [][\A c \in Clients : StreamComesNearer(c)]_tcpVars
<1>1. ASSUME TcpInv, GoesOnInv, TcpNext, NEW c \in Clients
      PROVE  StreamComesNearer(c)
  <2>1. ASSUME NEW d \in Clients, Environment(d) \/ Shortage
        PROVE  StreamComesNearer(c)
    <3>1. UNCHANGED <<readOp, writeOp, queue>>
      BY <2>1 DEF Environment, Connect, Send, StopReading, FinishSending, Reset,
                  Turns, Shortage, sessionVars
    <3>2. Own(c)' = Own(c)
      BY <3>1 DEF Own
    <3>. QED
      BY <1>1, <3>1, <3>2, OwnStays, TurnStays
  <2>2. ASSUME NEW d \in Clients, ReadCompletes(d) \/ WriteCompletes(d)
        PROVE  StreamComesNearer(c)
    BY <1>1, <2>2, KernelTakesTurns
  <2>. QED
    BY <1>1, <2>1, <2>2, HandlersTakeTurns, AcceptsLeaveTurns DEF TcpNext, Handler
<1>2. TcpInv /\ GoesOnInv /\ [TcpNext]_tcpVars
        => [\A c \in Clients : StreamComesNearer(c)]_tcpVars
  BY <1>1
<1>. QED
  BY <1>2, NobodyIsForgotten, TcpInvariant, PTL DEF TcpSafety

\* ... and there is always such a step to be taken: no session that still has
\* something to bring back is idle, or waits for more than is there.
THEOREM StreamsAreUnderWay == TcpSafety => [](\A c \in Clients : StreamIsUnderWay(c))
<1>1. TcpInv /\ GoesOnInv /\ HeldInv => \A c \in Clients : StreamIsUnderWay(c)
  <2>. SUFFICES ASSUME TcpInv, GoesOnInv, HeldInv, NEW c \in Clients,
                       Listens(c), Unheard(c)
                PROVE  \/ Own(c) # {}
                       \/ readOp[c] = "pending" /\ taken[c] < Len(sent[c])
                       \/ writeOp[c] = "pending" /\ written[c] < Len(data_[c])
    BY DEF StreamIsUnderWay
  <2>1. Alive(c)
    <3>1. \/ Alive(c)
          \/ client[c] \in Finished /\ Len(received[c]) = Len(sent[c])
      BY DEF HeldInv, HeldUntilDone, Listens
    <3>2. Len(received[c]) # Len(sent[c])
      BY Positions DEF Unheard
    <3>. QED
      BY <3>1, <3>2
  <2>2. readOp[c] \in Ops /\ writeOp[c] \in Ops
    BY DEF TcpInv, TcpTypeOK
  <2>3. CASE readOp[c] = "queued" \/ writeOp[c] = "queued"
    BY <2>3 DEF GoesOnInv, SessionsGoOn
  <2>4. CASE readOp[c] = "pending"
    BY <2>4 DEF TcpInv, SessionOK, Unheard
  <2>5. CASE writeOp[c] = "pending"
    BY <2>5 DEF TcpInv, SessionOK
  <2>. QED
    BY <2>1, <2>2, <2>3, <2>4, <2>5 DEF Alive, Ops
<1>. QED
  BY <1>1, ReleasedOnlyWhenDone, NobodyIsForgotten, TcpInvariant, PTL
=============================================================================
