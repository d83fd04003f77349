--------------------------- MODULE TcpEchoProofs ---------------------------
(***************************************************************************)
(* TLAPS proofs about TcpEcho, for every set of clients and of contents    *)
(* and every max_length: a session has one operation at a time, and the    *)
(* server implements the safety part of StreamEcho.  The account is of     *)
(* positions in a client's stream: what came back, what data_ holds and    *)
(* what was read follow one another without a gap.  The second half is     *)
(* about going on: the acceptor never stops accepting, no client and no    *)
(* operation is forgotten, and a session whose client has gone winds down. *)
(***************************************************************************)
EXTENDS TcpEcho, SequenceTheorems, TLAPS

\* r is the beginning of the stream s.
Prefix(r, s) == Len(r) <= Len(s) /\ \A i \in 1 .. Len(r) : r[i] = s[i]

\* d is what the stream s has up to position k.
Window(d, s, k) ==
    /\ Len(d) <= k /\ k <= Len(s)
    /\ \A j \in 1 .. Len(d) : d[j] = s[k - Len(d) + j]

\* What a read takes from a stream is a window of it, up to where it stopped.
LEMMA TakeWindow ==
  ASSUME NEW s \in Seq(Bytes), NEW m \in Nat, NEW n \in Nat, m + n <= Len(s)
  PROVE  /\ SubSeq(s, m + 1, m + n) \in Seq(Bytes)
         /\ Len(SubSeq(s, m + 1, m + n)) = n
         /\ Window(SubSeq(s, m + 1, m + n), s, m + n)
<1>1. Len(s) \in Nat /\ \A i \in m + 1 .. m + n : s[i] \in Bytes
  BY LenProperties, ElementOfSeq
<1>2. /\ SubSeq(s, m + 1, m + n) \in Seq(Bytes)
      /\ Len(SubSeq(s, m + 1, m + n)) = n
      /\ \A i \in 1 .. n : SubSeq(s, m + 1, m + n)[i] = s[m + i]
  <2> DEFINE t == SubSeq(s, m + 1, m + n)
  <2>1. /\ m + 1 \in Int /\ m + n \in Int
        /\ (IF m + 1 <= m + n THEN m + n - (m + 1) + 1 ELSE 0) = n
        /\ m + n - (m + 1) + 1 = n
        /\ \A i \in 1 .. n : m + 1 + i - 1 = m + i
    OBVIOUS
  <2>2. /\ t \in Seq(Bytes)
        /\ Len(t) = IF m + 1 <= m + n THEN m + n - (m + 1) + 1 ELSE 0
        /\ \A i \in 1 .. m + n - (m + 1) + 1 : t[i] = s[m + 1 + i - 1]
    BY <1>1, <2>1, SubSeqProperties
  <2>3. Len(t) = n /\ \A i \in 1 .. n : t[i] = s[m + i]
    <3>. HIDE DEF t
    <3>. QED
      BY <2>1, <2>2
  <2>. QED
    BY <2>2, <2>3
<1>. QED
  BY <1>1, <1>2 DEF Window

\* The first n elements of a stream.
LEMMA TakePrefix ==
  ASSUME NEW s \in Seq(Bytes), NEW n \in Nat, n <= Len(s)
  PROVE  /\ SubSeq(s, 1, n) \in Seq(Bytes) /\ Len(SubSeq(s, 1, n)) = n
         /\ \A i \in 1 .. n : SubSeq(s, 1, n)[i] = s[i]
<1> DEFINE t == SubSeq(s, 1, n)
<1>1. Len(s) \in Nat /\ \A i \in 1 .. n : s[i] \in Bytes
  BY LenProperties, ElementOfSeq
<1>2. /\ t \in Seq(Bytes) /\ Len(t) = IF 1 <= n THEN n - 1 + 1 ELSE 0
      /\ \A i \in 1 .. n - 1 + 1 : t[i] = s[1 + i - 1]
  BY <1>1, SubSeqProperties
<1>3. Len(t) = n /\ \A i \in 1 .. n : t[i] = s[i]
  <2>. HIDE DEF t
  <2>1. \A i \in 1 .. n : i \in 1 .. n - 1 + 1 /\ 1 + i - 1 = i
    OBVIOUS
  <2>. QED
    BY <1>2, <2>1
<1>. QED
  BY <1>2, <1>3

\* What is the beginning, or a window, of a stream stays so when more is said.
LEMMA SayMore ==
  ASSUME NEW s \in Seq(Bytes), NEW b \in Bytes
  PROVE  /\ Append(s, b) \in Seq(Bytes) /\ Len(Append(s, b)) = Len(s) + 1
         /\ \A r \in Seq(Bytes) : Prefix(r, s) => Prefix(r, Append(s, b))
         /\ \A d \in Seq(Bytes), k \in Nat :
              Window(d, s, k) => Window(d, Append(s, b), k)
<1>1. /\ Append(s, b) \in Seq(Bytes) /\ Len(Append(s, b)) = Len(s) + 1
      /\ \A i \in 1 .. Len(s) : Append(s, b)[i] = s[i]
  BY AppendProperties
<1>2. \A r \in Seq(Bytes) : Len(r) \in Nat
  BY LenProperties
<1>. QED
  BY <1>1, <1>2 DEF Prefix, Window

-----------------------------------------------------------------------------
(* Packets in the queue and connections in the backlog.                    *)

Elements(q) == {q[k] : k \in DOMAIN q}

\* Two packets of one operation.
SameOp(p, r) == p.op = r.op /\ (p.op = "accept" \/ p.of = r.of)

OncePerOp(q) == \A j, k \in DOMAIN q : SameOp(q[j], q[k]) => j = k

Once(q) == \A j, k \in DOMAIN q : q[j] = q[k] => j = k

\* A packet appended to a queue is one more element, and repeats no operation
\* if none was queued.
LEMMA AppendElements ==
  ASSUME NEW S, NEW q \in Seq(S), NEW p \in S
  PROVE  /\ Append(q, p) \in Seq(S)
         /\ Elements(Append(q, p)) = Elements(q) \cup {p}
         /\ p \notin Elements(q) /\ Once(q) => Once(Append(q, p))
         /\ (\A r \in Elements(q) : ~SameOp(r, p) /\ ~SameOp(p, r)) /\ OncePerOp(q)
              => OncePerOp(Append(q, p))
<1>1. /\ Append(q, p) \in Seq(S) /\ Len(Append(q, p)) = Len(q) + 1
      /\ \A i \in 1 .. Len(q) : Append(q, p)[i] = q[i]
      /\ Append(q, p)[Len(q) + 1] = p
  BY AppendProperties
<1>2. /\ Len(q) \in Nat /\ DOMAIN q = 1 .. Len(q)
      /\ DOMAIN Append(q, p) = 1 .. Len(q) + 1
  BY <1>1, LenProperties
<1>3. \A i \in DOMAIN Append(q, p) :
        \/ i \in DOMAIN q /\ Append(q, p)[i] = q[i]
        \/ i = Len(q) + 1 /\ Append(q, p)[i] = p
  BY <1>1, <1>2
<1>4. Elements(Append(q, p)) = Elements(q) \cup {p}
  BY <1>1, <1>2, <1>3 DEF Elements
<1>5. p \notin Elements(q) /\ Once(q) => Once(Append(q, p))
  BY <1>3 DEF Elements, Once
<1>6. (\A r \in Elements(q) : ~SameOp(r, p) /\ ~SameOp(p, r)) /\ OncePerOp(q)
        => OncePerOp(Append(q, p))
  BY <1>3 DEF Elements, OncePerOp
<1>. QED
  BY <1>1, <1>4, <1>5, <1>6

\* What is left of a queue when its head is taken.
LEMMA TailElements ==
  ASSUME NEW S, NEW q \in Seq(S), q # <<>>
  PROVE  /\ Tail(q) \in Seq(S) /\ Head(q) \in Elements(q) /\ Head(q) \in S
         /\ Elements(Tail(q)) \subseteq Elements(q)
         /\ Once(q) => Once(Tail(q)) /\ Head(q) \notin Elements(Tail(q))
         /\ OncePerOp(q) => /\ OncePerOp(Tail(q))
                            /\ \A r \in Elements(Tail(q)) : ~SameOp(r, Head(q))
<1>1. /\ Head(q) \in S /\ Tail(q) \in Seq(S)
      /\ Len(Tail(q)) = Len(q) - 1
      /\ \A i \in 1 .. Len(Tail(q)) : Tail(q)[i] = q[i + 1]
  BY HeadTailProperties
<1>2. /\ Len(q) \in Nat /\ Len(q) # 0 /\ DOMAIN q = 1 .. Len(q)
      /\ DOMAIN Tail(q) = 1 .. Len(q) - 1
  BY <1>1, LenProperties, EmptySeq
<1>3. Head(q) = q[1] /\ 1 \in DOMAIN q
  BY <1>2
<1>4. \A i \in DOMAIN Tail(q) : /\ Tail(q)[i] = q[i + 1] /\ i + 1 \in DOMAIN q
                                /\ i \in Int /\ i + 1 # 1
  BY <1>1, <1>2
<1>5. Elements(Tail(q)) \subseteq Elements(q) /\ Head(q) \in Elements(q)
  BY <1>3, <1>4 DEF Elements
<1>6. ASSUME Once(q) PROVE Once(Tail(q)) /\ Head(q) \notin Elements(Tail(q))
  <2>1. Once(Tail(q))
    <3>. SUFFICES ASSUME NEW j \in DOMAIN Tail(q), NEW k \in DOMAIN Tail(q),
                         Tail(q)[j] = Tail(q)[k]
                  PROVE  j = k
      BY DEF Once
    <3>1. j + 1 = k + 1 /\ j \in Int /\ k \in Int
      BY <1>4, <1>6 DEF Once
    <3>. QED
      BY <3>1
  <2>2. Head(q) \notin Elements(Tail(q))
    BY <1>3, <1>4, <1>6 DEF Once, Elements
  <2>. QED
    BY <2>1, <2>2
<1>7. ASSUME OncePerOp(q)
      PROVE  /\ OncePerOp(Tail(q))
             /\ \A r \in Elements(Tail(q)) : ~SameOp(r, Head(q))
  <2>1. OncePerOp(Tail(q))
    <3>. SUFFICES ASSUME NEW j \in DOMAIN Tail(q), NEW k \in DOMAIN Tail(q),
                         SameOp(Tail(q)[j], Tail(q)[k])
                  PROVE  j = k
      BY DEF OncePerOp
    <3>1. j + 1 = k + 1 /\ j \in Int /\ k \in Int
      BY <1>4, <1>7 DEF OncePerOp
    <3>. QED
      BY <3>1
  <2>2. \A r \in Elements(Tail(q)) : ~SameOp(r, Head(q))
    BY <1>3, <1>4, <1>7 DEF OncePerOp, Elements
  <2>. QED
    BY <2>1, <2>2
<1>. QED
  BY <1>1, <1>5, <1>6, <1>7
-----------------------------------------------------------------------------
(* The invariant.                                                          *)

\* What came back and what data_ holds, as parts of the stream.
StreamOK(c) ==
    /\ Prefix(received[c], sent[c])
    /\ Window(data_[c], sent[c], taken[c])

\* Where in the stream a session is when it starts an operation.
SessionOK(c) ==
    /\ readOp[c] = "none" \/ writeOp[c] = "none"
    /\ ~started[c] => readOp[c] = "none" /\ writeOp[c] = "none"
    /\ ~started[c] \/ readOp[c] = "pending" => Len(received[c]) = taken[c]
    /\ writeOp[c] = "pending" =>
         /\ written[c] < Len(data_[c])
         /\ Len(received[c]) = taken[c] - Len(data_[c]) + written[c]
    /\ client[c] = "away" => ~started[c]

\* ... and when its completion is on its way.
AcceptOK(p) ==
    /\ acceptOp = "queued"
    /\ p.ec = "ok" => /\ p.of \in Clients /\ ~started[p.of]
                      /\ client[p.of] # "away" /\ p.of \notin Elements(backlog)

ReadOK(p) ==
    /\ p.of \in Clients /\ readOp[p.of] = "queued"
    /\ p.ec = "ok" => p.bytes = Len(data_[p.of])
    /\ Len(received[p.of]) = taken[p.of] - p.bytes

WriteOK(p) ==
    /\ p.of \in Clients /\ writeOp[p.of] = "queued"
    /\ p.ec = "ok" =>
         /\ p.bytes > 0 /\ written[p.of] + p.bytes <= Len(data_[p.of])
         /\ Len(received[p.of])
              = taken[p.of] - Len(data_[p.of]) + (written[p.of] + p.bytes)

\* What a completion that is on its way says of its session.
PacketOK(p) == /\ p.op = "accept" => AcceptOK(p)
               /\ p.op = "read" => ReadOK(p)
               /\ p.op = "write" => WriteOK(p)

\* A connection waits once, and has no session yet.
BacklogOK == /\ Once(backlog)
             /\ \A c \in Elements(backlog) : ~started[c] /\ client[c] # "away"

\* The inductive invariant.
TcpInv ==
    /\ TcpTypeOK /\ BacklogOK
    /\ \A c \in Clients : StreamOK(c) /\ SessionOK(c)
    /\ OncePerOp(queue) /\ \A p \in Elements(queue) : PacketOK(p)

\* Writing the next part of data_ extends what came back by what comes next.
LEMMA Extend ==
  ASSUME TcpTypeOK, NEW c \in Clients, StreamOK(c), NEW n \in Nat,
         Len(received[c]) = taken[c] - Len(data_[c]) + written[c],
         written[c] + n <= Len(data_[c])
  PROVE  LET x == received[c] \o SubSeq(data_[c], written[c] + 1, written[c] + n)
         IN /\ x \in Seq(Bytes) /\ Len(x) = Len(received[c]) + n
            /\ Prefix(x, sent[c]) /\ x = SubSeq(sent[c], 1, Len(received[c]) + n)
<1> DEFINE s == sent[c]
           r == received[c]
           d == data_[c]
           k == taken[c]
           w == written[c]
<1>0. /\ s \in Seq(Bytes) /\ r \in Seq(Bytes) /\ d \in Seq(Bytes)
      /\ k \in Nat /\ w \in Nat /\ Prefix(r, s) /\ Window(d, s, k)
      /\ Len(r) = k - Len(d) + w /\ w + n <= Len(d)
  BY DEF TcpTypeOK, StreamOK
<1>. HIDE DEF s, r, d, k, w
<1> DEFINE y == SubSeq(d, w + 1, w + n)
           x == r \o y
           z == SubSeq(s, 1, Len(r) + n)
<1>1. Len(s) \in Nat /\ Len(r) \in Nat /\ Len(d) \in Nat
  BY <1>0, LenProperties
<1>2. y \in Seq(Bytes) /\ Len(y) = n /\ Window(y, d, w + n)
  BY <1>0, <1>1, TakeWindow
<1>3. /\ x \in Seq(Bytes) /\ Len(x) = Len(r) + n
      /\ \A i \in 1 .. Len(r) + n : x[i] = IF i <= Len(r) THEN r[i] ELSE y[i - Len(r)]
  <2>1. /\ x \in Seq(Bytes) /\ Len(x) = Len(r) + Len(y)
        /\ \A i \in 1 .. Len(r) + Len(y) :
             x[i] = IF i <= Len(r) THEN r[i] ELSE y[i - Len(r)]
    <3>1. r \in Seq(Bytes) /\ y \in Seq(Bytes)
      BY <1>0, <1>2
    <3>. HIDE DEF y
    <3>. QED
      BY <3>1, ConcatProperties
  <2>. HIDE DEF x, y
  <2>. QED
    BY <1>2, <2>1
<1>4. Len(r) + n <= Len(s)
  BY <1>0, <1>1 DEF Window
<1>5. \A j \in 1 .. n : y[j] = d[w + j]
  <2>1. w \in Nat
    BY <1>0
  <2>. HIDE DEF y
  <2>2. \A j \in 1 .. n : j \in 1 .. Len(y) /\ (w + n) - Len(y) + j = w + j
    BY <1>2, <2>1
  <2>. QED
    BY <1>2, <2>2 DEF Window
<1>6. \A j \in 1 .. n : d[w + j] = s[Len(r) + j]
  <2>. SUFFICES ASSUME NEW j \in 1 .. n PROVE d[w + j] = s[Len(r) + j]
    OBVIOUS
  <2>1. w + j \in 1 .. Len(d) /\ k - Len(d) + (w + j) = Len(r) + j
    BY <1>0, <1>1
  <2>2. d[w + j] = s[k - Len(d) + (w + j)]
    BY <1>0, <2>1 DEF Window
  <2>. QED
    BY <2>1, <2>2
<1>7. ASSUME NEW i \in 1 .. Len(x) PROVE x[i] = s[i]
  <2>. HIDE DEF x, y
  <2>1. CASE i <= Len(r)
    BY <1>0, <1>1, <1>3, <2>1 DEF Prefix
  <2>2. CASE i > Len(r)
    <3>1. i - Len(r) \in 1 .. n /\ Len(r) + (i - Len(r)) = i
      BY <1>1, <1>3, <2>2
    <3>2. x[i] = y[i - Len(r)]
      BY <1>1, <1>3, <2>2
    <3>3. y[i - Len(r)] = s[Len(r) + (i - Len(r))]
      BY <1>5, <1>6, <3>1
    <3>. QED
      BY <3>1, <3>2, <3>3
  <2>. QED
    BY <1>1, <1>3, <2>1, <2>2
<1>8. Prefix(x, s)
  BY <1>3, <1>4, <1>7 DEF Prefix
<1>9. Len(r) + n \in Nat
  BY <1>1
<1>10. /\ z \in Seq(Bytes) /\ Len(z) = Len(r) + n
       /\ \A i \in 1 .. Len(r) + n : z[i] = s[i]
  BY <1>0, <1>4, <1>9, TakePrefix
<1>11. x = z
  <2>. HIDE DEF x, z
  <2>1. Len(x) = Len(z) /\ \A i \in 1 .. Len(x) : x[i] = z[i]
    BY <1>3, <1>7, <1>10
  <2>. QED
    BY <1>3, <1>10, <2>1, SeqEqual
<1>. QED
  BY <1>3, <1>8, <1>11 DEF s, r, d, w

\* What is queued is a packet, and what waits is a client.
LEMMA InQueue ==
  ASSUME TcpTypeOK
  PROVE  Elements(queue) \subseteq Packets /\ Elements(backlog) \subseteq Clients
<1>1. /\ \A k \in DOMAIN queue : queue[k] \in Packets
      /\ \A k \in DOMAIN backlog : backlog[k] \in Clients
  BY LenProperties, ElementOfSeq DEF TcpTypeOK
<1>. QED
  BY <1>1 DEF Elements

\* No client has connected, and nothing is queued.
LEMMA TcpInvInitially == TcpInit => TcpInv
<1>. SUFFICES ASSUME TcpInit PROVE TcpInv
  OBVIOUS
<1>1. <<>> \in Seq(Bytes) /\ <<>> \in Seq(Clients) /\ <<>> \in Seq(Packets)
      /\ Len(<<>>) = 0 /\ Elements(<<>>) = {} /\ Once(<<>>) /\ OncePerOp(<<>>)
  BY DEF Elements, Once, OncePerOp
<1>2. TcpTypeOK
  <2>1. \A c \in Clients : Len(data_[c]) <= max_length
    <3>1. 0 <= max_length /\ \A c \in Clients : data_[c] = <<>>
      BY TcpAssumption DEF TcpInit
    <3>2. ASSUME NEW c \in Clients PROVE Len(data_[c]) = 0
      BY <1>1, <3>1
    <3>. QED
      BY <3>1, <3>2
  <2>. QED
    BY <1>1, <2>1 DEF TcpInit, TcpTypeOK, Ops
<1>3. ASSUME NEW c \in Clients PROVE StreamOK(c) /\ SessionOK(c)
  <2>1. /\ received[c] = <<>> /\ sent[c] = <<>> /\ data_[c] = <<>>
        /\ taken[c] = 0 /\ written[c] = 0 /\ readOp[c] = "none"
        /\ writeOp[c] = "none" /\ ~started[c]
    BY DEF TcpInit
  <2>. QED
    BY <1>1, <2>1 DEF StreamOK, SessionOK, Prefix, Window
<1>. QED
  BY <1>1, <1>2, <1>3 DEF TcpInit, TcpInv, BacklogOK

\* The steps of clients and of the machine.
LEMMA EnvironmentStep ==
  ASSUME TcpInv, NEW c \in Clients, Environment(c) \/ Shortage
  PROVE  TcpInv'
<1>. TcpTypeOK /\ BacklogOK /\ OncePerOp(queue)
     /\ Elements(queue) \subseteq Packets /\ Elements(backlog) \subseteq Clients
  BY InQueue DEF TcpInv
<1>1. CASE Connect(c)
  <2>1. c \notin Elements(backlog)
    BY <1>1 DEF Connect, BacklogOK
  <2>2. /\ backlog' \in Seq(Clients) /\ Once(backlog')
        /\ Elements(backlog') = Elements(backlog) \cup {c}
    BY <1>1, <2>1, AppendElements DEF Connect, TcpTypeOK, BacklogOK
  <2>3. TcpTypeOK'
    BY <1>1, <2>2 DEF Connect, TcpTypeOK, sessionVars, Present
  <2>4. BacklogOK'
    BY <1>1, <2>2 DEF Connect, TcpTypeOK, BacklogOK, sessionVars, TcpInv, SessionOK
  <2>5. \A d \in Clients : StreamOK(d)' /\ SessionOK(d)'
    BY <1>1 DEF Connect, TcpTypeOK, sessionVars, TcpInv, StreamOK, SessionOK
  <2>6. \A p \in Elements(queue) : PacketOK(p)'
    BY <1>1, <2>2 DEF Connect, TcpTypeOK, sessionVars, TcpInv, PacketOK,
       AcceptOK, ReadOK, WriteOK
  <2>. QED
    BY <1>1, <2>3, <2>4, <2>5, <2>6 DEF Connect, TcpInv
<1>2. ASSUME NEW b \in Bytes, Send(c, b) PROVE TcpInv'
  <2>1. TcpTypeOK'
    BY <1>2, SayMore DEF Send, TcpTypeOK, sessionVars
  <2>2. \A d \in Clients : sent'[d] = IF d = c THEN Append(sent[c], b) ELSE sent[d]
    BY <1>2 DEF Send, TcpTypeOK
  <2>3. \A d \in Clients : StreamOK(d)'
    BY <1>2, <2>2, SayMore DEF Send, TcpTypeOK, sessionVars, TcpInv, StreamOK
  <2>4. BacklogOK' /\ \A d \in Clients : SessionOK(d)'
    BY <1>2 DEF Send, sessionVars, TcpInv, SessionOK, BacklogOK
  <2>5. \A p \in Elements(queue) : PacketOK(p)'
    BY <1>2 DEF Send, sessionVars, TcpInv, PacketOK, AcceptOK, ReadOK, WriteOK
  <2>. QED
    BY <1>2, <2>1, <2>3, <2>4, <2>5 DEF Send, TcpInv
<1>3. CASE StopReading(c) \/ FinishSending(c) \/ Reset(c)
  <2>1. PICK from \in SUBSET Present,
             to \in {"deaf", "finished", "idle", "gone"} : Turns(c, from, to)
    <3>1. {"connected"} \in SUBSET Present /\ {"finished"} \in SUBSET Present
          /\ {"deaf"} \in SUBSET Present /\ Present \in SUBSET Present
      BY DEF Present
    <3>. QED
      BY <1>3, <3>1 DEF StopReading, FinishSending, Reset
  <2>2. TcpTypeOK'
    BY <2>1 DEF Turns, TcpTypeOK, sessionVars, Present
  <2>3. BacklogOK' /\ \A d \in Clients : StreamOK(d)' /\ SessionOK(d)'
    BY <2>1 DEF Turns, TcpTypeOK, sessionVars, TcpInv, StreamOK, SessionOK, BacklogOK
  <2>4. \A p \in Elements(queue) : PacketOK(p)'
    BY <2>1 DEF Turns, TcpTypeOK, sessionVars, TcpInv, PacketOK, AcceptOK,
       ReadOK, WriteOK
  <2>. QED
    BY <2>1, <2>2, <2>3, <2>4 DEF Turns, TcpInv
<1>4. CASE Shortage
  <2>1. TcpTypeOK'
    BY <1>4 DEF Shortage, TcpTypeOK, clientVars, sessionVars
  <2>2. BacklogOK' /\ \A d \in Clients : StreamOK(d)' /\ SessionOK(d)'
    BY <1>4 DEF Shortage, clientVars, sessionVars, TcpInv, StreamOK, SessionOK, BacklogOK
  <2>3. \A p \in Elements(queue) : PacketOK(p)'
    BY <1>4 DEF Shortage, clientVars, sessionVars, TcpInv, PacketOK, AcceptOK,
       ReadOK, WriteOK
  <2>. QED
    BY <1>4, <2>1, <2>2, <2>3 DEF Shortage, TcpInv
<1>. QED
  BY <1>1, <1>2, <1>3, <1>4 DEF Environment

\* The steps of the kernel.
LEMMA AcceptStep ==
  ASSUME TcpInv, AcceptCompletes
  PROVE  TcpInv'
<1>. TcpTypeOK /\ BacklogOK /\ OncePerOp(queue)
     /\ Elements(queue) \subseteq Packets /\ Elements(backlog) \subseteq Clients
     /\ \A p \in Elements(queue) : PacketOK(p)
  BY InQueue DEF TcpInv
<1>1. /\ backlog # <<>> /\ backlog \in Seq(Clients) /\ queue \in Seq(Packets)
      /\ acceptOp = "pending" /\ acceptOp' = "queued" /\ backlog' = Tail(backlog)
      /\ UNCHANGED <<client, sent, received, exhausted, started, readOp, writeOp,
                     taken, data_, written>>
  BY DEF AcceptCompletes, TcpTypeOK, clientVars, sessionVars
<1>2. /\ Tail(backlog) \in Seq(Clients) /\ Head(backlog) \in Elements(backlog)
      /\ Elements(Tail(backlog)) \subseteq Elements(backlog)
      /\ Once(Tail(backlog)) /\ Head(backlog) \notin Elements(Tail(backlog))
  BY <1>1, TailElements DEF BacklogOK
<1>3. PICK p \in {Packet("accept", Head(backlog), "ok", 0),
                  Packet("accept", Nobody, "error", 0)} : queue' = Append(queue, p)
  BY DEF AcceptCompletes, Enqueue
<1>4. p \in Packets /\ p.op = "accept" /\ (p.ec = "ok" => p.of = Head(backlog))
  BY <1>2, <1>3 DEF Packet, Packets
<1>5. \A r \in Elements(queue) : r.op # "accept"
  BY <1>1 DEF PacketOK, AcceptOK
<1>6. /\ queue' \in Seq(Packets) /\ Elements(queue') = Elements(queue) \cup {p}
      /\ OncePerOp(queue')
  <2>1. \A r \in Elements(queue) : ~SameOp(r, p) /\ ~SameOp(p, r)
    BY <1>4, <1>5 DEF SameOp
  <2>. QED
    BY <1>1, <1>3, <1>4, <2>1, AppendElements
<1>7. TcpTypeOK'
  BY <1>1, <1>2, <1>6 DEF TcpTypeOK, Ops
<1>8. BacklogOK' /\ \A c \in Clients : StreamOK(c)' /\ SessionOK(c)'
  BY <1>1, <1>2 DEF TcpInv, BacklogOK, StreamOK, SessionOK
<1>9. PacketOK(p)'
  BY <1>1, <1>2, <1>4 DEF PacketOK, AcceptOK, BacklogOK
<1>10. \A r \in Elements(queue) : PacketOK(r)'
  BY <1>1, <1>5 DEF PacketOK, ReadOK, WriteOK
<1>. QED
  BY <1>6, <1>7, <1>8, <1>9, <1>10 DEF TcpInv

\* The room of a read.
LEMMA RoomLeft ==
  ASSUME NEW u \in Nat
  PROVE  Room(u) \in Nat /\ Room(u) <= u /\ Room(u) <= max_length
BY TcpAssumption DEF Room

\* A read that completes fills data_ with what follows what came back.
LEMMA ReadStep ==
  ASSUME TcpInv, NEW c \in Clients, ReadCompletes(c)
  PROVE  TcpInv'
<1>. TcpTypeOK /\ BacklogOK /\ OncePerOp(queue) /\ queue \in Seq(Packets)
     /\ Elements(queue) \subseteq Packets /\ StreamOK(c) /\ SessionOK(c)
     /\ \A p \in Elements(queue) : PacketOK(p)
  BY InQueue DEF TcpInv, TcpTypeOK
<1>0. sent[c] \in Seq(Bytes) /\ Len(sent[c]) \in Nat /\ taken[c] \in Nat
      /\ taken[c] <= Len(sent[c]) /\ Len(data_[c]) \in Nat
  BY LenProperties DEF TcpTypeOK, StreamOK, Window
<1>1. /\ readOp[c] = "pending" /\ readOp' = [readOp EXCEPT ![c] = "queued"]
      /\ UNCHANGED <<client, sent, received, backlog, exhausted, acceptOp,
                     started, writeOp, written>>
  BY DEF ReadCompletes, clientVars
<1>2. PICK n \in Nat, ec \in {"ok", "error"} :
        /\ queue' = Append(queue, Packet("read", c, ec, n))
        /\ \/ /\ ec = "ok" /\ n <= Room(Len(sent[c]) - taken[c])
              /\ data_' = [data_ EXCEPT
                   ![c] = SubSeq(sent[c], taken[c] + 1, taken[c] + n)]
              /\ taken' = [taken EXCEPT ![c] = @ + n]
           \/ ec = "error" /\ n = 0 /\ UNCHANGED <<data_, taken>>
  <2>1. Room(Len(sent[c]) - taken[c]) \in Nat
    <3>1. Len(sent[c]) - taken[c] \in Nat
      BY <1>0
    <3>. QED
      BY <3>1, RoomLeft
  <2>2. \A n \in Some(Room(Len(sent[c]) - taken[c])) :
          n \in Nat /\ n <= Room(Len(sent[c]) - taken[c])
    BY <2>1 DEF Some
  <2>. QED
    BY <2>2 DEF ReadCompletes, Enqueue
<1> DEFINE p == Packet("read", c, ec, n)
<1>3. p \in Packets /\ p.op = "read" /\ p.of = c /\ p.ec = ec /\ p.bytes = n
  BY <1>2 DEF Packet, Packets
<1>4. \A r \in Elements(queue) : r.op = "read" => r.of # c
  BY <1>1 DEF PacketOK, ReadOK
<1>5. \A r \in Elements(queue) : r.op = "write" => r.of # c
  BY <1>1 DEF PacketOK, WriteOK, SessionOK
<1>. HIDE DEF p
<1>6. /\ queue' \in Seq(Packets) /\ Elements(queue') = Elements(queue) \cup {p}
      /\ OncePerOp(queue')
  <2>1. \A r \in Elements(queue) : ~SameOp(r, p) /\ ~SameOp(p, r)
    BY <1>3, <1>4 DEF SameOp
  <2>2. queue' = Append(queue, p)
    BY <1>2 DEF p
  <2>. QED
    BY <1>3, <2>1, <2>2, AppendElements
<1>7. /\ data_' \in [Clients -> Seq(Bytes)] /\ taken' \in [Clients -> Nat]
      /\ \A d \in Clients : d # c => data_'[d] = data_[d] /\ taken'[d] = taken[d]
      /\ Len(data_'[c]) <= max_length /\ Window(data_'[c], sent[c], taken'[c])
      /\ taken'[c] = taken[c] + n
      /\ ec = "ok" => Len(data_'[c]) = n
  <2>1. CASE ec = "ok"
    <3>1. n <= Len(sent[c]) - taken[c] /\ n <= max_length
      BY <1>0, <1>2, <2>1, RoomLeft, TcpAssumption DEF Room
    <3>2. /\ SubSeq(sent[c], taken[c] + 1, taken[c] + n) \in Seq(Bytes)
          /\ Len(SubSeq(sent[c], taken[c] + 1, taken[c] + n)) = n
          /\ Window(SubSeq(sent[c], taken[c] + 1, taken[c] + n), sent[c], taken[c] + n)
      <4>1. taken[c] + n <= Len(sent[c])
        BY <1>0, <3>1
      <4>. QED
        BY <1>0, <4>1, TakeWindow
    <3>3. /\ data_' = [data_ EXCEPT ![c] = SubSeq(sent[c], taken[c] + 1, taken[c] + n)]
          /\ taken' = [taken EXCEPT ![c] = @ + n]
      BY <1>2, <2>1
    <3>4. /\ data_'[c] = SubSeq(sent[c], taken[c] + 1, taken[c] + n)
          /\ data_' \in [Clients -> Seq(Bytes)]
          /\ \A d \in Clients : d # c => data_'[d] = data_[d]
      BY <3>2, <3>3 DEF TcpTypeOK
    <3>5. /\ taken' \in [Clients -> Nat] /\ taken'[c] = taken[c] + n
          /\ \A d \in Clients : d # c => taken'[d] = taken[d]
      BY <3>3 DEF TcpTypeOK
    <3>. QED
      BY <3>1, <3>2, <3>4, <3>5
  <2>2. CASE ec = "error"
    BY <1>0, <1>2, <2>2 DEF TcpTypeOK, StreamOK
  <2>. QED
    BY <2>1, <2>2
<1>8. TcpTypeOK'
  BY <1>1, <1>6, <1>7 DEF TcpTypeOK, Ops
<1>9. BacklogOK'
  BY <1>1 DEF BacklogOK
<1>10. \A d \in Clients : StreamOK(d)'
  BY <1>1, <1>7 DEF TcpInv, StreamOK
<1>11. \A d \in Clients : SessionOK(d)'
  BY <1>1, <1>7 DEF TcpInv, TcpTypeOK, SessionOK
<1>12. PacketOK(p)'
  <2>1. readOp'[c] = "queued" /\ Len(received[c]) = taken[c]
    BY <1>1 DEF SessionOK, TcpTypeOK
  <2>2. Len(received'[c]) = taken'[c] - n
    BY <1>0, <1>1, <1>7, <2>1
  <2>. QED
    BY <1>3, <1>7, <2>1, <2>2 DEF PacketOK, ReadOK
<1>13. \A r \in Elements(queue) : PacketOK(r)'
  <2>. SUFFICES ASSUME NEW r \in Elements(queue) PROVE PacketOK(r)'
    OBVIOUS
  <2>1. r.op = "accept" => AcceptOK(r)'
    BY <1>1 DEF PacketOK, AcceptOK
  <2>2. r.op = "read" => ReadOK(r)'
    BY <1>1, <1>4, <1>7 DEF PacketOK, ReadOK, TcpTypeOK
  <2>3. r.op = "write" => WriteOK(r)'
    BY <1>1, <1>5, <1>7 DEF PacketOK, WriteOK
  <2>. QED
    BY <2>1, <2>2, <2>3 DEF PacketOK
<1>. QED
  BY <1>6, <1>8, <1>9, <1>10, <1>11, <1>12, <1>13 DEF TcpInv

\* What came back is extended by what comes next, or not at all.
GoesOn(c) == \/ received' = received
             \/ \E n \in Len(received[c]) + 1 .. Len(sent[c]) :
                  received' = [received EXCEPT ![c] = SubSeq(sent[c], 1, n)]

\* A write that completes extends what came back, and leaves it otherwise alone.
LEMMA WriteStep ==
  ASSUME TcpInv, NEW c \in Clients, WriteCompletes(c)
  PROVE  TcpInv' /\ GoesOn(c)
<1>. TcpTypeOK /\ BacklogOK /\ OncePerOp(queue) /\ queue \in Seq(Packets)
     /\ Elements(queue) \subseteq Packets /\ StreamOK(c) /\ SessionOK(c)
     /\ \A p \in Elements(queue) : PacketOK(p)
  BY InQueue DEF TcpInv, TcpTypeOK
<1>0. /\ sent[c] \in Seq(Bytes) /\ received[c] \in Seq(Bytes)
      /\ data_[c] \in Seq(Bytes) /\ taken[c] \in Nat /\ written[c] \in Nat
      /\ Len(sent[c]) \in Nat /\ Len(data_[c]) \in Nat /\ Len(received[c]) \in Nat
  BY LenProperties DEF TcpTypeOK
<1>1. /\ writeOp[c] = "pending" /\ writeOp' = [writeOp EXCEPT ![c] = "queued"]
      /\ UNCHANGED <<client, sent, backlog, exhausted, acceptOp, started,
                     readOp, taken, data_, written>>
  BY DEF WriteCompletes, clientVars
<1>2. /\ written[c] < Len(data_[c])
      /\ Len(received[c]) = taken[c] - Len(data_[c]) + written[c]
  BY <1>1 DEF SessionOK
<1>3. PICK n \in Nat, ec \in {"ok", "error"} :
        /\ queue' = Append(queue, Packet("write", c, ec, n))
        /\ \/ /\ ec = "ok" /\ n > 0 /\ written[c] + n <= Len(data_[c])
              /\ received' = [received EXCEPT
                   ![c] = @ \o SubSeq(data_[c], written[c] + 1, written[c] + n)]
           \/ ec = "error" /\ received' = received
  <2>1. \A n \in Some(Len(data_[c]) - written[c]) :
          n \in Nat /\ n > 0 /\ written[c] + n <= Len(data_[c])
    BY <1>0, <1>2 DEF Some
  <2>. QED
    BY <2>1 DEF WriteCompletes, Enqueue
<1> DEFINE p == Packet("write", c, ec, n)
<1>4. p \in Packets /\ p.op = "write" /\ p.of = c /\ p.ec = ec /\ p.bytes = n
  BY <1>3 DEF Packet, Packets
<1>5. \A r \in Elements(queue) : r.op = "write" => r.of # c
  BY <1>1 DEF PacketOK, WriteOK
<1>6. \A r \in Elements(queue) : r.op = "read" => r.of # c
  BY <1>1 DEF PacketOK, ReadOK, SessionOK
<1>. HIDE DEF p
<1>7. /\ queue' \in Seq(Packets) /\ Elements(queue') = Elements(queue) \cup {p}
      /\ OncePerOp(queue')
  <2>1. \A r \in Elements(queue) : ~SameOp(r, p) /\ ~SameOp(p, r)
    BY <1>4, <1>5 DEF SameOp
  <2>2. queue' = Append(queue, p)
    BY <1>3 DEF p
  <2>. QED
    BY <1>4, <2>1, <2>2, AppendElements
<1>8. /\ received' \in [Clients -> Seq(Bytes)]
      /\ \A d \in Clients : d # c => received'[d] = received[d]
      /\ Prefix(received'[c], sent[c])
      /\ ec = "ok" => /\ Len(received'[c]) = Len(received[c]) + n
                      /\ Len(received[c]) + n <= Len(sent[c])
                      /\ received' = [received EXCEPT
                           ![c] = SubSeq(sent[c], 1, Len(received[c]) + n)]
  <2>1. CASE ec = "ok"
    <3> DEFINE x == received[c] \o SubSeq(data_[c], written[c] + 1, written[c] + n)
    <3>1. written[c] + n <= Len(data_[c]) /\ received' = [received EXCEPT ![c] = x]
      BY <1>3, <2>1
    <3>2. /\ x \in Seq(Bytes) /\ Len(x) = Len(received[c]) + n
          /\ Prefix(x, sent[c]) /\ x = SubSeq(sent[c], 1, Len(received[c]) + n)
      BY <1>2, <3>1, Extend
    <3>. HIDE DEF x
    <3>3. received' \in [Clients -> Seq(Bytes)] /\ received'[c] = x
          /\ \A d \in Clients : d # c => received'[d] = received[d]
      BY <3>1, <3>2 DEF TcpTypeOK
    <3>4. Len(received[c]) + n <= Len(sent[c])
      BY <3>2 DEF Prefix
    <3>. QED
      BY <3>1, <3>2, <3>3, <3>4
  <2>2. CASE ec = "error"
    BY <1>3, <2>2 DEF TcpTypeOK, StreamOK
  <2>. QED
    BY <2>1, <2>2
<1>9. TcpTypeOK'
  BY <1>1, <1>7, <1>8 DEF TcpTypeOK, Ops
<1>10. BacklogOK'
  BY <1>1 DEF BacklogOK
<1>11. \A d \in Clients : StreamOK(d)'
  BY <1>1, <1>8 DEF TcpInv, StreamOK
<1>12. \A d \in Clients : SessionOK(d)'
  <2>1. readOp[c] = "none" /\ started[c]
    BY <1>1 DEF SessionOK
  <2>. QED
    BY <1>1, <1>8, <2>1 DEF TcpInv, TcpTypeOK, SessionOK
<1>13. PacketOK(p)'
  <2>1. writeOp'[c] = "queued"
    BY <1>1 DEF TcpTypeOK
  <2>2. ec = "ok" => /\ n > 0 /\ written[c] + n <= Len(data_[c])
                     /\ Len(received'[c]) = taken[c] - Len(data_[c]) + (written[c] + n)
    <3>1. ec = "ok" => /\ n > 0 /\ written[c] + n <= Len(data_[c])
                       /\ Len(received'[c]) = Len(received[c]) + n
      BY <1>3, <1>8
    <3>2. Len(received[c]) + n = taken[c] - Len(data_[c]) + (written[c] + n)
      BY <1>0, <1>2
    <3>. QED
      BY <3>1, <3>2
  <2>. QED
    BY <1>1, <1>4, <2>1, <2>2 DEF PacketOK, WriteOK
<1>14. \A r \in Elements(queue) : PacketOK(r)'
  <2>. SUFFICES ASSUME NEW r \in Elements(queue) PROVE PacketOK(r)'
    OBVIOUS
  <2>1. r.op = "accept" => AcceptOK(r)'
    BY <1>1 DEF PacketOK, AcceptOK
  <2>2. r.op = "read" => ReadOK(r)'
    BY <1>1, <1>6, <1>8 DEF PacketOK, ReadOK
  <2>3. r.op = "write" => WriteOK(r)'
    BY <1>1, <1>5, <1>8 DEF PacketOK, WriteOK, TcpTypeOK
  <2>. QED
    BY <2>1, <2>2, <2>3 DEF PacketOK
<1>15. GoesOn(c)
  <2>1. CASE ec = "ok"
    <3>1. Len(received[c]) + n \in Len(received[c]) + 1 .. Len(sent[c])
      BY <1>0, <1>3, <1>8, <2>1
    <3>. QED
      BY <1>8, <2>1, <3>1 DEF GoesOn
  <2>2. CASE ec = "error"
    BY <1>3, <2>2 DEF GoesOn
  <2>. QED
    BY <2>1, <2>2
<1>16. TcpInv'
  BY <1>7, <1>9, <1>10, <1>11, <1>12, <1>13, <1>14 DEF TcpInv
<1>. QED
  BY <1>15, <1>16

\* The handlers.  What the head of the queue and the rest of it are.
LEMMA FirstPacket ==
  ASSUME TcpInv, queue # <<>>
  PROVE  /\ Head(queue) \in Packets /\ PacketOK(Head(queue))
         /\ Tail(queue) \in Seq(Packets) /\ OncePerOp(Tail(queue))
         /\ \A r \in Elements(Tail(queue)) :
              r \in Packets /\ PacketOK(r) /\ ~SameOp(r, Head(queue))
<1>1. queue \in Seq(Packets) /\ OncePerOp(queue)
      /\ \A p \in Elements(queue) : PacketOK(p) /\ p \in Packets
  BY InQueue DEF TcpInv, TcpTypeOK
<1>. QED
  BY <1>1, TailElements

\* The new session of an accepted client starts at the beginning of its stream.
LEMMA OnAcceptStep ==
  ASSUME TcpInv, OnAccept
  PROVE  TcpInv'
<1>. TcpTypeOK /\ BacklogOK /\ Elements(backlog) \subseteq Clients
     /\ \A c \in Clients : StreamOK(c) /\ SessionOK(c)
  BY InQueue DEF TcpInv
<1> DEFINE p == Head(queue)
           q == Tail(queue)
           e == Packet("accept", Nobody, "error", 0)
<1>1. /\ queue # <<>> /\ p.op = "accept"
      /\ UNCHANGED <<client, sent, received, backlog, exhausted, writeOp, taken,
                     data_, written>>
      /\ \/ acceptOp' = "queued" /\ queue' = Append(q, e)
         \/ acceptOp' = "pending" /\ queue' = q
  BY DEF OnAccept, Completed, AcceptAgain, AsyncAccept, clientVars
<1>2. \/ /\ p.ec = "ok" /\ readOp' = [readOp EXCEPT ![p.of] = "pending"]
         /\ started' = [started EXCEPT ![p.of] = TRUE]
      \/ p.ec # "ok" /\ UNCHANGED <<readOp, started>>
  BY DEF OnAccept, DoRead
<1>3. /\ p \in Packets /\ AcceptOK(p) /\ q \in Seq(Packets) /\ OncePerOp(q)
      /\ \A r \in Elements(q) : r \in Packets /\ PacketOK(r) /\ r.op # "accept"
  BY <1>1, FirstPacket DEF PacketOK, SameOp
<1>4. e \in Packets /\ e.op = "accept" /\ e.ec = "error"
  BY DEF Packet, Packets
<1>. HIDE DEF p, q, e
<1>5. /\ queue' \in Seq(Packets) /\ OncePerOp(queue')
      /\ Elements(queue') \subseteq Elements(q) \cup {e}
      /\ e \in Elements(queue') /\ e \notin Elements(q) => acceptOp' = "queued"
  <2>1. CASE queue' = q
    BY <1>3, <2>1
  <2>2. CASE acceptOp' = "queued" /\ queue' = Append(q, e)
    <3>1. \A r \in Elements(q) : ~SameOp(r, e) /\ ~SameOp(e, r)
      BY <1>3, <1>4 DEF SameOp
    <3>. QED
      BY <1>3, <1>4, <2>2, <3>1, AppendElements
  <2>. QED
    BY <1>1, <2>1, <2>2
<1>6. p.ec = "ok" => /\ p.of \in Clients /\ ~started[p.of] /\ client[p.of] # "away"
                     /\ p.of \notin Elements(backlog)
  BY <1>3 DEF AcceptOK
<1>7. TcpTypeOK'
  BY <1>1, <1>2, <1>5, <1>6 DEF TcpTypeOK, Ops
<1>8. BacklogOK'
  BY <1>1, <1>2, <1>6 DEF BacklogOK, TcpTypeOK
<1>9. \A c \in Clients : StreamOK(c)'
  BY <1>1 DEF StreamOK
<1>10. \A c \in Clients : SessionOK(c)'
  <2>. SUFFICES ASSUME NEW c \in Clients PROVE SessionOK(c)'
    OBVIOUS
  <2>1. /\ UNCHANGED <<client[c], received[c], writeOp[c], taken[c]>>
        /\ UNCHANGED <<data_[c], written[c]>>
    BY <1>1
  <2>2. CASE p.ec = "ok" /\ c = p.of
    <3>1. readOp'[c] = "pending" /\ started'[c] /\ ~started[c] /\ client[c] # "away"
      BY <1>2, <1>6, <2>2 DEF TcpTypeOK
    <3>. QED
      BY <2>1, <3>1 DEF SessionOK
  <2>3. CASE ~(p.ec = "ok" /\ c = p.of)
    <3>1. UNCHANGED <<readOp[c], started[c]>>
      BY <1>2, <2>3 DEF TcpTypeOK
    <3>. QED
      BY <2>1, <3>1 DEF SessionOK
  <2>. QED
    BY <2>2, <2>3
<1>11. \A r \in Elements(q) : PacketOK(r)'
  <2>. SUFFICES ASSUME NEW r \in Elements(q) PROVE PacketOK(r)'
    OBVIOUS
  <2>1. r.op = "read" => ReadOK(r)'
    BY <1>1, <1>2, <1>3, <1>6, SMTT(20) DEF PacketOK, ReadOK, SessionOK, TcpTypeOK
  <2>2. r.op = "write" => WriteOK(r)'
    BY <1>1, <1>3 DEF PacketOK, WriteOK
  <2>. QED
    BY <1>3, <2>1, <2>2 DEF PacketOK
<1>12. e \in Elements(queue') /\ e \notin Elements(q) => PacketOK(e)'
  BY <1>4, <1>5 DEF PacketOK, AcceptOK
<1>. QED
  BY <1>5, <1>7, <1>8, <1>9, <1>10, <1>11, <1>12 DEF TcpInv

\* The write of what was read starts where the last write ended.
LEMMA OnReadStep ==
  ASSUME TcpInv, OnRead
  PROVE  TcpInv'
<1>. TcpTypeOK /\ BacklogOK /\ \A c \in Clients : StreamOK(c) /\ SessionOK(c)
  BY DEF TcpInv
<1> DEFINE p == Head(queue)
           q == Tail(queue)
<1>1. /\ queue # <<>> /\ p.op = "read" /\ queue' = q
      /\ UNCHANGED <<client, sent, received, backlog, exhausted, acceptOp,
                     started, taken, data_>>
      /\ readOp' = [readOp EXCEPT ![p.of] = "none"]
  BY DEF OnRead, Completed, DoWrite, EndRead, clientVars
<1>2. \/ /\ p.ec = "ok" /\ p.bytes > 0
         /\ writeOp' = [writeOp EXCEPT ![p.of] = "pending"]
         /\ written' = [written EXCEPT ![p.of] = 0]
      \/ UNCHANGED <<writeOp, written>>
  BY DEF OnRead, ReadResult, DoWrite, WriteFrom
<1>3. /\ p \in Packets /\ ReadOK(p) /\ q \in Seq(Packets) /\ OncePerOp(q)
      /\ \A r \in Elements(q) : r \in Packets /\ PacketOK(r)
                             /\ (r.op = "read" => r.of # p.of)
  BY <1>1, FirstPacket DEF PacketOK, SameOp
<1>. HIDE DEF p, q
<1>4. /\ p.of \in Clients /\ readOp[p.of] = "queued" /\ writeOp[p.of] = "none"
      /\ started[p.of]
  BY <1>3 DEF ReadOK, SessionOK
<1>5. TcpTypeOK'
  <2>1. readOp' \in [Clients -> Ops] /\ writeOp' \in [Clients -> Ops]
    BY <1>1, <1>2 DEF TcpTypeOK, Ops
  <2>2. written' \in [Clients -> Nat]
    <3>1. CASE UNCHANGED written
      BY <3>1 DEF TcpTypeOK
    <3>2. CASE written' = [written EXCEPT ![p.of] = 0]
      BY <3>2 DEF TcpTypeOK
    <3>. QED
      BY <1>2, <3>1, <3>2
  <2>. QED
    BY <1>1, <1>3, <2>1, <2>2 DEF TcpTypeOK
<1>6. BacklogOK' /\ \A c \in Clients : StreamOK(c)'
  BY <1>1 DEF BacklogOK, StreamOK
<1>7. ASSUME NEW c \in Clients PROVE SessionOK(c)'
  <2>1. CASE c # p.of
    BY <1>1, <1>2, <2>1 DEF SessionOK, TcpTypeOK
  <2>2. CASE c = p.of /\ UNCHANGED <<writeOp, written>>
    BY <1>1, <1>4, <2>2 DEF SessionOK, TcpTypeOK
  <2>3. CASE /\ c = p.of /\ p.ec = "ok" /\ p.bytes > 0
             /\ writeOp' = [writeOp EXCEPT ![p.of] = "pending"]
             /\ written' = [written EXCEPT ![p.of] = 0]
    <3>1. /\ p.bytes = Len(data_[c]) /\ Len(received[c]) = taken[c] - p.bytes
          /\ p.bytes \in Nat /\ taken[c] \in Nat
      BY <1>3, <2>3 DEF ReadOK, Packets, TcpTypeOK
    <3>2. /\ written'[c] = 0 /\ writeOp'[c] = "pending" /\ readOp'[c] = "none"
          /\ started'[c] /\ client'[c] # "away"
      BY <1>1, <1>4, <2>3 DEF TcpTypeOK, SessionOK
    <3>3. /\ written'[c] < Len(data_'[c])
          /\ Len(received'[c]) = taken'[c] - Len(data_'[c]) + written'[c]
      BY <1>1, <2>3, <3>1, <3>2
    <3>. QED
      BY <3>2, <3>3 DEF SessionOK
  <2>. QED
    BY <1>2, <2>1, <2>2, <2>3
<1>8. ASSUME NEW r \in Elements(q) PROVE PacketOK(r)'
  <2>1. r.op = "accept" => AcceptOK(r)'
    BY <1>1, <1>3 DEF PacketOK, AcceptOK
  <2>2. r.op = "read" => ReadOK(r)'
    BY <1>1, <1>3, <1>4 DEF PacketOK, ReadOK, TcpTypeOK
  <2>3. r.op = "write" => WriteOK(r)'
    BY <1>1, <1>2, <1>3, <1>4 DEF PacketOK, WriteOK, TcpTypeOK
  <2>. QED
    BY <2>1, <2>2, <2>3 DEF PacketOK
<1>. QED
  BY <1>1, <1>3, <1>5, <1>6, <1>7, <1>8 DEF TcpInv

\* The next read starts only when all of data_ came back.
LEMMA OnWriteStep ==
  ASSUME TcpInv, OnWrite
  PROVE  TcpInv'
<1>. TcpTypeOK /\ BacklogOK /\ \A c \in Clients : StreamOK(c) /\ SessionOK(c)
  BY DEF TcpInv
<1> DEFINE p == Head(queue)
           q == Tail(queue)
           Continue == /\ p.ec = "ok" /\ p.bytes # 0
                       /\ written[p.of] + p.bytes # Len(data_[p.of])
                       /\ writeOp' = [writeOp EXCEPT ![p.of] = "pending"]
                       /\ written' = [written EXCEPT ![p.of] = written[p.of] + p.bytes]
                       /\ UNCHANGED readOp
           Again == /\ p.ec = "ok"
                    /\ p.bytes = 0 \/ written[p.of] + p.bytes = Len(data_[p.of])
                    /\ writeOp' = [writeOp EXCEPT ![p.of] = "none"]
                    /\ readOp' = [readOp EXCEPT ![p.of] = "pending"]
                    /\ UNCHANGED written
           Release == /\ writeOp' = [writeOp EXCEPT ![p.of] = "none"]
                      /\ UNCHANGED <<readOp, written>>
<1>1. /\ queue # <<>> /\ p.op = "write" /\ queue' = q
      /\ UNCHANGED <<client, sent, received, backlog, exhausted, acceptOp,
                     started, taken, data_>>
  BY DEF OnWrite, Completed, clientVars
<1>2. Continue \/ Again \/ Release
  BY DEF OnWrite, WriteDone, WriteFrom, EndWrite, DoRead
<1>3. /\ p \in Packets /\ WriteOK(p) /\ q \in Seq(Packets) /\ OncePerOp(q)
      /\ \A r \in Elements(q) : r \in Packets /\ PacketOK(r)
                             /\ (r.op = "write" => r.of # p.of)
  BY <1>1, FirstPacket DEF PacketOK, SameOp
<1>. HIDE DEF p, q
<1>4. /\ p.of \in Clients /\ writeOp[p.of] = "queued" /\ readOp[p.of] = "none"
      /\ started[p.of] /\ client[p.of] # "away" /\ p.bytes \in Nat
      /\ written[p.of] \in Nat /\ taken[p.of] \in Nat /\ Len(data_[p.of]) \in Nat
  BY <1>3, LenProperties DEF WriteOK, SessionOK, Packets, TcpTypeOK
<1>5. TcpTypeOK'
  <2>1. readOp' \in [Clients -> Ops] /\ writeOp' \in [Clients -> Ops]
    BY <1>2 DEF TcpTypeOK, Ops
  <2>2. written' \in [Clients -> Nat]
    <3>1. CASE UNCHANGED written
      BY <3>1 DEF TcpTypeOK
    <3>2. CASE written' = [written EXCEPT ![p.of] = written[p.of] + p.bytes]
      <4>1. written[p.of] + p.bytes \in Nat
        BY <1>4
      <4>. QED
        BY <3>2, <4>1 DEF TcpTypeOK
    <3>. QED
      BY <1>2, <3>1, <3>2
  <2>. QED
    BY <1>1, <1>3, <2>1, <2>2 DEF TcpTypeOK
<1>6. BacklogOK' /\ \A c \in Clients : StreamOK(c)'
  BY <1>1 DEF BacklogOK, StreamOK
<1>7. ASSUME NEW c \in Clients PROVE SessionOK(c)'
  <2>1. CASE c # p.of
    BY <1>1, <1>2, <2>1 DEF SessionOK, TcpTypeOK
  <2>2. CASE c = p.of /\ Release
    BY <1>1, <1>4, <2>2 DEF SessionOK, TcpTypeOK
  <2>3. CASE c = p.of /\ Again
    <3>1. Len(received[c]) = taken[c]
      BY <1>3, <1>4, <2>3 DEF WriteOK
    <3>2. writeOp'[c] = "none"
      BY <2>3 DEF TcpTypeOK
    <3>. QED
      BY <1>1, <1>4, <2>3, <3>1, <3>2 DEF SessionOK
  <2>4. CASE c = p.of /\ Continue
    <3>1. /\ writeOp'[c] = "pending" /\ written'[c] = written[c] + p.bytes
          /\ readOp'[c] = "none"
      BY <1>4, <2>4 DEF TcpTypeOK
    <3>2. /\ written[c] + p.bytes < Len(data_[c])
          /\ Len(received[c]) = taken[c] - Len(data_[c]) + (written[c] + p.bytes)
      <4>1. /\ written[c] + p.bytes <= Len(data_[c])
            /\ Len(received[c]) = taken[c] - Len(data_[c]) + (written[c] + p.bytes)
        BY <1>3, <2>4 DEF WriteOK
      <4>2. written[c] + p.bytes # Len(data_[c])
        BY <2>4
      <4>3. /\ written[c] \in Nat /\ p.bytes \in Nat /\ taken[c] \in Nat
            /\ Len(data_[c]) \in Nat
        BY <1>4, <2>4
      <4>4. \A w, b, d \in Nat : w + b <= d /\ w + b # d => w + b < d
        OBVIOUS
      <4>5. written[c] + p.bytes < Len(data_[c])
        BY <4>1, <4>2, <4>3, <4>4
      <4>. QED
        BY <4>1, <4>5
    <3>. QED
      BY <1>1, <1>4, <2>4, <3>1, <3>2 DEF SessionOK
  <2>. QED
    BY <1>2, <2>1, <2>2, <2>3, <2>4
<1>8. ASSUME NEW r \in Elements(q) PROVE PacketOK(r)'
  <2>1. r.op = "accept" => AcceptOK(r)'
    BY <1>1, <1>3 DEF PacketOK, AcceptOK
  <2>2. r.op = "read" => ReadOK(r)'
    <3>. SUFFICES ASSUME r.op = "read" PROVE ReadOK(r)'
      OBVIOUS
    <3>1. ReadOK(r) /\ r.of # p.of
      BY <1>3, <1>4 DEF PacketOK, ReadOK
    <3>2. readOp'[r.of] = readOp[r.of]
      BY <1>2, <3>1 DEF ReadOK, TcpTypeOK
    <3>. QED
      BY <1>1, <3>1, <3>2 DEF ReadOK
  <2>3. r.op = "write" => WriteOK(r)'
    BY <1>1, <1>2, <1>3, <1>4 DEF PacketOK, WriteOK, TcpTypeOK
  <2>. QED
    BY <2>1, <2>2, <2>3 DEF PacketOK
<1>. QED
  BY <1>1, <1>3, <1>5, <1>6, <1>7, <1>8 DEF TcpInv
-----------------------------------------------------------------------------
(* The theorems.                                                           *)

\* Every step keeps the account of positions and packets.
LEMMA TcpInvStep == TcpInv /\ [TcpNext]_tcpVars => TcpInv'
<1>. SUFFICES ASSUME TcpInv, [TcpNext]_tcpVars PROVE TcpInv'
  OBVIOUS
<1>1. CASE Shortage
  <2>1. CASE Clients # {}
    BY <1>1, <2>1, EnvironmentStep
  <2>2. CASE Clients = {}
    <3>1. TcpTypeOK'
      BY <1>1 DEF Shortage, TcpInv, TcpTypeOK, clientVars, sessionVars
    <3>2. BacklogOK' /\ OncePerOp(queue)'
      BY <1>1 DEF Shortage, TcpInv, BacklogOK, clientVars, sessionVars
    <3>3. \A p \in Elements(queue) : PacketOK(p)'
      BY <1>1 DEF Shortage, clientVars, sessionVars, TcpInv, PacketOK, AcceptOK,
         ReadOK, WriteOK
    <3>. QED
      BY <1>1, <2>2, <3>1, <3>2, <3>3 DEF Shortage, TcpInv
  <2>. QED
    BY <2>1, <2>2
<1>2. CASE UNCHANGED tcpVars
  <2>1. TcpTypeOK'
    BY <1>2 DEF tcpVars, TcpInv, TcpTypeOK, clientVars, sessionVars
  <2>2. BacklogOK' /\ OncePerOp(queue)' /\ \A c \in Clients : StreamOK(c)' /\ SessionOK(c)'
    BY <1>2 DEF tcpVars, TcpInv, BacklogOK, StreamOK, SessionOK, clientVars, sessionVars
  <2>3. \A p \in Elements(queue) : PacketOK(p)'
    BY <1>2 DEF tcpVars, clientVars, sessionVars, TcpInv, PacketOK, AcceptOK,
       ReadOK, WriteOK
  <2>. QED
    BY <1>2, <2>1, <2>2, <2>3 DEF TcpInv, tcpVars
<1>3. ASSUME NEW c \in Clients, Environment(c) PROVE TcpInv'
  BY <1>3, EnvironmentStep
<1>4. ASSUME NEW c \in Clients, ReadCompletes(c) PROVE TcpInv'
  BY <1>4, ReadStep
<1>5. ASSUME NEW c \in Clients, WriteCompletes(c) PROVE TcpInv'
  BY <1>5, WriteStep
<1>6. CASE AcceptCompletes
  BY <1>6, AcceptStep
<1>7. CASE Handler
  BY <1>7, OnAcceptStep, OnReadStep, OnWriteStep DEF Handler
<1>. QED
  BY <1>1, <1>2, <1>3, <1>4, <1>5, <1>6, <1>7 DEF TcpNext

\* The account holds in every behaviour.
LEMMA TcpInvariant == TcpSafety => []TcpInv
BY TcpInvInitially, TcpInvStep, PTL DEF TcpSafety

\* Type correctness; a read never takes more than data_ holds.
THEOREM TcpTypeCorrect == TcpSafety => []TcpTypeOK
<1>1. TcpInv => TcpTypeOK
  BY DEF TcpInv
<1>. QED
  BY <1>1, TcpInvariant, PTL

\* A session has one operation at a time, completed once.
THEOREM OneOperationPerSession == TcpSafety => []SessionHasOneOperation
<1>1. TcpInv => SessionHasOneOperation
  <2>. SUFFICES ASSUME TcpInv PROVE SessionHasOneOperation
    OBVIOUS
  <2>1. \A k \in DOMAIN queue : queue[k] \in Elements(queue)
    BY DEF Elements
  <2>2. \A k \in DOMAIN queue :
          /\ queue[k].op = "read" => readOp[queue[k].of] = "queued"
          /\ queue[k].op = "write" => writeOp[queue[k].of] = "queued"
    BY <2>1 DEF TcpInv, PacketOK, ReadOK, WriteOK
  <2>. QED
    BY <2>2 DEF TcpInv, SessionOK, OncePerOp, SameOp, SessionHasOneOperation
<1>. QED
  BY <1>1, TcpInvariant, PTL

\* The server implements the safety part of StreamEcho: what a client hears is
\* the beginning of what it said, whatever the size of reads and writes.
THEOREM EchoesTheStream == TcpSafety => Stream!SafetySpec
<1>1. TcpInit => Stream!Init
  BY DEF TcpInit, Stream!Init, Line, Deaf
<1>2. TcpInv /\ [TcpNext]_tcpVars => [Stream!Next]_(Stream!streamVars)
  <2>. SUFFICES ASSUME TcpInv, [TcpNext]_tcpVars,
                       ~UNCHANGED <<sent, received, Line>>
                PROVE  Stream!Next
    BY DEF Stream!streamVars
  <2>. TcpTypeOK
    BY DEF TcpInv
  <2>1. ASSUME NEW c \in Clients, Connect(c) PROVE FALSE
    BY <2>1 DEF Connect, TcpTypeOK, sessionVars, Line, Deaf
  <2>2. ASSUME NEW c \in Clients, NEW b \in Bytes, Send(c, b) PROVE Stream!Next
    BY <2>2 DEF Send, sessionVars, Line, Stream!Next, Stream!Say
  <2>3. ASSUME NEW c \in Clients, StopReading(c) PROVE Stream!Next
    <3>1. /\ UNCHANGED <<sent, received, started>>
          /\ client[c] \in {"connected", "finished"}
          /\ \E to \in Deaf : client' = [client EXCEPT ![c] = to]
      BY <2>3 DEF StopReading, Turns, sessionVars, Deaf
    <3>2. Line[c] \in {"down", "up"} /\ Line' = [Line EXCEPT ![c] = "held"]
      BY <3>1 DEF Line, TcpTypeOK, Deaf
    <3>. QED
      BY <3>1, <3>2 DEF Stream!Next, Stream!Hold
  <2>4. ASSUME NEW c \in Clients, FinishSending(c) PROVE FALSE
    <3>1. /\ UNCHANGED <<sent, received, started>>
          /\ \/ client[c] = "connected" /\ client' = [client EXCEPT ![c] = "finished"]
             \/ client[c] = "deaf" /\ client' = [client EXCEPT ![c] = "idle"]
      BY <2>4 DEF FinishSending, Turns, sessionVars
    <3>2. client[c] \in Deaf <=> client'[c] \in Deaf
      BY <3>1 DEF Deaf, TcpTypeOK
    <3>3. UNCHANGED Line
      BY <3>1, <3>2 DEF Line, TcpTypeOK
    <3>. QED
      BY <3>1, <3>3
  <2>5. ASSUME NEW c \in Clients, Reset(c) PROVE Stream!Next
    <3>1. /\ UNCHANGED <<sent, received, started>>
          /\ client[c] # "gone" /\ client' = [client EXCEPT ![c] = "gone"]
      BY <2>5 DEF Reset, Turns, sessionVars, Present
    <3>2. Line[c] # "cut" /\ Line' = [Line EXCEPT ![c] = "cut"]
      BY <3>1 DEF Line, TcpTypeOK
    <3>. QED
      BY <3>1, <3>2 DEF Stream!Next, Stream!Cut
  <2>6. ~Shortage /\ ~AcceptCompletes /\ ~OnRead /\ ~OnWrite
        /\ \A c \in Clients : ~ReadCompletes(c)
    BY DEF Shortage, AcceptCompletes, OnRead, OnWrite, ReadCompletes, clientVars,
           sessionVars, Line
  <2>7. ASSUME NEW c \in Clients, WriteCompletes(c) PROVE Stream!Next
    <3>1. UNCHANGED <<client, sent, started>>
      BY <2>7 DEF WriteCompletes, clientVars
    <3>2. received' # received /\ UNCHANGED Line
      BY <3>1 DEF Line
    <3>3. client[c] # "gone" /\ writeOp[c] = "pending"
      BY <2>7, <3>2 DEF WriteCompletes
    <3>4. Line[c] \in {"up", "held"}
      BY <3>3 DEF TcpInv, SessionOK, Line
    <3>5. \E n \in Len(received[c]) + 1 .. Len(sent[c]) :
            received' = [received EXCEPT ![c] = SubSeq(sent[c], 1, n)]
      BY <2>7, <3>2, WriteStep DEF GoesOn
    <3>. QED
      BY <3>1, <3>2, <3>4, <3>5
         DEF Stream!Next, Stream!Echo, Stream!Arrive, Stream!Hear
  <2>8. ASSUME OnAccept PROVE Stream!Next
    <3> DEFINE p == Head(queue)
    <3>1. UNCHANGED <<client, sent, received>>
      BY <2>8 DEF OnAccept, clientVars
    <3>2. p.ec = "ok" /\ started' = [started EXCEPT ![p.of] = TRUE]
      BY <2>8, <3>1 DEF OnAccept, Line
    <3>3. AcceptOK(p)
      BY <2>8, FirstPacket DEF OnAccept, Completed, PacketOK
    <3>. HIDE DEF p
    <3>4. p.of \in Clients /\ ~started[p.of]
      BY <3>2, <3>3 DEF AcceptOK
    <3>5. Line[p.of] = "down" /\ Line' = [Line EXCEPT ![p.of] = "up"]
      <4>1. client[p.of] \notin Deaf \cup {"gone"}
        BY <3>1, <3>2, <3>4 DEF Line, TcpTypeOK
      <4>2. \A c \in Clients : started'[c] = IF c = p.of THEN TRUE ELSE started[c]
        BY <3>2, <3>4 DEF TcpTypeOK
      <4>. QED
        BY <3>1, <3>4, <4>1, <4>2 DEF Line
    <3>. QED
      BY <3>1, <3>4, <3>5 DEF Stream!Next, Stream!Serve
  <2>9. ~UNCHANGED tcpVars
    BY DEF tcpVars, clientVars, sessionVars, Line
  <2>. QED
    BY <2>1, <2>2, <2>3, <2>4, <2>5, <2>6, <2>7, <2>8, <2>9
       DEF TcpNext, Environment, Handler
<1>. QED
  BY <1>1, <1>2, TcpInvariant, PTL DEF TcpSafety, Stream!SafetySpec
-----------------------------------------------------------------------------
(* What keeps a connection and a session going.  ConnectionsAreServed and  *)
(* SessionsAreReleased say that something happens in the end; here is what *)
(* they rest on: something is always under way for whoever waits, and      *)
(* after the client's last word what is left to do for it only shrinks.    *)

AcceptPackets == {p \in Elements(queue) : p.op = "accept"}

\* The completions of a session that are on their way.
Own(c) == {p \in Elements(queue) : p.op # "accept" /\ p.of = c}

\* The acceptor accepts, or will when its completion is handled.
Accepting == acceptOp = "pending" \/ AcceptPackets # {}

\* A client that is connected has had its session, or its accept is on its
\* way, or it waits in the backlog of an acceptor that accepts.
NobodyForgotten ==
    \A c \in Clients : client[c] \in Present =>
      \/ started[c]
      \/ \E p \in AcceptPackets : p.ec = "ok" /\ p.of = c
      \/ c \in Elements(backlog) /\ Accepting

\* The kernel performs the operation of a session, or its completion is on
\* its way: no handler forgets one.
SessionsGoOn ==
    \A c \in Clients : readOp[c] = "queued" \/ writeOp[c] = "queued" => Own(c) # {}

GoesOnInv == Accepting /\ NobodyForgotten /\ SessionsGoOn

Failed(c) == \E p \in Own(c) : p.ec = "error"

\* What was read and has not come back.
Lag(c) == taken[c] - Len(received[c])

\* What is left to do for a client that says no more: its unread bytes count
\* more than what reading, writing and handling one of them takes.
Work(c) ==
    IF ~Alive(c) THEN 0
    ELSE IF Failed(c) THEN 1
    ELSE 6 * (Len(sent[c]) - taken[c])
           + (IF readOp[c] = "pending" THEN 2
              ELSE IF readOp[c] = "queued" THEN 5 * Lag(c) + 1
              ELSE IF writeOp[c] = "pending" THEN 2 * Lag(c) + 3
              ELSE 2 * Lag(c) + 4)

\* A step of a session whose client finished or left brings it nearer to its
\* end; the steps of others leave it where it is.
WindsDown(c) ==
    started[c] /\ client[c] \in Finished \cup {"gone"} =>
      \/ Work(c)' < Work(c)
      \/ Work(c)' = Work(c) /\ UNCHANGED <<readOp[c], writeOp[c]>>

\* What a packet that is appended adds to the packets of each.
LEMMA PacketsAppended ==
  ASSUME TcpInv, NEW p \in Packets, queue' = Append(queue, p)
  PROVE  /\ p.op = "accept" => /\ AcceptPackets' = AcceptPackets \cup {p}
                               /\ \A c \in Clients : Own(c)' = Own(c)
         /\ p.op # "accept" =>
              /\ AcceptPackets' = AcceptPackets
              /\ \A c \in Clients :
                   Own(c)' = IF c = p.of THEN Own(c) \cup {p} ELSE Own(c)
<1>1. Elements(queue') = Elements(queue) \cup {p}
  BY AppendElements DEF TcpInv, TcpTypeOK
<1>. QED
  BY <1>1 DEF AcceptPackets, Own

\* What taking the first packet leaves.
LEMMA PacketsLeft ==
  ASSUME TcpInv, queue # <<>>
  PROVE  /\ Elements(queue) = {Head(queue)} \cup Elements(Tail(queue))
         /\ Head(queue) \in Packets
         /\ \A r \in Elements(Tail(queue)) : ~SameOp(r, Head(queue))
<1>. queue \in Seq(Packets)
  BY DEF TcpInv, TcpTypeOK
<1>1. /\ Len(queue) \in Nat /\ Len(queue) # 0 /\ DOMAIN queue = 1 .. Len(queue)
      /\ Head(queue) = queue[1]
      /\ Len(Tail(queue)) = Len(queue) - 1
      /\ \A i \in 1 .. Len(Tail(queue)) : Tail(queue)[i] = queue[i + 1]
      /\ DOMAIN Tail(queue) = 1 .. Len(queue) - 1
  BY HeadTailProperties, LenProperties, EmptySeq
<1>2. ASSUME NEW i \in DOMAIN queue
      PROVE  queue[i] \in {Head(queue)} \cup Elements(Tail(queue))
  <2>1. i = 1 \/ (i - 1 \in DOMAIN Tail(queue) /\ (i - 1) + 1 = i)
    BY <1>1
  <2>. QED
    BY <1>1, <2>1 DEF Elements
<1>3. Elements(queue) \subseteq {Head(queue)} \cup Elements(Tail(queue))
  BY <1>2 DEF Elements
<1>. QED
  BY <1>3, TailElements, FirstPacket

\* What is queued for a session says which of its operations is.
LEMMA OwnPackets ==
  ASSUME TcpInv, NEW c \in Clients
  PROVE  /\ readOp[c] = "none" \/ writeOp[c] = "none"
         /\ \A r \in Own(c) : /\ r.op = "read" => ReadOK(r) /\ readOp[c] = "queued"
                              /\ r.op # "read" => /\ r.op = "write" /\ WriteOK(r)
                                                  /\ writeOp[c] = "queued"
         /\ acceptOp = "pending" => AcceptPackets = {}
<1>1. \A r \in Elements(queue) : r \in Packets /\ PacketOK(r)
  BY InQueue DEF TcpInv
<1>2. \A r \in Packets : r.op \in {"accept", "read", "write"}
  BY DEF Packets
<1>. QED
  BY <1>1, <1>2 DEF TcpInv, SessionOK, Own, AcceptPackets, PacketOK, ReadOK, WriteOK,
     AcceptOK
\* A step that appends the completion of c's operation and touches no other
\* session keeps everything under way.
LEMMA KernelGoesOn ==
  ASSUME TcpInv, GoesOnInv, NEW c \in Clients,
         ReadCompletes(c) \/ WriteCompletes(c)
  PROVE  /\ GoesOnInv'
         /\ \E p \in Packets :
              /\ queue' = Append(queue, p) /\ p.op # "accept" /\ p.of = c
              /\ Own(c)' = {p} /\ \A d \in Clients \ {c} : Own(d)' = Own(d)
<1>1. PICK p \in Packets : queue' = Append(queue, p) /\ p.op # "accept" /\ p.of = c
  <2>1. ASSUME NEW n \in Nat, NEW ec \in {"ok", "error"}, NEW op \in {"read", "write"}
        PROVE  /\ Packet(op, c, ec, n) \in Packets /\ Packet(op, c, ec, n).op = op
               /\ Packet(op, c, ec, n).of = c
    BY DEF Packet, Packets
  <2>2. \E n \in Nat, ec \in {"ok", "error"}, op \in {"read", "write"} :
          queue' = Append(queue, Packet(op, c, ec, n))
    <3>1. CASE ReadCompletes(c)
      <4>1. Len(sent[c]) - taken[c] \in Nat
        BY LenProperties DEF TcpInv, TcpTypeOK, StreamOK, Window
      <4>2. Room(Len(sent[c]) - taken[c]) \in Nat
        BY <4>1, RoomLeft
      <4>3. \A n \in Some(Room(Len(sent[c]) - taken[c])) : n \in Nat
        BY <4>2 DEF Some
      <4>. QED
        BY <3>1, <4>3 DEF ReadCompletes, Enqueue
    <3>2. CASE WriteCompletes(c)
      <4>1. Len(data_[c]) - written[c] \in Nat
        BY <3>2, LenProperties DEF WriteCompletes, TcpInv, TcpTypeOK, SessionOK
      <4>2. \A n \in Some(Len(data_[c]) - written[c]) : n \in Nat
        BY <4>1 DEF Some
      <4>. QED
        BY <3>2, <4>2 DEF WriteCompletes, Enqueue
    <3>. QED
      BY <3>1, <3>2
  <2>. QED
    BY <2>1, <2>2
<1>2. Own(c) = {}
  BY OwnPackets DEF ReadCompletes, WriteCompletes
<1>3. /\ AcceptPackets' = AcceptPackets /\ Own(c)' = {p}
      /\ \A d \in Clients \ {c} : Own(d)' = Own(d)
  BY <1>1, <1>2, PacketsAppended
<1>4. /\ UNCHANGED <<client, started, acceptOp, backlog>>
      /\ \A d \in Clients \ {c} : readOp'[d] = readOp[d] /\ writeOp'[d] = writeOp[d]
  BY DEF ReadCompletes, WriteCompletes, clientVars, TcpInv, TcpTypeOK
<1>5. Accepting' /\ NobodyForgotten'
  BY <1>3, <1>4 DEF GoesOnInv, Accepting, NobodyForgotten
<1>6. SessionsGoOn'
  <2>. SUFFICES ASSUME NEW d \in Clients, (readOp[d] = "queued" \/ writeOp[d] = "queued")'
                PROVE  Own(d)' # {}
    BY DEF SessionsGoOn
  <2>. QED
    BY <1>3, <1>4 DEF GoesOnInv, SessionsGoOn
<1>. QED
  BY <1>1, <1>3, <1>5, <1>6 DEF GoesOnInv

\* An accept that completes takes the first of the backlog with it, or leaves
\* behind one that is gone.
LEMMA AcceptGoesOn ==
  ASSUME TcpInv, GoesOnInv, AcceptCompletes
  PROVE  GoesOnInv' /\ \A c \in Clients : Own(c)' = Own(c)
<1>. backlog # <<>> /\ backlog \in Seq(Clients)
  BY DEF AcceptCompletes, TcpInv, TcpTypeOK
<1>1. Head(backlog) \in Clients /\ Elements(backlog) = {Head(backlog)} \cup Elements(Tail(backlog))
  <2>1. /\ Len(backlog) \in Nat /\ Len(backlog) # 0 /\ DOMAIN backlog = 1 .. Len(backlog)
        /\ Head(backlog) = backlog[1] /\ Head(backlog) \in Clients
        /\ \A i \in 1 .. Len(backlog) - 1 : Tail(backlog)[i] = backlog[i + 1]
        /\ DOMAIN Tail(backlog) = 1 .. Len(backlog) - 1
    BY HeadTailProperties, LenProperties, EmptySeq
  <2>2. ASSUME NEW i \in DOMAIN backlog
        PROVE  backlog[i] \in {Head(backlog)} \cup Elements(Tail(backlog))
    <3>1. i = 1 \/ (i - 1 \in DOMAIN Tail(backlog) /\ (i - 1) + 1 = i)
      BY <2>1
    <3>. QED
      BY <2>1, <3>1 DEF Elements
  <2>3. Elements(backlog) \subseteq {Head(backlog)} \cup Elements(Tail(backlog))
    BY <2>2 DEF Elements
  <2>. QED
    BY <2>1, <2>3, TailElements
<1>2. PICK p : /\ queue' = Append(queue, p) /\ p \in Packets /\ p.op = "accept"
               /\ \/ p.ec = "ok" /\ p.of = Head(backlog)
                  \/ client[Head(backlog)] = "gone"
  <2>1. \A c \in {Head(backlog), Nobody}, ec \in {"ok", "error"} :
          /\ Packet("accept", c, ec, 0) \in Packets /\ Packet("accept", c, ec, 0).op = "accept"
          /\ Packet("accept", c, ec, 0).of = c /\ Packet("accept", c, ec, 0).ec = ec
    BY <1>1 DEF Packet, Packets
  <2>. QED
    BY <2>1 DEF AcceptCompletes, Enqueue
<1>3. AcceptPackets' = AcceptPackets \cup {p} /\ \A c \in Clients : Own(c)' = Own(c)
  BY <1>2, PacketsAppended
<1>4. UNCHANGED <<client, started, readOp, writeOp>> /\ backlog' = Tail(backlog)
  BY DEF AcceptCompletes, clientVars, sessionVars
<1>5. Accepting'
  BY <1>3 DEF Accepting
<1>6. NobodyForgotten'
  BY <1>1, <1>2, <1>3, <1>4, <1>5 DEF GoesOnInv, NobodyForgotten, Present
<1>7. SessionsGoOn'
  BY <1>3, <1>4 DEF GoesOnInv, SessionsGoOn
<1>. QED
  BY <1>3, <1>5, <1>6, <1>7 DEF GoesOnInv

\* OnAccept gives the connection its session and accepts again, after an
\* error too.
LEMMA OnAcceptGoesOn ==
  ASSUME TcpInv, GoesOnInv, OnAccept
  PROVE  GoesOnInv' /\ \A c \in Clients : Own(c)' = Own(c)
<1> DEFINE p == Head(queue)
           q == Tail(queue)
           e == Packet("accept", Nobody, "error", 0)
<1>1. /\ queue # <<>> /\ p.op = "accept" /\ UNCHANGED <<client, backlog, writeOp>>
      /\ \/ queue' = Append(q, e)
         \/ acceptOp' = "pending" /\ queue' = q
      /\ \/ p.ec = "ok" /\ readOp' = [readOp EXCEPT ![p.of] = "pending"]
            /\ started' = [started EXCEPT ![p.of] = TRUE]
         \/ p.ec # "ok" /\ UNCHANGED <<readOp, started>>
  BY DEF OnAccept, Completed, AcceptAgain, AsyncAccept, clientVars, DoRead
<1>2. /\ Elements(queue) = {p} \cup Elements(q) /\ q \in Seq(Packets)
  BY <1>1, PacketsLeft, FirstPacket
<1>3. e \in Packets /\ e.op = "accept"
  BY DEF Packet, Packets
<1>. HIDE DEF p, q, e
<1>4. \/ Elements(queue') = Elements(q) \cup {e}
      \/ acceptOp' = "pending" /\ Elements(queue') = Elements(q)
  <2>1. Elements(Append(q, e)) = Elements(q) \cup {e}
    BY <1>2, <1>3, AppendElements
  <2>. QED
    BY <1>1, <2>1
<1>5. Accepting' /\ AcceptPackets \subseteq {p} \cup AcceptPackets'
  BY <1>2, <1>3, <1>4 DEF Accepting, AcceptPackets
<1>6. \A c \in Clients : Own(c)' = Own(c)
  BY <1>1, <1>2, <1>3, <1>4 DEF Own
<1>7. NobodyForgotten'
  <2>. SUFFICES ASSUME NEW c \in Clients, client[c] \in Present
                PROVE  \/ started'[c]
                       \/ \E r \in AcceptPackets' : r.ec = "ok" /\ r.of = c
                       \/ c \in Elements(backlog)
    BY <1>1, <1>5 DEF NobodyForgotten
  <2>1. CASE started[c]
    BY <1>1, <2>1 DEF TcpInv, TcpTypeOK
  <2>2. CASE c \in Elements(backlog)
    BY <2>2
  <2>3. CASE \E r \in AcceptPackets : r.ec = "ok" /\ r.of = c
    <3>1. PICK r \in AcceptPackets : r.ec = "ok" /\ r.of = c
      BY <2>3
    <3>2. CASE r = p
      BY <1>1, <3>1, <3>2 DEF TcpInv, TcpTypeOK
    <3>. QED
      BY <1>5, <3>1, <3>2
  <2>. QED
    BY <2>1, <2>2, <2>3 DEF GoesOnInv, NobodyForgotten
<1>8. SessionsGoOn'
  BY <1>1, <1>6 DEF GoesOnInv, SessionsGoOn, TcpInv, TcpTypeOK
<1>. QED
  BY <1>5, <1>6, <1>7, <1>8 DEF GoesOnInv

\* A handler of a session takes the only completion of its session; whatever
\* it starts, nothing of that session is queued.
LEMMA HandlerGoesOn ==
  ASSUME TcpInv, GoesOnInv, OnRead \/ OnWrite
  PROVE  /\ GoesOnInv'
         /\ \E c \in Clients :
              /\ Head(queue) \in Packets /\ Head(queue).of = c
              /\ Own(c) = {Head(queue)} /\ Own(c)' = {}
              /\ \A d \in Clients \ {c} : /\ Own(d)' = Own(d)
                                          /\ readOp'[d] = readOp[d]
                                          /\ writeOp'[d] = writeOp[d]
<1> DEFINE p == Head(queue)
           q == Tail(queue)
<1>1. /\ queue # <<>> /\ p.op \in {"read", "write"} /\ queue' = q
      /\ UNCHANGED <<client, started, acceptOp, backlog>>
  BY DEF OnRead, OnWrite, Completed, clientVars
<1>2. /\ Elements(queue) = {p} \cup Elements(q) /\ p \in Packets
      /\ \A r \in Elements(q) : ~SameOp(r, p)
  BY <1>1, PacketsLeft
<1>3. p.of \in Clients
  BY <1>1, FirstPacket DEF PacketOK, ReadOK, WriteOK
<1>4. /\ p.op = "read" => OnRead
      /\ p.op = "write" => OnWrite
  BY <1>1 DEF OnRead, OnWrite, Completed
<1>5. \A d \in Clients \ {p.of} : readOp'[d] = readOp[d] /\ writeOp'[d] = writeOp[d]
  <2>. SUFFICES ASSUME NEW d \in Clients, d # p.of
                PROVE  readOp'[d] = readOp[d] /\ writeOp'[d] = writeOp[d]
    OBVIOUS
  <2>1. readOp \in [Clients -> Ops] /\ writeOp \in [Clients -> Ops]
    BY DEF TcpInv, TcpTypeOK
  <2>2. CASE OnRead
    BY <2>1, <2>2 DEF OnRead, DoWrite, EndRead, WriteFrom
  <2>3. CASE OnWrite
    BY <2>1, <2>3 DEF OnWrite, WriteFrom, EndWrite, DoRead
  <2>. QED
    BY <2>2, <2>3
<1>. HIDE DEF p, q
<1>6. /\ AcceptPackets' = AcceptPackets
      /\ \A d \in Clients \ {p.of} : Own(d)' = Own(d)
  BY <1>1, <1>2 DEF AcceptPackets, Own
<1>7. \A c \in Clients : p.of = c => Own(c) = {p} /\ Own(c)' = {}
  <2>. SUFFICES ASSUME NEW c \in Clients, p.of = c PROVE Own(c) = {p} /\ Own(c)' = {}
    OBVIOUS
  <2>1. p \in Own(c)
    BY <1>1, <1>2 DEF Own
  <2>2. \A r \in Own(c) : r.op = p.op
    BY <1>1, <2>1, OwnPackets
  <2>3. \A r \in Elements(q) : r \notin Own(c)
    BY <1>2, <2>2 DEF SameOp, Own
  <2>4. Own(c) = {p}
    BY <1>2, <2>1, <2>3 DEF Own
  <2>5. Own(c)' = {r \in Elements(q) : r \in Own(c)}
    BY <1>1, <1>2 DEF Own
  <2>. QED
    BY <2>3, <2>4, <2>5
<1>8. /\ readOp'[p.of] # "queued" /\ writeOp'[p.of] # "queued"
  <2>1. readOp \in [Clients -> Ops] /\ writeOp \in [Clients -> Ops]
    BY DEF TcpInv, TcpTypeOK
  <2>2. CASE OnRead
    <3>1. readOp' = [readOp EXCEPT ![p.of] = "none"] /\ writeOp[p.of] = "none"
      BY <1>1, <1>3, <1>7, <2>2, OwnPackets DEF OnRead, Completed, DoWrite, EndRead, p
    <3>2. writeOp' = writeOp \/ writeOp' = [writeOp EXCEPT ![p.of] = "pending"]
      BY <2>2 DEF OnRead, DoWrite, WriteFrom, p
    <3>. QED
      BY <1>3, <2>1, <3>1, <3>2
  <2>3. CASE OnWrite
    <3>1. readOp[p.of] = "none"
      BY <1>1, <1>3, <1>7, <2>3, OwnPackets DEF OnWrite, Completed, p
    <3>2. \/ writeOp' = [writeOp EXCEPT ![p.of] = "pending"] /\ readOp' = readOp
          \/ /\ writeOp' = [writeOp EXCEPT ![p.of] = "none"]
             /\ readOp' = readOp \/ readOp' = [readOp EXCEPT ![p.of] = "pending"]
      BY <2>3 DEF OnWrite, WriteFrom, EndWrite, DoRead, p
    <3>. QED
      BY <1>3, <2>1, <3>1, <3>2
  <2>. QED
    BY <2>2, <2>3
<1>9. Accepting' /\ NobodyForgotten'
  BY <1>1, <1>6 DEF GoesOnInv, Accepting, NobodyForgotten
<1>10. SessionsGoOn'
  <2>. SUFFICES ASSUME NEW d \in Clients, (readOp[d] = "queued" \/ writeOp[d] = "queued")'
                PROVE  Own(d)' # {}
    BY DEF SessionsGoOn
  <2>1. d # p.of
    BY <1>8
  <2>. QED
    BY <1>5, <1>6, <2>1 DEF GoesOnInv, SessionsGoOn, p
<1>. QED
  BY <1>2, <1>3, <1>5, <1>6, <1>7, <1>9, <1>10 DEF GoesOnInv, p
\* What is left to do depends on the session's positions, its operations and
\* its completions only.
LEMMA WorkStays ==
  ASSUME NEW c \in Clients, Own(c)' = Own(c), sent'[c] = sent[c],
         taken'[c] = taken[c], received'[c] = received[c],
         readOp'[c] = readOp[c], writeOp'[c] = writeOp[c]
  PROVE  Work(c)' = Work(c) /\ UNCHANGED <<readOp[c], writeOp[c]>>
BY DEF Work, Lag, Failed, Alive

\* The positions of a session are numbers, and it is ahead of nothing.
LEMMA Positions ==
  ASSUME TcpInv, NEW c \in Clients
  PROVE  /\ taken[c] \in Nat /\ written[c] \in Nat
         /\ Len(sent[c]) \in Nat /\ Len(received[c]) \in Nat /\ Len(data_[c]) \in Nat
         /\ taken[c] <= Len(sent[c])
BY LenProperties DEF TcpInv, TcpTypeOK, StreamOK, Window

\* A read that completes: one byte read counts for less than one unread.
LEMMA ReadWindsDown ==
  ASSUME TcpInv, GoesOnInv, NEW c \in Clients, ReadCompletes(c)
  PROVE  Work(c)' < Work(c)
<1>1. PICK p \in Packets : /\ queue' = Append(queue, p) /\ p.op # "accept" /\ p.of = c
                           /\ Own(c)' = {p}
  BY KernelGoesOn
<1>2. /\ readOp[c] = "pending" /\ readOp'[c] = "queued" /\ Own(c) = {}
      /\ Len(received[c]) = taken[c] /\ UNCHANGED <<sent, received, writeOp>>
  BY OwnPackets DEF ReadCompletes, TcpInv, TcpTypeOK, SessionOK, clientVars
<1>3. Work(c) = 6 * (Len(sent[c]) - taken[c]) + 2
  BY <1>2 DEF Work, Alive, Failed
<1>4. CASE p.ec = "error"
  <2>1. Work(c)' = 1
    BY <1>1, <1>2, <1>4 DEF Work, Alive, Failed
  <2>. QED
    BY <1>3, <2>1, Positions
<1>5. CASE p.ec # "error"
  <2>1. PICK n \in Nat : /\ taken'[c] = taken[c] + n /\ n <= Len(sent[c]) - taken[c]
    <3>1. Len(sent[c]) - taken[c] \in Nat
      BY Positions
    <3>2. /\ Room(Len(sent[c]) - taken[c]) \in Nat
          /\ Room(Len(sent[c]) - taken[c]) <= Len(sent[c]) - taken[c]
      BY <3>1, RoomLeft
    <3>3. \A n \in Some(Room(Len(sent[c]) - taken[c])) :
            n \in Nat /\ n <= Len(sent[c]) - taken[c]
      BY <3>1, <3>2 DEF Some
    <3>4. queue' # Append(queue, Packet("read", c, "error", 0))
      <4>1. Packet("read", c, "error", 0) \in Packets
        BY DEF Packet, Packets
      <4>2. ASSUME queue' = Append(queue, Packet("read", c, "error", 0)) PROVE FALSE
        <5>1. Packet("read", c, "error", 0) \in Own(c)'
          <6>1. Packet("read", c, "error", 0).op = "read"
                /\ Packet("read", c, "error", 0).of = c
            BY DEF Packet
          <6>. QED
            BY <4>1, <4>2, <6>1, PacketsAppended
        <5>2. p.ec = "error"
          BY <1>1, <5>1 DEF Packet
        <5>. QED
          BY <1>5, <5>2
      <4>. QED
        BY <4>2
    <3>5. \E n \in Some(Room(Len(sent[c]) - taken[c])) :
            taken' = [taken EXCEPT ![c] = @ + n]
      BY <3>4 DEF ReadCompletes, Enqueue
    <3>. QED
      BY <3>3, <3>5 DEF TcpInv, TcpTypeOK
  <2>2. Work(c)' = 6 * (Len(sent[c]) - (taken[c] + n))
                     + (5 * ((taken[c] + n) - Len(received[c])) + 1)
    BY <1>1, <1>2, <1>5, <2>1 DEF Work, Alive, Failed, Lag
  <2>3. \A u, k, m \in Nat : m <= u - k => 6 * (u - (k + m)) + (5 * ((k + m) - k) + 1)
                                           < 6 * (u - k) + 2
    OBVIOUS
  <2>. QED
    BY <1>2, <1>3, <2>1, <2>2, <2>3, Positions
<1>. QED
  BY <1>4, <1>5

\* A write that completes has moved at least one byte.
LEMMA WriteWindsDown ==
  ASSUME TcpInv, GoesOnInv, NEW c \in Clients, WriteCompletes(c)
  PROVE  Work(c)' < Work(c)
<1>1. PICK p \in Packets : /\ queue' = Append(queue, p) /\ p.op # "accept" /\ p.of = c
                           /\ Own(c)' = {p}
  BY KernelGoesOn
<1>2. /\ writeOp[c] = "pending" /\ writeOp'[c] = "queued" /\ Own(c) = {}
      /\ readOp[c] = "none" /\ UNCHANGED <<sent, taken, readOp>>
      /\ Len(received[c]) = taken[c] - Len(data_[c]) + written[c]
      /\ written[c] < Len(data_[c])
  BY OwnPackets DEF WriteCompletes, TcpInv, TcpTypeOK, SessionOK, clientVars
<1>3. Work(c) = 6 * (Len(sent[c]) - taken[c]) + (2 * Lag(c) + 3)
  BY <1>2 DEF Work, Alive, Failed
<1>4. Lag(c) \in Nat
  BY <1>2, Positions DEF Lag
<1>5. CASE p.ec = "error"
  <2>1. Work(c)' = 1
    BY <1>1, <1>2, <1>5 DEF Work, Alive, Failed
  <2>. QED
    BY <1>3, <1>4, <2>1, Positions
<1>6. CASE p.ec # "error"
  <2>1. PICK n \in Nat : n > 0 /\ Len(received'[c]) = Len(received[c]) + n
    <3>1. Len(data_[c]) - written[c] \in Nat /\ Len(data_[c]) - written[c] # 0
      BY <1>2, Positions
    <3>2. \A n \in Some(Len(data_[c]) - written[c]) :
            n \in Nat /\ n > 0 /\ written[c] + n <= Len(data_[c])
      BY <3>1, Positions DEF Some
    <3>3. queue' # Append(queue, Packet("write", c, "error", 0))
      <4>1. Packet("write", c, "error", 0) \in Packets
        BY DEF Packet, Packets
      <4>2. ASSUME queue' = Append(queue, Packet("write", c, "error", 0)) PROVE FALSE
        <5>1. Packet("write", c, "error", 0) \in Own(c)'
          <6>1. Packet("write", c, "error", 0).op = "write"
                /\ Packet("write", c, "error", 0).of = c
            BY DEF Packet
          <6>. QED
            BY <4>1, <4>2, <6>1, PacketsAppended
        <5>2. p.ec = "error"
          BY <1>1, <5>1 DEF Packet
        <5>. QED
          BY <1>6, <5>2
      <4>. QED
        BY <4>2
    <3>4. \E n \in Some(Len(data_[c]) - written[c]) :
            received' = [received EXCEPT
              ![c] = @ \o SubSeq(data_[c], written[c] + 1, written[c] + n)]
      BY <3>3 DEF WriteCompletes, Enqueue
    <3>5. PICK n \in Nat :
            /\ n > 0 /\ written[c] + n <= Len(data_[c])
            /\ received'[c] = received[c] \o SubSeq(data_[c], written[c] + 1, written[c] + n)
      BY <3>2, <3>4 DEF TcpInv, TcpTypeOK
    <3>6. Len(received'[c]) = Len(received[c]) + n
      BY <1>2, <3>5, Extend DEF TcpInv
    <3>. QED
      BY <3>5, <3>6
  <2>2. Work(c)' = 6 * (Len(sent[c]) - taken[c])
                     + (2 * (taken[c] - Len(received'[c])) + 4)
    BY <1>1, <1>2, <1>6 DEF Work, Alive, Failed, Lag
  <2>3. PICK m \in Nat : m > 0 /\ Len(received'[c]) = Len(received[c]) + m
    BY <2>1
  <2>4. \A w, k, r \in Nat : w + (2 * (k - (r + m)) + 4) < w + (2 * (k - r) + 3)
    BY <2>3
  <2>5. 6 * (Len(sent[c]) - taken[c]) \in Nat
    BY Positions
  <2>. QED
    BY <1>3, <2>2, <2>3, <2>4, <2>5, Positions DEF Lag
<1>. QED
  BY <1>5, <1>6

\* A handler leaves its session with less to do, or releases it.
LEMMA HandlerWindsDown ==
  ASSUME TcpInv, GoesOnInv, OnRead \/ OnWrite, NEW c \in Clients,
         Own(c) = {Head(queue)}, Own(c)' = {}, Head(queue).of = c
  PROVE  Work(c)' < Work(c)
<1> DEFINE p == Head(queue)
<1>1. UNCHANGED <<sent, taken, received, data_>>
  BY DEF OnRead, OnWrite, clientVars
<1>2. p \in Packets /\ p.of = c /\ Own(c) = {p} /\ queue # <<>>
  BY FirstPacket DEF OnRead, OnWrite, Completed
<1>3. readOp \in [Clients -> Ops] /\ writeOp \in [Clients -> Ops]
  BY DEF TcpInv, TcpTypeOK
<1>4. 6 * (Len(sent[c]) - taken[c]) \in Nat /\ taken[c] \in Nat /\ Len(received[c]) \in Nat
      /\ Len(data_[c]) \in Nat /\ written[c] \in Nat /\ p.bytes \in Nat
  BY <1>2, Positions DEF Packets
<1>5. ~Failed(c)'
  BY DEF Failed
<1>6. Failed(c) <=> p.ec = "error"
  BY DEF Failed
<1>7. p.ec # "error" <=> p.ec = "ok"
  BY <1>2 DEF Packets
<1>8. CASE OnRead
  <2>1. /\ ReadOK(p) /\ readOp[c] = "queued" /\ writeOp[c] = "none"
        /\ \/ /\ p.ec = "ok" /\ p.bytes > 0 /\ readOp'[c] = "none"
              /\ writeOp'[c] = "pending"
           \/ /\ ~(p.ec = "ok" /\ p.bytes > 0)
              /\ readOp'[c] = "none" /\ writeOp'[c] = "none"
    BY <1>2, <1>3, <1>8, OwnPackets
       DEF OnRead, Completed, ReadResult, DoWrite, WriteFrom, EndRead
  <2>. HIDE DEF p
  <2>2. Work(c) = IF p.ec = "error" THEN 1
                  ELSE 6 * (Len(sent[c]) - taken[c]) + (5 * Lag(c) + 1)
    BY <1>6, <2>1 DEF Work, Alive
  <2>3. Lag(c) = p.bytes
    BY <1>2, <1>4, <2>1 DEF ReadOK, Lag
  <2>4. CASE p.ec = "ok" /\ p.bytes > 0
    <3>1. Work(c)' = 6 * (Len(sent[c]) - taken[c]) + (2 * Lag(c) + 3)
      BY <1>1, <1>5, <2>1, <2>4 DEF Work, Alive, Lag
    <3>2. \A w, b \in Nat : b > 0 => w + (2 * b + 3) < w + (5 * b + 1)
      OBVIOUS
    <3>. QED
      BY <1>4, <2>2, <2>3, <2>4, <3>1, <3>2
  <2>5. CASE ~(p.ec = "ok" /\ p.bytes > 0)
    <3>1. Work(c)' = 0
      BY <2>1, <2>5 DEF Work, Alive
    <3>2. \A w, b \in Nat : 0 < w + (5 * b + 1)
      OBVIOUS
    <3>. QED
      BY <1>4, <2>2, <2>3, <3>1, <3>2
  <2>. QED
    BY <2>4, <2>5
<1>9. CASE OnWrite
  <2>1. /\ WriteOK(p) /\ writeOp[c] = "queued" /\ readOp[c] = "none"
        /\ \/ /\ p.ec = "ok" /\ readOp'[c] = "none" /\ writeOp'[c] = "pending"
           \/ /\ p.ec = "ok" /\ readOp'[c] = "pending" /\ writeOp'[c] = "none"
              /\ p.bytes = 0 \/ written[c] + p.bytes = Len(data_[c])
           \/ /\ p.ec # "ok" /\ readOp'[c] = "none" /\ writeOp'[c] = "none"
    BY <1>2, <1>3, <1>9, OwnPackets
       DEF OnWrite, Completed, WriteDone, WriteFrom, EndWrite, DoRead
  <2>. HIDE DEF p
  <2>2. Work(c) = IF p.ec = "error" THEN 1
                  ELSE 6 * (Len(sent[c]) - taken[c]) + (2 * Lag(c) + 4)
    BY <1>6, <2>1 DEF Work, Alive
  <2>3. p.ec = "ok" => /\ Lag(c) = Len(data_[c]) - (written[c] + p.bytes)
                       /\ p.bytes > 0 /\ Lag(c) \in Nat
    BY <1>2, <1>4, <2>1, SMTT(20) DEF WriteOK, Lag
  <2>4. CASE p.ec # "ok"
    <3>1. Work(c)' = 0
      BY <2>1, <2>4 DEF Work, Alive
    <3>. QED
      BY <1>7, <2>2, <2>4, <3>1
  <2>5. CASE p.ec = "ok" /\ writeOp'[c] = "pending"
    <3>1. Work(c)' = 6 * (Len(sent[c]) - taken[c]) + (2 * Lag(c) + 3)
      BY <1>1, <1>5, <2>1, <2>5 DEF Work, Alive, Lag
    <3>2. \A w, b \in Nat : w + (2 * b + 3) < w + (2 * b + 4)
      OBVIOUS
    <3>. QED
      BY <1>4, <2>2, <2>3, <2>5, <3>1, <3>2
  <2>6. CASE p.ec = "ok" /\ readOp'[c] = "pending"
    <3>1. Work(c)' = 6 * (Len(sent[c]) - taken[c]) + 2
      BY <1>1, <1>5, <2>1, <2>6 DEF Work, Alive
    <3>2. \A w, b \in Nat : w + 2 < w + (2 * b + 4)
      OBVIOUS
    <3>. QED
      BY <1>4, <2>2, <2>3, <2>6, <3>1, <3>2
  <2>. QED
    BY <2>1, <2>4, <2>5, <2>6
<1>. QED
  BY <1>8, <1>9
\* The steps of a client and of the machine forget nobody, and give a client
\* that said its last word no more to do.
LEMMA ClientsGoOn ==
  ASSUME TcpInv, GoesOnInv, NEW d \in Clients, Environment(d) \/ Shortage
  PROVE  GoesOnInv' /\ \A c \in Clients : WindsDown(c)
<1>1. /\ UNCHANGED <<received, acceptOp, started, readOp, writeOp, taken, data_,
                     written, queue>>
      /\ \/ \E b \in Bytes : Send(d, b)
         \/ UNCHANGED sent
  BY DEF Environment, Shortage, Connect, Send, StopReading, FinishSending, Reset,
         Turns, clientVars, sessionVars
<1>2. /\ AcceptPackets' = AcceptPackets /\ \A c \in Clients : Own(c)' = Own(c)
  BY <1>1 DEF AcceptPackets, Own
<1>3. Accepting' /\ SessionsGoOn'
  BY <1>1, <1>2 DEF GoesOnInv, Accepting, SessionsGoOn
<1>4. NobodyForgotten'
  <2>1. CASE Connect(d)
    <3>1. Elements(backlog') = Elements(backlog) \cup {d}
      BY <2>1, AppendElements DEF Connect, TcpInv, TcpTypeOK
    <3>2. \A c \in Clients : c # d => client'[c] = client[c]
      BY <2>1 DEF Connect, TcpInv, TcpTypeOK
    <3>. QED
      BY <1>1, <1>2, <1>3, <3>1, <3>2 DEF GoesOnInv, NobodyForgotten
  <2>2. CASE ~Connect(d)
    <3>1. /\ backlog' = backlog
          /\ \A c \in Clients :
               client'[c] \in Present =>
                 client[c] \in Present
      BY <2>2 DEF Environment, Shortage, Send, StopReading, FinishSending, Reset,
                  Turns, clientVars, TcpInv, TcpTypeOK
    <3>. QED
      BY <1>1, <1>2, <1>3, <3>1 DEF GoesOnInv, NobodyForgotten
  <2>. QED
    BY <2>1, <2>2
<1>5. ASSUME NEW c \in Clients, client[c] \in Finished \cup {"gone"}
      PROVE  sent'[c] = sent[c]
  <2>1. ASSUME NEW b \in Bytes, Send(d, b) PROVE sent'[c] = sent[c]
    BY <1>5, <2>1 DEF Send, TcpInv, TcpTypeOK, Finished
  <2>. QED
    BY <1>1, <2>1
<1>6. \A c \in Clients : WindsDown(c)
  BY <1>1, <1>2, <1>5, WorkStays DEF WindsDown
<1>. QED
  BY <1>3, <1>4, <1>6 DEF GoesOnInv

\* Every step forgets nobody and brings ended sessions nearer to their end.
LEMMA GoesOnStep ==
  ASSUME TcpInv, GoesOnInv, TcpNext
  PROVE  GoesOnInv' /\ \A c \in Clients : WindsDown(c)
<1>1. CASE Shortage
  <2>1. CASE Clients # {}
    BY <1>1, <2>1, ClientsGoOn
  <2>2. CASE Clients = {}
    BY <1>1, <2>2 DEF Shortage, GoesOnInv, Accepting, AcceptPackets,
       NobodyForgotten, SessionsGoOn
  <2>. QED
    BY <2>1, <2>2
<1>2. ASSUME NEW c \in Clients, Environment(c)
      PROVE  GoesOnInv' /\ \A d \in Clients : WindsDown(d)
  BY <1>2, ClientsGoOn
<1>3. ASSUME NEW c \in Clients, ReadCompletes(c) \/ WriteCompletes(c)
      PROVE  GoesOnInv' /\ \A d \in Clients : WindsDown(d)
  <2>1. GoesOnInv' /\ \A d \in Clients \ {c} : Own(d)' = Own(d)
    BY <1>3, KernelGoesOn
  <2>2. Work(c)' < Work(c)
    BY <1>3, ReadWindsDown, WriteWindsDown
  <2>3. ASSUME NEW d \in Clients \ {c} PROVE WindsDown(d)
    <3>1. /\ sent'[d] = sent[d] /\ taken'[d] = taken[d] /\ received'[d] = received[d]
          /\ readOp'[d] = readOp[d] /\ writeOp'[d] = writeOp[d]
      BY <1>3 DEF ReadCompletes, WriteCompletes, clientVars, TcpInv, TcpTypeOK
    <3>. QED
      BY <2>1, <3>1, WorkStays DEF WindsDown
  <2>. QED
    BY <2>1, <2>2, <2>3 DEF WindsDown
<1>4. CASE AcceptCompletes
  <2>1. UNCHANGED <<sent, taken, received, readOp, writeOp>>
    BY <1>4 DEF AcceptCompletes, clientVars, sessionVars
  <2>. QED
    BY <1>4, <2>1, AcceptGoesOn, WorkStays DEF WindsDown
<1>5. CASE OnAccept
  <2>1. /\ UNCHANGED <<sent, taken, received, writeOp>>
        /\ \A c \in Clients : started[c] => readOp'[c] = readOp[c]
    <3>1. /\ UNCHANGED <<sent, taken, received, writeOp>>
          /\ \/ readOp' = readOp
             \/ /\ Head(queue).ec = "ok"
                /\ readOp' = [readOp EXCEPT ![Head(queue).of] = "pending"]
      BY <1>5 DEF OnAccept, DoRead, clientVars
    <3>2. Head(queue).ec = "ok" => ~started[Head(queue).of]
      BY <1>5, FirstPacket DEF OnAccept, Completed, PacketOK, AcceptOK
    <3>. QED
      BY <3>1, <3>2 DEF TcpInv, TcpTypeOK
  <2>. QED
    BY <1>5, <2>1, OnAcceptGoesOn, WorkStays DEF WindsDown
<1>6. CASE OnRead \/ OnWrite
  <2>1. PICK c \in Clients :
          /\ Head(queue).of = c /\ Own(c) = {Head(queue)} /\ Own(c)' = {}
          /\ \A d \in Clients \ {c} : /\ Own(d)' = Own(d)
                                      /\ readOp'[d] = readOp[d]
                                      /\ writeOp'[d] = writeOp[d]
    BY <1>6, HandlerGoesOn
  <2>2. Work(c)' < Work(c)
    BY <1>6, <2>1, HandlerWindsDown
  <2>3. UNCHANGED <<sent, taken, received>>
    BY <1>6 DEF OnRead, OnWrite, clientVars
  <2>4. \A d \in Clients \ {c} : WindsDown(d)
    BY <2>1, <2>3, WorkStays DEF WindsDown
  <2>. QED
    BY <1>6, <2>2, <2>4, HandlerGoesOn DEF WindsDown
<1>. QED
  BY <1>1, <1>2, <1>3, <1>4, <1>5, <1>6 DEF TcpNext, Handler

\* Nobody is connected at first, and the acceptor accepts.
LEMMA GoesOnInitially == TcpInit => GoesOnInv
<1>. SUFFICES ASSUME TcpInit PROVE GoesOnInv
  OBVIOUS
<1>. QED
  BY DEF TcpInit, GoesOnInv, Accepting, NobodyForgotten, SessionsGoOn, Present

\* However many accepts failed and sessions ended, the acceptor accepts or is
\* about to, a connected client is served, about to be, or first or later in
\* a backlog that is served, and a session waits for nothing that was lost.
THEOREM NobodyIsForgotten == TcpSafety => []GoesOnInv
<1>1. TcpInv /\ GoesOnInv /\ [TcpNext]_tcpVars => GoesOnInv'
  <2>. SUFFICES ASSUME TcpInv, GoesOnInv, [TcpNext]_tcpVars PROVE GoesOnInv'
    OBVIOUS
  <2>1. CASE TcpNext
    BY <2>1, GoesOnStep
  <2>2. CASE UNCHANGED tcpVars
    BY <2>2 DEF tcpVars, clientVars, sessionVars, GoesOnInv, Accepting, AcceptPackets,
       NobodyForgotten, SessionsGoOn, Own
  <2>. QED
    BY <2>1, <2>2
<1>. QED
  BY <1>1, GoesOnInitially, TcpInvariant, PTL DEF TcpSafety

\* The safety part of SessionsAreReleased: once a client has finished or left,
\* every step of its session leaves it with less to do, down to nothing, when
\* no operation holds it; the others' steps do not set it back.  The one step
\* that need not come is the end of a write to a client that does not read.
THEOREM SessionsWindDown == TcpSafety => [][\A c \in Clients : WindsDown(c)]_tcpVars
<1>1. TcpInv /\ GoesOnInv /\ [TcpNext]_tcpVars => [\A c \in Clients : WindsDown(c)]_tcpVars
  BY GoesOnStep
<1>. QED
  BY <1>1, NobodyIsForgotten, TcpInvariant, PTL DEF TcpSafety

\* A session with something left to do is held by an operation: the work is
\* a natural number, and zero only for a session that is released.
THEOREM WorkIsNatural ==
  TcpSafety => [](\A c \in Clients : Work(c) \in Nat /\ (Work(c) = 0 <=> ~Alive(c)))
<1>1. TcpInv /\ GoesOnInv =>
        \A c \in Clients : Work(c) \in Nat /\ (Work(c) = 0 <=> ~Alive(c))
  <2>. SUFFICES ASSUME TcpInv, GoesOnInv, NEW c \in Clients
                PROVE  Work(c) \in Nat /\ (Work(c) = 0 <=> ~Alive(c))
    OBVIOUS
  <2>1. readOp[c] \in Ops /\ writeOp[c] \in Ops
    BY DEF TcpInv, TcpTypeOK
  <2>2. CASE ~Alive(c) \/ Failed(c)
    BY <2>2 DEF Work
  <2>3. CASE Alive(c) /\ ~Failed(c)
    <3>1. 6 * (Len(sent[c]) - taken[c]) \in Nat
      BY Positions
    <3>2. readOp[c] = "queued" \/ writeOp[c] # "none" => Lag(c) \in Nat
      <4>1. CASE writeOp[c] = "pending"
        BY <4>1, Positions DEF TcpInv, SessionOK, Lag
      <4>2. CASE readOp[c] = "queued" \/ writeOp[c] = "queued"
        <5>1. PICK p \in Own(c) : TRUE
          BY <4>2 DEF GoesOnInv, SessionsGoOn
        <5>2. p \in Packets /\ p.of = c /\ p.ec # "error"
          BY <2>3, <5>1, InQueue DEF Own, Failed, TcpInv
        <5>3. p.ec = "ok" /\ p.bytes \in Nat
          BY <5>2 DEF Packets
        <5>4. ReadOK(p) \/ WriteOK(p)
          BY <5>1, OwnPackets
        <5>. QED
          BY <5>2, <5>3, <5>4, Positions DEF ReadOK, WriteOK, Lag
      <4>. QED
        BY <2>1, <4>1, <4>2 DEF Ops
    <3>3. CASE readOp[c] = "pending"
      BY <2>3, <3>1, <3>3 DEF Work
    <3>4. CASE readOp[c] # "pending"
      <4>1. Lag(c) \in Nat
        BY <2>1, <2>3, <3>2, <3>4 DEF Alive, Ops
      <4>2. \A w, b \in Nat : /\ w + (5 * b + 1) \in Nat \ {0}
                              /\ w + (2 * b + 3) \in Nat \ {0}
                              /\ w + (2 * b + 4) \in Nat \ {0}
        OBVIOUS
      <4>. QED
        BY <2>3, <3>1, <3>4, <4>1, <4>2 DEF Work
    <3>. QED
      BY <3>3, <3>4
  <2>. QED
    BY <2>2, <2>3
<1>. QED
  BY <1>1, NobodyIsForgotten, TcpInvariant, PTL
=============================================================================
