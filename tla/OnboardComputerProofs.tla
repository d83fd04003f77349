------------------------ MODULE OnboardComputerProofs ------------------------
(***************************************************************************)
(* TLAPS proofs about OnboardComputer.  With ProcessMessage as its         *)
(* callback the receive loop is still the one of UdpUnicastReceiver, so    *)
(* that what was proved of the loop holds of the computer; the camera is   *)
(* on after an odd number of camera messages, for any traffic; and what    *)
(* the parser takes from a message of any length is what its last fields   *)
(* say, so that platforms are oriented as they were last told.             *)
(***************************************************************************)
EXTENDS OnboardComputer, UdpUnicastReceiverProofs, LoopTheorems

Handleds == [from : Peers, body : Seq(Chunks)]

\* Every message runs the callback of the receiver exactly once.
LEMMA MessageIsCallback ==
    ASSUME OnMessageReceived
    PROVE  \E throws \in BOOLEAN : InvokeCallback(throws)
BY DEF OnMessageReceived, MessageThrows, MessageSteers, CameraToggles,
   MessageIgnored

\* Whatever ProcessMessage does with a message, the computer takes only steps
\* the receiver may take: the loop of HandleReceive is never left half way.
THEOREM ComputerImplementsReceiver == ComputerSpec => SafetySpec
<1>1. ComputerInit => ReceiverInit
  BY DEF ComputerInit
<1>2. [ComputerNext]_allVars => [Next]_receiverVars
  BY MessageIsCallback DEF ComputerNext, Next, allVars
<1>3. QED
  BY <1>1, <1>2, PTL DEF ComputerSpec, SafetySpec

\* What the loop guarantees, it guarantees under ProcessMessage: peers get
\* their echo whatever the messages steer.
THEOREM ComputerEchoes == ComputerSpec => []EchoFaithful /\ Service!SafetySpec
BY ComputerImplementsReceiver, EchoIsFaithful, ImplementsEchoSafety, PTL

\* ... and so does the argument that answers come: whatever a message steers,
\* each answer comes nearer with every step of the loop, and one is there.
THEOREM ComputerAnswers ==
    ComputerSpec => /\ [][\A i \in Nat : EchoComesNearer(i)]_receiverVars
                    /\ [](\A i \in Nat : Awaited(i) => SomebodyActs)
BY ComputerImplementsReceiver, EchoesComeNearer, AnswersAreUnderWay, PTL
-----------------------------------------------------------------------------
(* The camera.                                                             *)

IsCamera(d) == d.body # NoMessage /\ TypeOfMessage(d.body) = "camera"
Cameras == {i \in 1 .. Len(handled) : IsCamera(handled[i])}

CameraInv ==
    /\ sensorOn \in BOOLEAN
    /\ CameraFitted => (sensorOn <=> Cardinality(Cameras) % 2 = 1)

\* Only finitely many messages were handled.
LEMMA CamerasFinite ==
    ASSUME TypeOK
    PROVE  IsFiniteSet(Cameras) /\ Cardinality(Cameras) \in Nat
           /\ Len(handled) + 1 \notin Cameras
<1>1. Len(handled) \in Nat
  BY LenProperties DEF TypeOK
<1>2. IsFiniteSet(1 .. Len(handled))
  BY <1>1, FS_Interval
<1>3. IsFiniteSet(Cameras)
  BY <1>2, FS_Subset DEF Cameras
<1>4. QED
  BY <1>1, <1>3, FS_CardinalityType DEF Cameras

\* A message that is no camera message leaves the count, and a camera message
\* adds one to it.
LEMMA CamerasAppend ==
    ASSUME TypeOK, Current \in Handleds, handled' = Append(handled, Current)
    PROVE  /\ IsCamera(Current)
                => Cardinality(Cameras') = Cardinality(Cameras) + 1
           /\ ~IsCamera(Current) => Cameras' = Cameras
<1>1. handled \in Seq(Handleds)
  BY DEF TypeOK, Handleds
<1>2. Len(handled) \in Nat
  BY <1>1, LenProperties
<1>3. /\ Len(handled') = Len(handled) + 1
      /\ \A i \in 1 .. Len(handled) : handled'[i] = handled[i]
      /\ handled'[Len(handled) + 1] = Current
  BY <1>1, AppendProperties
<1>4. Cameras' = Cameras \cup (IF IsCamera(Current) THEN {Len(handled) + 1}
                                                   ELSE {})
  <2> HIDE DEF IsCamera, Current
  <2>1. Cameras' = {i \in 1 .. Len(handled) + 1 : IsCamera(handled'[i])}
    BY <1>3 DEF Cameras, IsCamera
  <2>2. \A i \in 1 .. Len(handled) : IsCamera(handled'[i]) <=> IsCamera(handled[i])
    BY <1>3
  <2>3. QED
    BY <1>2, <1>3, <2>1, <2>2 DEF Cameras
<1>5. QED
  BY <1>4, CamerasFinite, FS_AddElement

\* At the callback the buffer holds a message, and the callback is installed.
LEMMA CallbackAppends ==
    ASSUME ReceiverInv, NEW throws \in BOOLEAN, InvokeCallback(throws)
    PROVE  Current \in Handleds /\ handled' = Append(handled, Current)
<1>1. Current \in Handleds
  BY CurrentType DEF ReceiverInv, InvokeCallback, Handleds
<1>2. mReceivedCallback
  BY DEF ReceiverInv, Control, SetupOrder, InvokeCallback
<1>3. QED
  BY <1>1, <1>2 DEF InvokeCallback

\* Only a camera message that finds the camera switches it.
LEMMA StepCamera ==
    ASSUME ReceiverInv, CameraInv, [ComputerNext]_allVars
    PROVE  CameraInv'
<1> USE DEF computerVars
<1>1. TypeOK
  BY DEF ReceiverInv
<1>2. CASE sensorOn' = sensorOn /\ handled' = handled
  BY <1>2 DEF CameraInv, Cameras
<1>3. ASSUME sensorOn' = sensorOn, CameraFitted => ~IsCamera(Current),
             NEW throws \in BOOLEAN, InvokeCallback(throws)
      PROVE  CameraInv'
  <2>1. CameraFitted => Cameras' = Cameras
    BY <1>1, <1>3, CallbackAppends, CamerasAppend
  <2>2. QED
    BY <1>3, <2>1 DEF CameraInv
<1>4. CASE UNCHANGED allVars
  BY <1>2, <1>4 DEF allVars, receiverVars
<1>5. CASE /\ Initialize \/ Network \/ Kernel \/ ReceiveFails \/ IoSteps
           /\ UNCHANGED computerVars
  BY <1>2, <1>5
  DEF Initialize, Construct, ConstructThrows, SetReceivedCallback, StartThread,
      Network, PeerSend, PeerClose, Kernel, KernelDelivers, KernelRefuses,
      ReceiveFails, IoSteps, Run, HandleReceive, HandleReceiveError, Echo,
      EchoThrows, Rearm, Finish, history
<1>6. CASE MessageThrows
  <2>1. ~IsCamera(Current)
    BY <1>6 DEF MessageThrows, MayThrow, MustThrow, Steers, IsCamera, Current
  <2>2. QED
    BY <1>3, <1>6, <2>1 DEF MessageThrows
<1>7. CASE MessageSteers
  <2>1. ~IsCamera(Current)
    BY <1>7 DEF MessageSteers, Steers, IsCamera, Current
  <2>2. QED
    BY <1>3, <1>7, <2>1 DEF MessageSteers
<1>8. CASE MessageIgnored
  <2>1. CameraFitted => ~IsCamera(Current)
    BY <1>8 DEF MessageIgnored, Steers, IsCamera, Current
  <2>2. QED
    BY <1>3, <1>8, <2>1 DEF MessageIgnored
<1>9. CASE CameraToggles
  <2>1. IsCamera(Current)
    BY <1>9 DEF CameraToggles, MustThrow, IsCamera, Current, NoMessage
  <2>2. Cardinality(Cameras') = Cardinality(Cameras) + 1
    BY <1>1, <1>9, <2>1, CallbackAppends, CamerasAppend DEF CameraToggles
  <2>3. Cardinality(Cameras) \in Nat
    BY <1>1, CamerasFinite
  <2>4. Cardinality(Cameras') % 2 = 1 <=> ~(Cardinality(Cameras) % 2 = 1)
    BY <2>2, <2>3
  <2>5. CameraFitted /\ sensorOn' = ~sensorOn
    BY <1>9 DEF CameraToggles, Switched
  <2>6. QED
    BY <2>4, <2>5 DEF CameraInv
<1>10. QED
  BY <1>4, <1>5, <1>6, <1>7, <1>8, <1>9 DEF ComputerNext, OnMessageReceived

\* The camera is on exactly after an odd number of camera messages, for any
\* messages in between and any interleaving of peers and kernel.
THEOREM CameraParity == ComputerSpec => []CameraFollowsParity
<1>1. ComputerInit => CameraInv
  <2> SUFFICES ASSUME ComputerInit PROVE CameraInv
    OBVIOUS
  <2>1. Len(handled) = 0 /\ sensorOn = FALSE
    BY EmptySeq DEF ComputerInit, ReceiverInit
  <2>2. Cameras = {}
    BY <2>1 DEF Cameras
  <2>3. Cardinality(Cameras) = 0
    BY <2>2, FS_EmptySet
  <2>4. ~(Cardinality(Cameras) % 2 = 1)
    BY <2>3
  <2>5. sensorOn \in BOOLEAN /\ ~sensorOn
    BY <2>1
  <2>6. QED
    BY <2>4, <2>5 DEF CameraInv
<1>2. ComputerSpec => []ReceiverInv
  BY ComputerImplementsReceiver, ReceiverInvariant, PTL
<1>3. ReceiverInv /\ CameraInv /\ [ComputerNext]_allVars => CameraInv'
  BY StepCamera
<1>4. CameraInv => CameraFollowsParity
  BY DEF CameraInv, CameraFollowsParity, Cameras, IsCamera, Handled
<1>5. QED
  BY <1>1, <1>2, <1>3, <1>4, PTL DEF ComputerSpec
-----------------------------------------------------------------------------
(* Parsing.  What the loop over the fields returns is said of every body   *)
(* by induction over the tokens read: after token k, the last fields that  *)
(* start at or before k.                                                   *)

Angles == [n : Int, unit : {"rad", "degrees"}]
Values == {t \in Tokens : t.is # "key"} \cup {NoValue}
Readings == [throws : BOOLEAN, undefined : BOOLEAN,
             angles : [Axes -> Angles], threadIds : SUBSET Int]

NamedTo(body, key, k) == {i \in Starts(body) : i <= k /\ body[i].word = key}
LastTo(body, key, k) ==
    IF NamedTo(body, key, k) = {} THEN NoValue
                                  ELSE FieldAt(body, Max(NamedTo(body, key, k))).val

\* What the first k tokens of a message say.
ReadTo(body, k, parsed) ==
    /\ parsed.throws <=> \E i \in Starts(body) : i <= k /\ FieldThrows(FieldAt(body, i))
    /\ ~parsed.throws =>
         /\ \A axis \in Axes :
              parsed.angles[axis] = Angle(LastTo(body, axis, k).n,
                                          UnitOf(TypeOfMessage(body), axis))
         /\ parsed.threadIds = IF NamedTo(body, "thread", k) = {} THEN {0}
                               ELSE ParseThread(LastTo(body, "thread", k))
         /\ parsed.undefined <=> \E i \in NamedTo(body, "thread", k) :
                                    FieldAt(body, i).val.is = "none"

\* The greatest of a non-empty set of positions.
LEMMA MaxOfPositions ==
    ASSUME NEW n \in Int, NEW S, S \subseteq 0 .. n, S # {}
    PROVE  Max(S) \in S /\ \A j \in S : j <= Max(S)
<1>1. PICK k \in S : \A j \in S : j <= k
  BY GreatestPosition
<1>2. \A j \in S : k >= j
  BY <1>1
<1>3. QED
  BY <1>2 DEF Max

\* A token is a key, a word or a number, and only a number is not 0.
LEMMA FieldType ==
    ASSUME NEW body \in Seq(Chunks), NEW i \in 1 .. Len(body)
    PROVE  /\ FieldAt(body, i).val \in Values
           /\ FieldAt(body, i).key = body[i].word
<1>1. \A j \in 1 .. Len(body) : body[j] \in Tokens
  BY ElementOfSeq, ComputerAssumption
<1>2. Len(body) \in Nat
  BY LenProperties
<1>3. CASE i < Len(body) /\ body[i + 1].is # "key"
  <2>1. i + 1 \in 1 .. Len(body)
    BY <1>2, <1>3
  <2>2. body[i + 1] \in Values
    BY <1>1, <1>3, <2>1 DEF Values
  <2>3. QED
    BY <1>3, <2>2 DEF FieldAt
<1>4. QED
  BY <1>3 DEF FieldAt, Values

\* The values of a field.
LEMMA ValueType ==
    ASSUME NEW v \in Values
    PROVE  /\ v.is \in {"word", "number", "none"} /\ v.n \in Int
           /\ v.is # "number" => v.n = 0
           /\ v.is = "none" <=> v = NoValue
<1>1. NoValue.is = "none" /\ NoValue.n = 0
  BY DEF NoValue
<1>2. ASSUME v \in Tokens, v.is # "key"
      PROVE  v.is \in {"word", "number"} /\ v.n \in Int /\ (v.is = "word" => v.n = 0)
  <2>1. CASE v \in [is : {"key", "word"}, word : STRING, n : {0}]
    BY <1>2, <2>1
  <2>2. CASE v \in [is : {"number"}, word : {""}, n : Int]
    BY <2>2
  <2>3. QED
    BY <1>2, <2>1, <2>2 DEF Tokens
<1>3. QED
  BY <1>1, <1>2 DEF Values

\* Parsing a field gives a reading.
LEMMA ParseFieldType ==
    ASSUME NEW type, NEW parsed \in Readings, NEW body \in Seq(Chunks),
           NEW i \in 1 .. Len(body)
    PROVE  ParseField(type, parsed, FieldAt(body, i)) \in Readings
<1> DEFINE field == FieldAt(body, i)
<1>1. field.val \in Values
  BY FieldType
<1>2. ASSUME NEW axis PROVE Angle(field.val.n, UnitOf(type, axis)) \in Angles
  BY <1>1, ValueType DEF Angle, UnitOf, Angles
<1>3. ParseThread(field.val) \in SUBSET Int
  BY <1>1, ValueType, ComputerAssumption DEF ParseThread
<1> HIDE DEF field
<1>4. CASE field.key \in Axes
  <2>1. [parsed EXCEPT !.angles[field.key] =
            Angle(field.val.n, UnitOf(type, field.key))] \in Readings
    BY <1>2, <1>4 DEF Readings
  <2>2. [parsed EXCEPT !.throws = TRUE] \in Readings
    BY DEF Readings
  <2>3. QED
    BY <1>4, <2>1, <2>2 DEF ParseField, field
<1>5. CASE field.key \notin Axes
  <2>1. [parsed EXCEPT !.threadIds = ParseThread(field.val),
                       !.undefined = @ \/ field.val.is = "none"] \in Readings
    BY <1>3 DEF Readings
  <2>2. [parsed EXCEPT !.throws = TRUE] \in Readings
    BY DEF Readings
  <2>3. QED
    BY <1>5, <2>1, <2>2 DEF ParseField, field
<1>6. QED
  BY <1>4, <1>5 DEF field

\* What the loop starts with is a reading: level, thread 0, nothing thrown.
LEMMA UnparsedType == Unparsed \in Readings
BY DEF Unparsed, Readings, Level, Zero, Angle, Angles

\* The loop is well defined: it starts unparsed and takes one pass per field.
LEMMA LoopDefined ==
    ASSUME NEW body \in Seq(Chunks)
    PROVE  /\ ParseLoop(body) \in [0 .. Len(body) -> Readings]
           /\ ParseLoop(body)[0] = Unparsed
           /\ \A k \in 1 .. Len(body) :
                ParseLoop(body)[k] =
                  IF k \in Starts(body)
                    THEN ParseField(TypeOfMessage(body), ParseLoop(body)[k - 1],
                                    FieldAt(body, k))
                    ELSE ParseLoop(body)[k - 1]
<1> DEFINE type == TypeOfMessage(body)
           n == Len(body)
           Pass(k, s) == IF k \in Starts(body)
                           THEN ParseField(type, s, FieldAt(body, k)) ELSE s
           pass == [ks \in (1 .. n) \X Readings |-> Pass(ks[1], ks[2])]
           Loop(run) == run = [k \in 0 .. n |-> IF k = 0 THEN Unparsed
                                                ELSE Pass(k, run[k - 1])]
<1>1. n \in Nat
  BY LenProperties
<1>2. \A k \in 1 .. n, s \in Readings : Pass(k, s) \in Readings
  BY ParseFieldType
<1>3. /\ pass \in [(1 .. n) \X Readings -> Readings]
      /\ \A k \in 1 .. n, s \in Readings : pass[<<k, s>>] = Pass(k, s)
  <2> HIDE DEF Pass
  <2>1. QED
    BY <1>2
<1> HIDE DEF pass, type
<1>4. PICK run : LoopRun(run, n, Readings, Unparsed, pass)
  <2> HIDE DEF n
  <2>1. Unparsed \in Readings /\ pass \in [(1 .. n) \X Readings -> Readings]
    BY <1>3, UnparsedType
  <2>2. QED
    BY <1>1, <2>1, LoopRuns
<1>5. Loop(run)
  <2> USE DEF LoopRun
  <2> HIDE DEF Pass, n
  <2>1. ASSUME NEW k \in 1 .. n PROVE run[k] = Pass(k, run[k - 1])
    <3>1. k - 1 \in 0 .. n
      BY <1>1
    <3>2. run[k - 1] \in Readings
      BY <1>4, <3>1
    <3>3. QED
      BY <1>3, <1>4, <3>2
  <2>2. \A k \in 0 .. n : run[k] = IF k = 0 THEN Unparsed ELSE Pass(k, run[k - 1])
    BY <1>1, <1>4, <2>1
  <2>3. QED
    BY <1>4, <2>2
<1>6. ParseLoop(body) = CHOOSE loop : Loop(loop)
  BY DEF ParseLoop, type
<1>7. Loop(ParseLoop(body))
  <2> HIDE DEF Loop
  <2>1. QED
    BY <1>5, <1>6
<1> DEFINE loop == ParseLoop(body)
<1>8. /\ DOMAIN loop = 0 .. n /\ loop[0] = Unparsed
      /\ \A k \in 1 .. n : loop[k] = Pass(k, loop[k - 1])
  <2> HIDE DEF loop, Pass, n
  <2>1. loop = [k \in 0 .. n |-> IF k = 0 THEN Unparsed ELSE Pass(k, loop[k - 1])]
    BY <1>7 DEF loop
  <2>2. QED
    BY <1>1, <2>1
<1>9. \A k \in 0 .. n : loop[k] \in Readings
  <2> DEFINE P == {k \in 0 .. n : loop[k] \in Readings}
  <2> HIDE DEF Pass, n, loop
  <2>1. 0 \in P
    BY <1>1, <1>8, UnparsedType
  <2>2. \A k \in 1 .. n : k - 1 \in P => k \in P
    BY <1>1, <1>2, <1>8
  <2> HIDE DEF P
  <2>3. 0 .. n \subseteq P
    BY <1>1, <2>1, <2>2, LoopInduction
  <2>4. QED
    BY <2>3 DEF P
<1>10. loop \in [0 .. n -> Readings]
  <2> HIDE DEF n, loop
  <2>1. loop = [k \in DOMAIN loop |-> loop[k]]
    BY <1>7 DEF loop, n
  <2>2. QED
    BY <1>8, <1>9, <2>1
<1>11. QED
  BY <1>8, <1>10 DEF type
\* Up to the next token the last field of a name is the one before, unless
\* that token starts a field of the name: then it is that field.
LEMMA LastToNext ==
    ASSUME NEW body \in Seq(Chunks), NEW key, NEW k \in 1 .. Len(body)
    PROVE  /\ k \in Starts(body) /\ body[k].word = key
                => /\ NamedTo(body, key, k) = NamedTo(body, key, k - 1) \cup {k}
                   /\ LastTo(body, key, k) = FieldAt(body, k).val
           /\ ~(k \in Starts(body) /\ body[k].word = key)
                => /\ NamedTo(body, key, k) = NamedTo(body, key, k - 1)
                   /\ LastTo(body, key, k) = LastTo(body, key, k - 1)
<1>1. Len(body) \in Nat
  BY LenProperties
<1>2. \A i \in Starts(body) : i \in Int /\ (i <= k <=> i <= k - 1 \/ i = k)
  BY <1>1 DEF Starts
<1>3. CASE k \in Starts(body) /\ body[k].word = key
  <2>1. NamedTo(body, key, k) = NamedTo(body, key, k - 1) \cup {k}
    BY <1>2, <1>3 DEF NamedTo
  <2> DEFINE S == NamedTo(body, key, k)
  <2>2. S \subseteq 0 .. k /\ k \in S
    BY <1>1, <2>1 DEF NamedTo, Starts
  <2>3. Max(S) \in S /\ k <= Max(S) /\ k \in Int
    <3>1. k \in Int /\ S # {}
      BY <1>1, <2>2
    <3> HIDE DEF S
    <3>2. Max(S) \in S /\ \A j \in S : j <= Max(S)
      BY <2>2, <3>1, MaxOfPositions
    <3>3. QED
      BY <2>2, <3>1, <3>2
  <2>4. Max(S) = k
    BY <2>2, <2>3
  <2>5. QED
    BY <1>3, <2>1, <2>2, <2>4 DEF LastTo
<1>4. CASE ~(k \in Starts(body) /\ body[k].word = key)
  <2>1. NamedTo(body, key, k) = NamedTo(body, key, k - 1)
    BY <1>1, <1>2, <1>4 DEF NamedTo
  <2>2. QED
    BY <1>4, <2>1 DEF LastTo
<1>5. QED
  BY <1>3, <1>4

\* The loop reads what the tokens so far say.
LEMMA LoopReads ==
    ASSUME NEW body \in Seq(Chunks)
    PROVE  \A k \in 0 .. Len(body) : ReadTo(body, k, ParseLoop(body)[k])
<1> DEFINE n == Len(body)
           loop == ParseLoop(body)
           type == TypeOfMessage(body)
           P == {k \in 0 .. n : ReadTo(body, k, loop[k])}
<1>1. n \in Nat
  BY LenProperties
<1>2. /\ loop \in [0 .. n -> Readings] /\ loop[0] = Unparsed
      /\ \A k \in 1 .. n :
           loop[k] = IF k \in Starts(body)
                       THEN ParseField(type, loop[k - 1], FieldAt(body, k))
                       ELSE loop[k - 1]
  BY LoopDefined
<1> HIDE DEF loop
<1>3. 0 \in P
  <2>1. \A i \in Starts(body) : ~(i <= 0)
    BY <1>1 DEF Starts
  <2>2. \A key : NamedTo(body, key, 0) = {} /\ LastTo(body, key, 0) = NoValue
    BY <2>1 DEF NamedTo, LastTo
  <2>3. NoValue.n = 0
    BY DEF NoValue
  <2>4. /\ ~Unparsed.throws /\ ~Unparsed.undefined /\ Unparsed.threadIds = {0}
        /\ \A axis \in Axes : Unparsed.angles[axis] = Zero
    BY DEF Unparsed, Level
  <2>5. \A unit : Angle(0, unit) = Zero
    BY DEF Angle, Zero
  <2> DEFINE start == Unparsed
  <2>6. ReadTo(body, 0, start)
    <3> HIDE DEF start
    <3>1. /\ ~start.throws /\ ~start.undefined /\ start.threadIds = {0}
          /\ \A axis \in Axes : start.angles[axis] = Zero
      BY <2>4 DEF start
    <3>2. QED
      BY <2>1, <2>2, <2>3, <2>5, <3>1 DEF ReadTo
  <2>7. QED
    BY <1>1, <1>2, <2>6
<1>4. ASSUME NEW k \in 1 .. n, k - 1 \in P PROVE k \in P
  <2> DEFINE old == loop[k - 1]
             new == loop[k]
             field == FieldAt(body, k)
             Threw(m) == \E i \in Starts(body) : i <= m /\ FieldThrows(FieldAt(body, i))
  <2>1. old \in Readings /\ ReadTo(body, k - 1, old) /\ k \in 0 .. n
    BY <1>1, <1>2, <1>4
  <2>2. field.key = body[k].word
    BY FieldType
  <2>3. \A i \in Starts(body) : i \in Int /\ (i <= k <=> i <= k - 1 \/ i = k)
    BY <1>1 DEF Starts
  <2>4. \A key : k \notin Starts(body) \/ body[k].word # key
                   => /\ NamedTo(body, key, k) = NamedTo(body, key, k - 1)
                      /\ LastTo(body, key, k) = LastTo(body, key, k - 1)
    BY LastToNext
  <2>5. CASE k \notin Starts(body)
    <3>1. new = old
      BY <1>2, <2>5
    <3>2. Threw(k) <=> Threw(k - 1)
      BY <2>3, <2>5
    <3>3. QED
      <4> HIDE DEF old, new
      <4>1. ReadTo(body, k, new)
        BY <2>1, <2>4, <2>5, <3>1, <3>2 DEF ReadTo
      <4>2. QED
        BY <2>1, <4>1 DEF new
  <2> SUFFICES ASSUME k \in Starts(body) PROVE k \in P
    BY <2>5
  <2>6. new = ParseField(type, old, field)
    BY <1>2
  <2>7. Threw(k) <=> Threw(k - 1) \/ FieldThrows(field)
    BY <2>3
  <2>8. \A key : field.key = key
                    => /\ NamedTo(body, key, k) = NamedTo(body, key, k - 1) \cup {k}
                       /\ LastTo(body, key, k) = field.val
    <3> HIDE DEF field
    <3>1. SUFFICES ASSUME NEW key, field.key = key
                   PROVE  /\ NamedTo(body, key, k) = NamedTo(body, key, k - 1) \cup {k}
                          /\ LastTo(body, key, k) = field.val
      OBVIOUS
    <3>2. k \in Starts(body) /\ body[k].word = key
      BY <2>2, <3>1
    <3>3. QED
      BY <3>2, LastToNext DEF field
  <2> HIDE DEF old, new, field
  <2>9. CASE old.throws \/ FieldThrows(field)
    <3>1. new.throws
      BY <2>1, <2>6, <2>9 DEF ParseField, Readings
    <3>2. Threw(k)
      BY <2>1, <2>7, <2>9 DEF ReadTo
    <3>3. ReadTo(body, k, new)
      BY <3>1, <3>2 DEF ReadTo
    <3>4. QED
      BY <2>1, <3>3 DEF new
  <2> SUFFICES ASSUME ~old.throws, ~FieldThrows(field) PROVE k \in P
    BY <2>9
  <2>10. ~Threw(k)
    BY <2>1, <2>7 DEF ReadTo
  <2>11. CASE field.key \in Axes
    <3>1. new = [old EXCEPT !.angles[field.key] =
                      Angle(field.val.n, UnitOf(type, field.key))]
      BY <2>6, <2>11 DEF ParseField
    <3>2. /\ new.throws = old.throws /\ new.undefined = old.undefined
          /\ new.threadIds = old.threadIds
          /\ new.angles[field.key] = Angle(field.val.n, UnitOf(type, field.key))
          /\ \A axis \in Axes : axis # field.key => new.angles[axis] = old.angles[axis]
      BY <2>1, <2>11, <3>1 DEF Readings
    <3>3. LastTo(body, field.key, k) = field.val
      BY <2>8
    <3>4. "thread" # field.key
      BY <2>11 DEF Axes
    <3>5. ASSUME NEW axis \in Axes
          PROVE  new.angles[axis] = Angle(LastTo(body, axis, k).n, UnitOf(type, axis))
      <4>1. CASE axis = field.key
        BY <3>2, <3>3, <4>1
      <4>2. CASE axis # field.key
        BY <2>1, <2>2, <2>4, <3>2, <4>2 DEF ReadTo
      <4>3. QED
        BY <4>1, <4>2
    <3>6. ReadTo(body, k, new)
      BY <2>1, <2>2, <2>4, <2>10, <3>2, <3>4, <3>5 DEF ReadTo
    <3>7. QED
      BY <2>1, <3>6 DEF new
  <2>12. CASE field.key = "thread"
    <3>1. field.key \notin Axes
      BY <2>12 DEF Axes
    <3>2. new = [old EXCEPT !.threadIds = ParseThread(field.val),
                            !.undefined = @ \/ field.val.is = "none"]
      BY <2>6, <2>12, <3>1 DEF ParseField
    <3>3. /\ new.throws = old.throws /\ new.angles = old.angles
          /\ new.undefined = (old.undefined \/ field.val.is = "none")
          /\ new.threadIds = ParseThread(field.val)
      BY <2>1, <3>2 DEF Readings
    <3>4. /\ NamedTo(body, "thread", k) = NamedTo(body, "thread", k - 1) \cup {k}
          /\ LastTo(body, "thread", k) = field.val
      BY <2>12, <2>8
    <3>5. \A axis \in Axes : LastTo(body, axis, k) = LastTo(body, axis, k - 1)
      BY <2>2, <2>4, <3>1
    <3>6. ReadTo(body, k, new)
      BY <2>1, <2>10, <3>3, <3>4, <3>5 DEF ReadTo, field
    <3>7. QED
      BY <2>1, <3>6 DEF new
  <2>13. CASE field.key \notin Axes /\ field.key # "thread"
    <3>1. new = old
      BY <2>6, <2>13 DEF ParseField
    <3>2. ReadTo(body, k, new)
      BY <2>1, <2>2, <2>4, <2>10, <2>13, <3>1 DEF ReadTo
    <3>3. QED
      BY <2>1, <3>2 DEF new
  <2>14. QED
    BY <2>11, <2>12, <2>13
<1>5. QED
  <2> HIDE DEF P, n
  <2>1. 0 .. n \subseteq P
    BY <1>1, <1>3, <1>4, LoopInduction
  <2>2. QED
    BY <2>1 DEF P, n, loop
\* Up to the end of the message the last field is the last field.
LEMMA LastToEnd ==
    ASSUME NEW body \in Seq(Chunks), NEW key
    PROVE  /\ LastTo(body, key, Len(body)) = LastField(body, key)
           /\ NamedTo(body, key, Len(body)) =
                {i \in Starts(body) : FieldAt(body, i).key = key}
<1>1. Len(body) \in Nat
  BY LenProperties
<1>2. \A i \in Starts(body) : i <= Len(body) /\ FieldAt(body, i).key = body[i].word
  BY <1>1 DEF Starts, FieldAt
<1>3. NamedTo(body, key, Len(body)) =
        {i \in Starts(body) : FieldAt(body, i).key = key}
  BY <1>2 DEF NamedTo
<1>4. QED
  BY <1>3 DEF LastTo, LastField

\* What ProcessMessage takes from any message, well-formed or not: it throws
\* exactly when some field does, and otherwise has the last angle given for
\* each axis, whatever came before it, and reads past the end of the vector
\* exactly when some thread field has no value.
THEOREM ParsesLastFields ==
    ASSUME NEW body \in Seq(Chunks)
    PROVE  /\ Parsed(body) \in Readings
           /\ Parsed(body).throws <=>
                \E i \in Starts(body) : FieldThrows(FieldAt(body, i))
           /\ ~Parsed(body).throws =>
                /\ Parsed(body).angles = Says(body)
                /\ Parsed(body).undefined <=>
                     \E i \in Starts(body) :
                       FieldAt(body, i).key = "thread"
                       /\ FieldAt(body, i).val.is = "none"
                /\ Parsed(body).threadIds =
                     IF \E i \in Starts(body) : FieldAt(body, i).key = "thread"
                       THEN ParseThread(LastField(body, "thread")) ELSE {0}
<1> DEFINE parsed == Parsed(body)
           n == Len(body)
<1>1. n \in Nat /\ n \in 0 .. n
  BY LenProperties
<1>2. parsed \in Readings
  BY <1>1, LoopDefined DEF Parsed
<1>3. ReadTo(body, n, parsed)
  BY <1>1, LoopReads DEF Parsed
<1>4. \A i \in Starts(body) : i <= n
  BY <1>1 DEF Starts
<1> HIDE DEF parsed, n
<1>5. \A key : /\ LastTo(body, key, n) = LastField(body, key)
               /\ NamedTo(body, key, n) =
                    {i \in Starts(body) : FieldAt(body, i).key = key}
  BY LastToEnd DEF n
<1>6. parsed.throws <=> \E i \in Starts(body) : FieldThrows(FieldAt(body, i))
  BY <1>3, <1>4 DEF ReadTo
<1>7. ASSUME ~parsed.throws
      PROVE  /\ parsed.angles = Says(body)
             /\ parsed.undefined <=>
                  \E i \in Starts(body) :
                    FieldAt(body, i).key = "thread"
                    /\ FieldAt(body, i).val.is = "none"
             /\ parsed.threadIds =
                  IF \E i \in Starts(body) : FieldAt(body, i).key = "thread"
                    THEN ParseThread(LastField(body, "thread")) ELSE {0}
  <2>1. \A axis \in Axes : parsed.angles[axis] =
          Angle(LastField(body, axis).n, UnitOf(TypeOfMessage(body), axis))
    BY <1>3, <1>5, <1>7 DEF ReadTo
  <2>2. parsed.angles = [axis \in Axes |-> parsed.angles[axis]]
    BY <1>2 DEF Readings
  <2>3. parsed.angles = Says(body)
    BY <2>1, <2>2 DEF Says
  <2>4. parsed.undefined <=> \E i \in NamedTo(body, "thread", n) :
                               FieldAt(body, i).val.is = "none"
    BY <1>3, <1>7 DEF ReadTo
  <2>5. parsed.threadIds = IF NamedTo(body, "thread", n) = {} THEN {0}
                           ELSE ParseThread(LastTo(body, "thread", n))
    BY <1>3, <1>7 DEF ReadTo
  <2>6. QED
    BY <1>5, <2>3, <2>4, <2>5
<1>8. QED
  BY <1>2, <1>6, <1>7 DEF parsed

\* The last field of a name has a value of its type.
LEMMA LastFieldType ==
    ASSUME NEW body \in Seq(Chunks), NEW key
    PROVE  /\ LastField(body, key) \in Values
           /\ \/ LastField(body, key) = NoValue
                 /\ \A i \in Starts(body) : FieldAt(body, i).key # key
              \/ \E i \in Starts(body) : /\ FieldAt(body, i).key = key
                                         /\ LastField(body, key) = FieldAt(body, i).val
<1> DEFINE named == {i \in Starts(body) : FieldAt(body, i).key = key}
<1>1. Len(body) \in Nat
  BY LenProperties
<1>2. CASE named = {}
  BY <1>2 DEF LastField, Values
<1>3. CASE named # {}
  <2>1. named \subseteq 0 .. Len(body) /\ Len(body) \in Int
    BY <1>1 DEF Starts
  <2>2. Max(named) \in named
    <3> HIDE DEF named
    <3>1. QED
      BY <1>3, <2>1, MaxOfPositions
  <2>3. LastField(body, key) = FieldAt(body, Max(named)).val
    BY <1>3 DEF LastField
  <2>4. Max(named) \in 1 .. Len(body)
    BY <1>1, <2>2 DEF Starts
  <2>5. QED
    BY <2>2, <2>3, <2>4, FieldType
<1>4. QED
  BY <1>2, <1>3

\* A well-formed steering message does not throw, addresses one platform and
\* has one meaning, which is what it says.
THEOREM WellFormedMeansOneThing ==
    ASSUME NEW body \in Seq(Chunks), WellFormed(body)
    PROVE  /\ ~MayThrow(body)
           /\ Steers(body) =>
                /\ Parsed(body).angles = Says(body)
                /\ Targets(body) = {PlatformName(TypeOfMessage(body),
                                                 LastField(body, "thread").n)}
<1>1. ASSUME Steers(body)
      PROVE  /\ ~Parsed(body).throws /\ ~Parsed(body).undefined
             /\ Parsed(body).threadIds = {LastField(body, "thread").n}
  <2>1. \A i \in Starts(body) : /\ ~FieldThrows(FieldAt(body, i))
                                /\ FieldAt(body, i).key = "thread"
                                     => FieldAt(body, i).val # NoValue
    BY <1>1 DEF WellFormed, FieldThrows
  <2>2. ~Parsed(body).throws
    BY <2>1, ParsesLastFields
  <2>3. \A i \in Starts(body) :
          FieldAt(body, i).val \in Values
    BY LenProperties, FieldType DEF Starts
  <2>4. ~Parsed(body).undefined
    BY <2>1, <2>2, <2>3, ValueType, ParsesLastFields
  <2> DEFINE given == \E i \in Starts(body) : FieldAt(body, i).key = "thread"
             last == LastField(body, "thread")
  <2>5. Parsed(body).threadIds = IF given THEN ParseThread(last) ELSE {0}
    BY <2>2, ParsesLastFields
  <2>6. /\ last \in Values
        /\ ~given => last = NoValue
        /\ given => last # NoValue
    BY <2>1, LastFieldType
  <2> HIDE DEF given, last
  <2>7. Parsed(body).threadIds = {last.n}
    <3>1. CASE given
      <4>1. last.is \in {"word", "number"} /\ (last.is = "word" => last.n = 0)
        BY <2>6, <3>1, ValueType
      <4>2. ParseThread(last) = {last.n}
        BY <4>1 DEF ParseThread
      <4>3. QED
        BY <2>5, <3>1, <4>2
    <3>2. CASE ~given
      <4>1. last.n = NoValue.n /\ NoValue.n = 0
        BY <2>6, <3>2 DEF NoValue
      <4>2. QED
        BY <2>5, <3>2, <4>1
    <3>3. QED
      BY <3>1, <3>2
  <2>8. QED
    BY <2>2, <2>4, <2>7 DEF last
<1>2. QED
  BY <1>1, ParsesLastFields DEF MayThrow, MustThrow, WellFormed, Targets
-----------------------------------------------------------------------------
(* Steering: what the messages handled so far have done to the platforms.  *)

\* ProcessMessage returns to the loop or ends the process.
LEMMA CallbackEnds ==
    ASSUME ReceiverInv, NEW throws \in BOOLEAN, InvokeCallback(throws)
    PROVE  io' = IF throws THEN "callbackThrew" ELSE "echo"
BY DEF ReceiverInv, Control, SetupOrder, InvokeCallback

\* Outside ProcessMessage nothing is handled, and the process does not end
\* with an exception of the callback.
LEMMA OtherSteps ==
    ASSUME ReceiverInv,
           \/ /\ Initialize \/ Network \/ Kernel \/ ReceiveFails \/ IoSteps
              /\ UNCHANGED computerVars
           \/ UNCHANGED allVars
    PROVE  /\ UNCHANGED <<handled, orientation, sensorOn, realtime>>
           /\ io' = "callbackThrew" => io = "callbackThrew"
<1>1. CASE UNCHANGED allVars
  BY <1>1 DEF allVars, receiverVars, computerVars
<1>2. CASE /\ Initialize \/ Network \/ Kernel \/ ReceiveFails \/ IoSteps
           /\ UNCHANGED computerVars
  BY <1>2
  DEF computerVars, Initialize, Construct, ConstructThrows, SetReceivedCallback,
      StartThread, Network, PeerSend, PeerClose, Kernel, KernelDelivers,
      KernelRefuses, ReceiveFails, IoSteps, Run, HandleReceive,
      HandleReceiveError, Echo, EchoThrows, Rearm, Finish, history
<1>3. QED
  BY <1>1, <1>2

\* A message is added to those handled and leaves them as they were.
LEMMA HandledAppend ==
    ASSUME ReceiverInv, NEW throws \in BOOLEAN, InvokeCallback(throws)
    PROVE  /\ mRecvbuffer \in Seq(Chunks)
           /\ Len(handled) \in Nat /\ Len(handled') = Len(handled) + 1
           /\ \A i \in 1 .. Len(handled) : Handled(i)' = Handled(i)
           /\ handled'[Len(handled) + 1].body = mRecvbuffer
           /\ OnlyWellFormed' <=> OnlyWellFormed /\ WellFormed(mRecvbuffer)
<1>1. /\ Current \in Handleds /\ handled' = Append(handled, Current)
      /\ handled \in Seq(Handleds)
  BY CallbackAppends DEF ReceiverInv, TypeOK, Handleds
<1>2. Current.body = mRecvbuffer /\ mRecvbuffer \in Seq(Chunks)
  BY <1>1 DEF Current, Handleds
<1>3. Len(handled) \in Nat
  BY <1>1, LenProperties
<1>4. /\ Len(handled') = Len(handled) + 1
      /\ \A i \in 1 .. Len(handled) : handled'[i] = handled[i]
      /\ handled'[Len(handled) + 1] = Current
  <2> HIDE DEF Current
  <2>1. QED
    BY <1>1, AppendProperties
<1>5. \A i \in 1 .. Len(handled) : Handled(i)' = Handled(i)
  BY <1>4 DEF Handled
<1>6. handled'[Len(handled) + 1].body = mRecvbuffer
  BY <1>2, <1>4
<1>7. 1 .. Len(handled') = (1 .. Len(handled)) \cup {Len(handled) + 1}
  BY <1>3, <1>4
<1>8. OnlyWellFormed' <=> OnlyWellFormed /\ WellFormed(mRecvbuffer)
  <2>1. OnlyWellFormed' <=> \A i \in 1 .. Len(handled') : WellFormed(handled'[i].body)
    BY DEF OnlyWellFormed, Handled, WellFormed, Steers
  <2>2. OnlyWellFormed <=> \A i \in 1 .. Len(handled) : WellFormed(handled[i].body)
    BY DEF OnlyWellFormed, Handled
  <2>3. QED
    BY <1>4, <1>6, <1>7, <2>1, <2>2
<1>9. QED
  BY <1>2, <1>3, <1>4, <1>5, <1>6, <1>8

\* The messages handled so far that are addressed to p, and the orientation
\* that the last of them gives it.
ToPlatform(p) == {i \in 1 .. Len(handled) : Addresses(Handled(i), p)}
Told(p) == IF ToPlatform(p) = {} THEN Level ELSE Says(Handled(Max(ToPlatform(p))))

\* A message for another platform leaves what p was last told; a message for
\* p replaces it.
LEMMA ToldAppend ==
    ASSUME ReceiverInv, NEW throws \in BOOLEAN, InvokeCallback(throws), NEW p
    PROVE  /\ ~Addresses(mRecvbuffer, p) => Told(p)' = Told(p)
           /\ Addresses(mRecvbuffer, p) => Told(p)' = Says(mRecvbuffer)
<1> DEFINE n == Len(handled)
           S == {i \in 1 .. n : Addresses(handled[i].body, p)}
           T == {i \in 1 .. n + 1 : Addresses(handled'[i].body, p)}
<1>1. /\ n \in Nat /\ Len(handled') = n + 1
      /\ \A i \in 1 .. n : handled'[i].body = handled[i].body
      /\ handled'[n + 1].body = mRecvbuffer
  BY HandledAppend DEF Handled
<1>2. /\ ToPlatform(p) = S
      /\ Told(p) = IF S = {} THEN Level ELSE Says(handled[Max(S)].body)
  BY DEF Told, ToPlatform, Handled
<1>3. /\ ToPlatform(p)' = T
      /\ Told(p)' = IF T = {} THEN Level ELSE Says(handled'[Max(T)].body)
  BY <1>1 DEF Told, ToPlatform, Handled, Addresses, Steers
<1>4. T = S \cup (IF Addresses(mRecvbuffer, p) THEN {n + 1} ELSE {})
  BY <1>1
<1>5. S \subseteq 0 .. n + 1 /\ T \subseteq 0 .. n + 1 /\ n + 1 \in Int /\ n \in Int
  BY <1>1
<1>6. CASE ~Addresses(mRecvbuffer, p)
  <2>1. T = S
    BY <1>4, <1>6
  <2>2. S # {} => Max(S) \in 1 .. n
    <3>1. S # {} => Max(S) \in S
      <4> HIDE DEF S, T, n
      <4>1. QED
        BY <1>5, MaxOfPositions
    <3>2. QED
      BY <3>1
  <2> HIDE DEF S, T
  <2>3. QED
    BY <1>1, <1>2, <1>3, <1>6, <2>1, <2>2
<1>7. CASE Addresses(mRecvbuffer, p)
  <2>1. n + 1 \in T /\ T # {}
    BY <1>4, <1>7
  <2>2. Max(T) \in T /\ \A j \in T : j <= Max(T)
    <3> HIDE DEF T, S, n
    <3>1. QED
      BY <1>5, <2>1, MaxOfPositions
  <2>3. Max(T) = n + 1
    BY <1>1, <1>5, <2>1, <2>2
  <2> HIDE DEF S, T
  <2>4. QED
    BY <1>1, <1>3, <1>7, <2>1, <2>3
<1>8. QED
  BY <1>6, <1>7
SteeringInv ==
    /\ orientation \in [Platforms -> [Axes -> Angles]]
    /\ sensorOn \in BOOLEAN /\ realtime \in BOOLEAN
    /\ OrientationFromLastMessage
    /\ OnlyMalformedKills
    /\ RealtimeOnlyForNine

\* With nothing handled every platform is level.
LEMMA InitSteering == ComputerInit => SteeringInv
<1> SUFFICES ASSUME ComputerInit PROVE SteeringInv
  OBVIOUS
<1>1. Len(handled) = 0
  BY EmptySeq DEF ComputerInit, ReceiverInit
<1>2. Level \in [Axes -> Angles]
  BY DEF Level, Zero, Angle, Angles
<1>3. orientation \in [Platforms -> [Axes -> Angles]]
  BY <1>2 DEF ComputerInit
<1>4. OrientationFromLastMessage
  <2>1. \A p \in Platforms : {i \in 1 .. Len(handled) : Addresses(Handled(i), p)} = {}
    BY <1>1
  <2>2. QED
    BY <2>1 DEF OrientationFromLastMessage, ComputerInit
<1>5. QED
  BY <1>3, <1>4
  DEF SteeringInv, OnlyMalformedKills, RealtimeOnlyForNine, ComputerInit,
      ReceiverInit

\* A step outside ProcessMessage changes none of it.
LEMMA OtherSteering ==
    ASSUME ReceiverInv, SteeringInv,
           \/ /\ Initialize \/ Network \/ Kernel \/ ReceiveFails \/ IoSteps
              /\ UNCHANGED computerVars
           \/ UNCHANGED allVars
    PROVE  SteeringInv'
<1>1. /\ UNCHANGED <<handled, orientation, sensorOn, realtime>>
      /\ io' = "callbackThrew" => io = "callbackThrew"
  BY OtherSteps
<1>2. \A i : Handled(i)' = Handled(i)
  BY <1>1 DEF Handled
<1>3. OnlyWellFormed' <=> OnlyWellFormed
  BY <1>1, <1>2 DEF OnlyWellFormed, WellFormed, Steers
<1>4. OrientationFromLastMessage'
  <2>1. \A p : Told(p)' = Told(p)
    BY <1>1, <1>2 DEF Told, ToPlatform, Addresses, Steers
  <2>2. OrientationFromLastMessage <=>
          (OnlyWellFormed => \A p \in Platforms : orientation[p] = Told(p))
    BY DEF OrientationFromLastMessage, Told, ToPlatform
  <2>3. OrientationFromLastMessage' <=>
          (OnlyWellFormed' => \A p \in Platforms : orientation'[p] = Told(p)')
    BY DEF OrientationFromLastMessage, Told, ToPlatform
  <2>4. QED
    BY <1>1, <1>3, <2>1, <2>2, <2>3 DEF SteeringInv
<1>5. OnlyMalformedKills'
  BY <1>1, <1>2 DEF SteeringInv, OnlyMalformedKills
<1>6. RealtimeOnlyForNine'
  BY <1>1, <1>2, <1>3 DEF SteeringInv, RealtimeOnlyForNine
<1>7. QED
  BY <1>1, <1>4, <1>5, <1>6 DEF SteeringInv

\* What one platform is told, and what it does, agree after a message of well-
\* formed traffic if the message turns exactly the platforms it addresses.
LEMMA OrientationFollows ==
    ASSUME ReceiverInv, SteeringInv, NEW throws \in BOOLEAN, InvokeCallback(throws),
           WellFormed(mRecvbuffer) =>
             \A p \in Platforms :
               orientation'[p] = IF Addresses(mRecvbuffer, p) THEN Says(mRecvbuffer)
                                                              ELSE orientation[p]
    PROVE  OrientationFromLastMessage'
<1>1. OrientationFromLastMessage =
        (OnlyWellFormed => \A p \in Platforms : orientation[p] = Told(p))
  BY DEF OrientationFromLastMessage, Told, ToPlatform
<1>2. OrientationFromLastMessage' =
        (OnlyWellFormed' => \A p \in Platforms : orientation'[p] = Told(p)')
  BY DEF OrientationFromLastMessage, Told, ToPlatform
<1>3. SUFFICES ASSUME OnlyWellFormed', NEW p \in Platforms
               PROVE  orientation'[p] = Told(p)'
  BY <1>2
<1>4. OnlyWellFormed /\ WellFormed(mRecvbuffer)
  BY <1>3, HandledAppend
<1>5. orientation[p] = Told(p)
  BY <1>1, <1>4 DEF SteeringInv
<1>6. QED
  BY <1>4, <1>5, ToldAppend

\* Messages that make the simulation real-time stay handled.
LEMMA RealtimeFollows ==
    ASSUME ReceiverInv, SteeringInv, NEW throws \in BOOLEAN, InvokeCallback(throws),
           realtime' /\ WellFormed(mRecvbuffer) =>
             \/ realtime
             \/ /\ TypeOfMessage(mRecvbuffer) = "xiaoxuan"
                /\ LastField(mRecvbuffer, "thread").n = 9
    PROVE  RealtimeOnlyForNine'
<1> DEFINE n == Len(handled)
           ForNine(body) == /\ TypeOfMessage(body) = "xiaoxuan"
                            /\ LastField(body, "thread").n = 9
<1>1. /\ n \in Nat /\ Len(handled') = n + 1
      /\ \A i \in 1 .. n : handled'[i].body = handled[i].body
      /\ handled'[n + 1].body = mRecvbuffer
      /\ OnlyWellFormed' <=> OnlyWellFormed /\ WellFormed(mRecvbuffer)
  BY HandledAppend DEF Handled
<1>2. SUFFICES ASSUME realtime', OnlyWellFormed'
               PROVE  \E i \in 1 .. n + 1 : ForNine(handled'[i].body)
  BY <1>1 DEF RealtimeOnlyForNine, Handled
<1>3. CASE realtime
  <2>1. \E i \in 1 .. n : ForNine(handled[i].body)
    BY <1>1, <1>2, <1>3 DEF SteeringInv, RealtimeOnlyForNine, Handled
  <2> HIDE DEF ForNine
  <2>2. QED
    BY <1>1, <2>1
<1>4. CASE ~realtime
  <2>1. ForNine(mRecvbuffer)
    BY <1>1, <1>2, <1>4
  <2> HIDE DEF ForNine
  <2>2. n + 1 \in 1 .. n + 1
    BY <1>1
  <2>3. QED
    BY <1>1, <2>1, <2>2
<1>5. QED
  BY <1>3, <1>4

\* A message that does not throw leaves the process running.
LEMMA ReturnsAlive ==
    ASSUME ReceiverInv, InvokeCallback(FALSE)
    PROVE  OnlyMalformedKills'
BY CallbackEnds DEF OnlyMalformedKills
\* A well-formed message never gets into MessageThrows.
LEMMA ThrowsSteering ==
    ASSUME ReceiverInv, SteeringInv, MessageThrows PROVE SteeringInv'
<1>1. /\ InvokeCallback(TRUE) /\ MayThrow(mRecvbuffer)
      /\ UNCHANGED <<orientation, sensorOn, realtime>>
  BY DEF MessageThrows, computerVars
<1>2. mRecvbuffer \in Seq(Chunks) /\ ~WellFormed(mRecvbuffer)
  BY <1>1, HandledAppend, WellFormedMeansOneThing
<1>3. OrientationFromLastMessage' /\ RealtimeOnlyForNine'
  BY <1>1, <1>2, OrientationFollows, RealtimeFollows
<1>4. OnlyMalformedKills'
  <2>1. Len(handled') = Len(handled) + 1
        /\ handled'[Len(handled) + 1].body = mRecvbuffer
    BY <1>1, HandledAppend
  <2>2. ~WellFormed(handled'[Len(handled')].body)
    BY <1>2, <2>1
  <2>3. QED
    BY <2>2 DEF OnlyMalformedKills, Handled, WellFormed, Steers
<1>5. QED
  BY <1>1, <1>3, <1>4 DEF SteeringInv

\* A message that steers turns the platform it addresses and no other, and
\* only a xiaoxuan message for thread 9 makes the simulation real-time.
LEMMA SteersSteering ==
    ASSUME ReceiverInv, SteeringInv, MessageSteers PROVE SteeringInv'
<1> DEFINE body == mRecvbuffer
<1>1. InvokeCallback(FALSE) /\ ~MustThrow(body) /\ Steers(body) /\ sensorOn' = sensorOn
  BY DEF MessageSteers
<1>2. PICK p \in Targets(body) \cap Platforms :
        /\ orientation' = [orientation EXCEPT ![p] = Parsed(body).angles]
        /\ realtime' = (realtime \/ RealtimeFor(p))
  BY DEF MessageSteers, Steered
<1>3. body \in Seq(Chunks)
  BY <1>1, HandledAppend
<1>4. Parsed(body).angles \in [Axes -> Angles]
  BY <1>3, ParsesLastFields DEF Readings
<1>5. orientation' \in [Platforms -> [Axes -> Angles]]
  BY <1>2, <1>4 DEF SteeringInv
<1> DEFINE addressed == PlatformName(TypeOfMessage(body), LastField(body, "thread").n)
<1>6. WellFormed(body) => p = addressed /\ Parsed(body).angles = Says(body)
  BY <1>1, <1>2, <1>3, WellFormedMeansOneThing
<1>7. OrientationFromLastMessage'
  <2>1. \A q : Addresses(body, q) <=> q = addressed
    BY <1>1 DEF Addresses
  <2> HIDE DEF addressed, body
  <2>2. ASSUME WellFormed(body), NEW q \in Platforms
        PROVE  orientation'[q] = IF Addresses(body, q) THEN Says(body)
                                                       ELSE orientation[q]
    BY <1>2, <1>6, <2>1, <2>2 DEF SteeringInv
  <2>3. QED
    BY <1>1, <2>2, OrientationFollows DEF body
<1>8. RealtimeOnlyForNine'
  <2>1. ASSUME WellFormed(body), RealtimeFor(p)
        PROVE  TypeOfMessage(body) = "xiaoxuan" /\ LastField(body, "thread").n = 9
    <3> DEFINE type == TypeOfMessage(body)
               thread == LastField(body, "thread").n
    <3>1. type \in {"attitude", "xiaoxuan"}
      BY <1>1 DEF Steers
    <3>2. PlatformName(type, thread) = <<"sat-SAR", 9>>
      BY <1>6, <2>1 DEF RealtimeFor
    <3> HIDE DEF type, thread
    <3>3. type # "attitude" /\ thread = 9
      BY <3>2 DEF PlatformName
    <3>4. QED
      BY <3>1, <3>3 DEF type, thread
  <2>2. QED
    BY <1>1, <1>2, <2>1, RealtimeFollows
<1>9. realtime' \in BOOLEAN
  BY <1>2 DEF SteeringInv, RealtimeFor
<1>10. QED
  BY <1>1, <1>5, <1>7, <1>8, <1>9, ReturnsAlive DEF SteeringInv

\* The camera and ignored messages turn nothing that is addressed.
LEMMA QuietSteering ==
    ASSUME ReceiverInv, SteeringInv, InvokeCallback(FALSE),
           UNCHANGED <<orientation, realtime>>, sensorOn' \in BOOLEAN,
           ~Steers(mRecvbuffer) \/ Targets(mRecvbuffer) \ Platforms # {}
    PROVE  SteeringInv'
<1>1. mRecvbuffer \in Seq(Chunks)
  BY HandledAppend
<1>2. ASSUME WellFormed(mRecvbuffer), NEW p \in Platforms
      PROVE  ~Addresses(mRecvbuffer, p)
  BY <1>1, <1>2, WellFormedMeansOneThing DEF Addresses
<1>3. OrientationFromLastMessage' /\ RealtimeOnlyForNine'
  BY <1>2, OrientationFollows, RealtimeFollows
<1>4. QED
  BY <1>3, ReturnsAlive DEF SteeringInv

\* Every step keeps the account of what was steered.
LEMMA StepSteering ==
    ASSUME ReceiverInv, SteeringInv, [ComputerNext]_allVars
    PROVE  SteeringInv'
<1>1. CASE CameraToggles
  BY <1>1, QuietSteering DEF CameraToggles, Steers, Switched
<1>2. CASE MessageIgnored
  <2>1. ~Steers(mRecvbuffer) \/ Targets(mRecvbuffer) \ Platforms # {}
    BY <1>2 DEF MessageIgnored
  <2>2. QED
    BY <1>2, <2>1, QuietSteering DEF MessageIgnored, computerVars, SteeringInv
<1>3. QED
  BY <1>1, <1>2, ThrowsSteering, SteersSteering, OtherSteering
  DEF ComputerNext, OnMessageReceived

\* The account of what was steered is an invariant of the computer.
THEOREM SteeringInvariant == ComputerSpec => []SteeringInv
<1>1. ComputerSpec => []ReceiverInv
  BY ComputerImplementsReceiver, ReceiverInvariant, PTL
<1>2. ReceiverInv /\ SteeringInv /\ [ComputerNext]_allVars => SteeringInv'
  BY StepSteering
<1>3. QED
  BY <1>1, <1>2, InitSteering, PTL DEF ComputerSpec

\* Every variable of the computer has its type: in particular an orientation
\* always has its three angles, each with its unit.
THEOREM ComputerTypeCorrect == ComputerSpec => []ComputerTypeOK
<1>1. ComputerSpec => []ReceiverInv
  BY ComputerImplementsReceiver, ReceiverInvariant, PTL
<1>2. ReceiverInv /\ SteeringInv => ComputerTypeOK
  BY DEF ReceiverInv, SteeringInv, ComputerTypeOK, Angles
<1>3. QED
  BY <1>1, <1>2, SteeringInvariant, PTL

\* Under well-formed traffic every platform is oriented as the last message
\* addressed to it says, whatever was sent to others or before it.
THEOREM OrientationIsFromLastMessage == ComputerSpec => []OrientationFromLastMessage
BY SteeringInvariant, PTL DEF SteeringInv

\* A message that ends the process is malformed.
THEOREM OnlyMalformedMessagesKill == ComputerSpec => []OnlyMalformedKills
BY SteeringInvariant, PTL DEF SteeringInv

\* Under well-formed traffic only a xiaoxuan message for thread 9 makes the
\* simulation real-time.
THEOREM RealtimeIsForNine == ComputerSpec => []RealtimeOnlyForNine
BY SteeringInvariant, PTL DEF SteeringInv
=============================================================================
