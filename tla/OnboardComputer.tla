--------------------------- MODULE OnboardComputer ---------------------------
(***************************************************************************)
(* OnboardComputer on top of its receiver: OnMessageReceived runs on the   *)
(* IO thread inside HandleReceive and ProcessMessage steers a platform,    *)
(* switches the camera or ends the process.                                *)
(*                                                                         *)
(* A body is a sequence of tokens: a key opens a field (the key of the     *)
(* first field is "type"), a number or a word after it is its value.  The  *)
(* receive buffer may cut a message between a key and its value.           *)
(***************************************************************************)
EXTENDS UdpUnicastReceiver, Integers, FiniteSetsExt

CONSTANTS Platforms,    \* names of the platforms in the simulation
          CameraFitted, \* sat-SAR exists and has a sensor named sar_sensor
          ThreadIds     \* ids a std::string read out of bounds may parse to

VARIABLES orientation,  \* platform -> last SetOrientationNED
          sensorOn,     \* the camera is turned on
          realtime      \* SetRealtime was called

computerVars == <<orientation, sensorOn, realtime>>
allVars == <<receiverVars, computerVars>>

Key(k) == [is |-> "key", word |-> k, n |-> 0]
Number(i) == [is |-> "number", word |-> "", n |-> i]
Word(w) == [is |-> "word", word |-> w, n |-> 0]
NoValue == [is |-> "none", word |-> "", n |-> 0]
NoMessage == <<>>
EmptyField == [key |-> "", val |-> NoValue]

Tokens == [is : {"key", "word"}, word : STRING, n : {0}]
          \cup [is : {"number"}, word : {""}, n : Int]

ASSUME ComputerAssumption ==
    /\ Chunks \subseteq Tokens
    /\ \A body \in Bodies : body # NoMessage => body[1].is = "key"
    /\ ThreadIds \subseteq Int

Axes == {"roll", "pitch", "yaw"}

\* SetOrientationNED takes radians: an angle of n model degrees is either
\* converted to radians or passed on as it is.
Angle(i, unit) == IF i = 0 THEN [n |-> 0, unit |-> "rad"]
                           ELSE [n |-> i, unit |-> unit]
Zero == Angle(0, "rad")
Level == [axis \in Axes |-> Zero]

PlatformName(type, threadId) ==
    IF type = "attitude" THEN <<"plane", threadId>> ELSE <<"sat-SAR", threadId>>

\* Only the roll of a xiaoxuan message is converted to radians.
UnitOf(type, axis) ==
    IF type = "xiaoxuan" /\ axis = "roll" THEN "rad" ELSE "degrees"
-----------------------------------------------------------------------------
(* ProcessMessage: splitting and parsing.                                  *)

\* A message is split at ',' and '=': where its fields after the first start.
Starts(body) == {i \in 2 .. Len(body) : body[i].is = "key"}

\* The field that starts at token i.
FieldAt(body, i) ==
    [key |-> body[i].word,
     val |-> IF i < Len(body) /\ body[i + 1].is # "key" THEN body[i + 1] ELSE NoValue]

TypeOfMessage(body) == FieldAt(body, 1).val.word

\* The ids a thread field may stand for: one without a value is read past the
\* end of the vector, one that is not a number counts as 0.
ParseThread(val) == CASE val.is = "none"   -> ThreadIds \cup {0}
                      [] val.is = "word"   -> {0}
                      [] val.is = "number" -> {val.n}

\* Mutant: the exceptions of stoi are not caught.
FieldThrowsUncaught(field) ==
    \/ field = EmptyField
    \/ field.key \in Axes \cup {"thread"} /\ field.val.is = "word"

\* A field with nothing in it, and an axis without a number, throw; one with an
\* empty key and a value is skipped like any unknown key.
FieldThrows(field) ==
    field = EmptyField \/ (field.key \in Axes /\ field.val.is # "number")

\* One pass of the loop over the fields.
ParseField(type, parsed, field) ==
    IF parsed.throws \/ FieldThrows(field) THEN [parsed EXCEPT !.throws = TRUE]
    ELSE IF field.key \in Axes
      THEN [parsed EXCEPT !.angles[field.key] =
                Angle(field.val.n, UnitOf(type, field.key))]
    ELSE IF field.key = "thread"
      THEN [parsed EXCEPT !.threadIds = ParseThread(field.val),
                          !.undefined = @ \/ field.val.is = "none"]
    ELSE parsed

Unparsed == [throws |-> FALSE, undefined |-> FALSE, angles |-> Level,
             threadIds |-> {0}]

\* What is parsed when the loop has come as far as token k.
ParseLoop(body) ==
    LET parsed[k \in 0 .. Len(body)] ==
          IF k = 0 THEN Unparsed
          ELSE IF k \in Starts(body)
            THEN ParseField(TypeOfMessage(body), parsed[k - 1], FieldAt(body, k))
          ELSE parsed[k - 1]
    IN  parsed

Parsed(body) == ParseLoop(body)[Len(body)]

Steers(body) == body # NoMessage /\ TypeOfMessage(body) \in {"attitude", "xiaoxuan"}

MustThrow(body) == body = NoMessage \/ (Steers(body) /\ Parsed(body).throws)
MayThrow(body) == MustThrow(body) \/ (Steers(body) /\ Parsed(body).undefined)

\* The platforms a steering message may end up addressing.
Targets(body) ==
    {PlatformName(TypeOfMessage(body), t) : t \in Parsed(body).threadIds}
-----------------------------------------------------------------------------
(* OnMessageReceived, on the IO thread, inside HandleReceive.              *)

MessageThrows ==
    /\ InvokeCallback(TRUE)
    /\ MayThrow(mRecvbuffer)
    /\ UNCHANGED computerVars

\* Mutant: the angles are kept from message to message.
SteeredOverOld(p) ==
    [axis \in Axes |-> IF Parsed(mRecvbuffer).angles[axis] = Zero
                         THEN orientation[p][axis]
                         ELSE Parsed(mRecvbuffer).angles[axis]]

Steered(p) == Parsed(mRecvbuffer).angles

\* Mutant: every steering message makes the simulation real-time.
RealtimeForAll(p) == TRUE

\* Only a xiaoxuan message for thread 9 makes the simulation real-time.
RealtimeFor(p) == p = <<"sat-SAR", 9>>

\* The target exists: its orientation is set.
MessageSteers ==
    /\ InvokeCallback(FALSE)
    /\ ~MustThrow(mRecvbuffer) /\ Steers(mRecvbuffer)
    /\ \E p \in Targets(mRecvbuffer) \cap Platforms :
         /\ orientation' = [orientation EXCEPT ![p] = Steered(p)]
         /\ realtime' = (realtime \/ RealtimeFor(p))
    /\ UNCHANGED sensorOn

\* Mutant: the camera can only be turned on.
SwitchedOn == TRUE

Switched == ~sensorOn

CameraToggles ==
    /\ InvokeCallback(FALSE)
    /\ ~MustThrow(mRecvbuffer) /\ TypeOfMessage(mRecvbuffer) = "camera"
    /\ CameraFitted
    /\ sensorOn' = Switched
    /\ UNCHANGED <<orientation, realtime>>

\* Mutant: a message that is ignored is not echoed either.
MessageIgnoredUnechoed ==
    /\ io = "callback"
    /\ ~MustThrow(mRecvbuffer)
    /\ ~Steers(mRecvbuffer) /\ TypeOfMessage(mRecvbuffer) # "camera"
    /\ liveBuffers' = liveBuffers - 1
    /\ handled' = Append(handled, Current)
    /\ io' = "rearm"
    /\ UNCHANGED <<setup, workVars, mReceivedCallback, bufferVars, kernelVars,
                   echoed, lastError, computerVars>>

\* No value in the first field, an unknown type, or nothing of that name.
MessageIgnored ==
    /\ InvokeCallback(FALSE)
    /\ ~MustThrow(mRecvbuffer)
    /\ IF Steers(mRecvbuffer)
         THEN Targets(mRecvbuffer) \ Platforms # {}
         ELSE TypeOfMessage(mRecvbuffer) = "camera" => ~CameraFitted
    /\ UNCHANGED computerVars

OnMessageReceived ==
    MessageThrows \/ MessageSteers \/ CameraToggles \/ MessageIgnored

ComputerInit ==
    /\ ReceiverInit
    /\ orientation = [p \in Platforms |-> Level]
    /\ sensorOn = FALSE /\ realtime = FALSE

ComputerNext ==
    \/ /\ Initialize \/ Network \/ Kernel \/ ReceiveFails \/ IoSteps
       /\ UNCHANGED computerVars
    \/ OnMessageReceived

ComputerSpec ==
    /\ ComputerInit /\ [][ComputerNext]_allVars
    /\ WF_allVars(Initialize /\ UNCHANGED computerVars)
    /\ WF_allVars(Kernel /\ UNCHANGED computerVars)
    /\ WF_allVars((IoSteps /\ UNCHANGED computerVars) \/ OnMessageReceived)
-----------------------------------------------------------------------------
(* What a message says, read off its fields without following the loop.    *)

Handled(i) == handled[i].body

LastField(body, key) ==
    LET named == {i \in Starts(body) : FieldAt(body, i).key = key}
    IN  IF named = {} THEN NoValue ELSE FieldAt(body, Max(named)).val

WellFormed(body) ==
    /\ body # NoMessage
    /\ Steers(body) =>
         \A i \in Starts(body) :
           LET field == FieldAt(body, i)
           IN  /\ field # EmptyField
               /\ field.key \in Axes => field.val.is = "number"
               /\ field.key = "thread" => field.val # NoValue

Addresses(body, p) ==
    Steers(body) /\ p = PlatformName(TypeOfMessage(body),
                                     LastField(body, "thread").n)

Says(body) ==
    [axis \in Axes |-> Angle(LastField(body, axis).n,
                             UnitOf(TypeOfMessage(body), axis))]

OnlyWellFormed == \A i \in 1 .. Len(handled) : WellFormed(Handled(i))

ComputerTypeOK ==
    /\ TypeOK
    /\ orientation \in
         [Platforms -> [Axes -> [n : Int, unit : {"rad", "degrees"}]]]
    /\ sensorOn \in BOOLEAN /\ realtime \in BOOLEAN

\* Under well-formed traffic a platform's orientation is what the last message
\* addressed to it says, and nothing else: no field of an earlier message, and
\* no message to another platform, shows in it.
OrientationFromLastMessage ==
    OnlyWellFormed =>
        \A p \in Platforms :
          LET toP == {i \in 1 .. Len(handled) : Addresses(Handled(i), p)}
          IN  orientation[p] = IF toP = {} THEN Level
                                           ELSE Says(Handled(Max(toP)))

\* The camera is on exactly when an odd number of camera messages was handled:
\* every datagram switches it once, whatever else arrives between.
CameraFollowsParity ==
    CameraFitted =>
        sensorOn = (Cardinality({i \in 1 .. Len(handled) :
                       /\ Handled(i) # NoMessage
                       /\ TypeOfMessage(Handled(i)) = "camera"}) % 2 = 1)

\* Only a malformed message can bring the process down from the callback.
OnlyMalformedKills ==
    io = "callbackThrew" => ~WellFormed(Handled(Len(handled)))

\* Under well-formed traffic the simulation turns real-time only on behalf of
\* a xiaoxuan message for thread 9.
RealtimeOnlyForNine ==
    realtime /\ OnlyWellFormed =>
        \E i \in 1 .. Len(handled) :
          /\ TypeOfMessage(Handled(i)) = "xiaoxuan"
          /\ LastField(Handled(i), "thread").n = 9

\* With its callback the computer is still a receiver: whatever ProcessMessage
\* does with a message, it returns to the loop or ends the process.
ImplementsReceiver == Spec

\* The comments in ProcessMessage say that a thread that fails to parse counts
\* as thread 0: the message then steers platform 0 or nothing.
FailedThreadCountsAsZero ==
    [][\A p \in Platforms :
         /\ io = "callback" /\ Steers(mRecvbuffer)
         /\ LastField(mRecvbuffer, "thread").is # "number"
         /\ orientation'[p] # orientation[p]
         => p[2] = 0]_allVars

\* The comment above the attitude branch's lookup says that the platform is
\* sat-SAR followed by the thread id.
AttitudeSteersSatSar ==
    [][io = "callback" /\ Steers(mRecvbuffer)
         => \A p \in Platforms : orientation'[p] # orientation[p]
              => p[1] = "sat-SAR"]_allVars

\* The collector reads orientations as radians, so every angle stored is one.
AnglesInRadians ==
    \A p \in Platforms, axis \in Axes : orientation[p][axis].unit = "rad"
=============================================================================
