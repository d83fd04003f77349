------------------------ MODULE AgentSteeringProofs ------------------------
(***************************************************************************)
(* Theorems about AgentSteering, for every set of messages, every range of *)
(* doubles and every rounding that keeps the order of doubles: types, the  *)
(* order of the records, the range of headings, that parser and loops make *)
(* headway, that each record is what its object in the text holds, and     *)
(* that this is what the agent said if the text has the documented format. *)
(***************************************************************************)
EXTENDS AgentSteering, LoopTheorems, SequenceTheorems

-----------------------------------------------------------------------------
(* First and Last, the searches of the parser, find what they look for.    *)

\* A non-empty set of positions has a least element, and First returns it.
LEMMA FirstIsLeast ==
  ASSUME NEW S, NEW n \in Nat, S \subseteq 1 .. n, S # {}
  PROVE  First(S) \in S /\ \A j \in S : First(S) <= j
<1>1. S \subseteq 0 .. n /\ n \in Int
  OBVIOUS
<1>2. \E k \in S : \A j \in S : k <= j
  BY <1>1, LeastPosition
<1>. QED BY <1>2 DEF First

\* The mirror image for the greatest element and Last.
LEMMA LastIsGreatest ==
  ASSUME NEW S, NEW n \in Nat, S \subseteq 1 .. n, S # {}
  PROVE  Last(S) \in S /\ \A j \in S : j <= Last(S)
<1>1. S \subseteq 0 .. n /\ n \in Int
  OBVIOUS
<1>2. \E k \in S : \A j \in S : j <= k
  BY <1>1, GreatestPosition
<1>. QED BY <1>2 DEF Last
-----------------------------------------------------------------------------
(* Types, and the scan of one object.                                      *)

\* A match is in hand while its object is looked for.
MatchInHand == pc \in {"find", "scan", "extract"} =>
                 matchPos \in Matches /\ text[matchPos].id # Overflow

\* The scan starts at an opening brace: from there on the depth is positive.
Scan ==
    pc = "scan" =>
      /\ objStart \in DOMAIN text /\ text[objStart].is = "open"
      /\ objEnd = Npos
      /\ objStart <= i
      /\ i = objStart => depth = 0 /\ ~inString
      /\ i > objStart => depth >= 1

\* What each loop of NormalizeRad0To2Pi has established of the angle.
Angle ==
    /\ rad \in Least .. Greatest
    /\ loop \in {"idle", "adding", "subtracting", "ready"}
    /\ loop \in {"adding", "subtracting"} => rad \in Doubles
    /\ loop = "subtracting" => rad >= 0
    /\ loop = "ready" => rad \in 0 .. TwoPi - 1
    /\ loop # "idle" => pc = "done" /\ mover \in Platforms
    /\ mover \in Platforms \cup {Nobody} /\ due \subseteq Platforms
    /\ heading \in [Platforms -> {Unset} \cup 0 .. TwoPi - 1]

\* What the steps of the parser keep.
ParserInv == ParserTypeOK /\ MatchInHand /\ Scan
-----------------------------------------------------------------------------
(* Facts about the text of a message.                                      *)

\* The text is a sequence of symbols, and every match is one of its positions.
LEMMA TextTyped ==
  ASSUME message \in Messages
  PROVE  /\ text \in Seq(Symbols) /\ Len(text) \in Nat
         /\ DOMAIN text = 1 .. Len(text)
         /\ Matches \subseteq 1 .. Len(text)
<1>1. text \in Seq(Symbols)
  BY ParserAssumption DEF text
<1>. QED BY <1>1 DEF Matches

\* The fields of the symbols that have some.
LEMMA SymbolTyped ==
  ASSUME message \in Messages, NEW k \in DOMAIN text
  PROVE  /\ text[k].is = "action" => text[k].id \in Ids /\ text[k].name \in Names
         /\ text[k].is = "number" => text[k].n \in Numbers
<1>1. text[k] \in Symbols
  BY TextTyped
<1>. QED BY <1>1 DEF Symbols

\* The next match, if any, is a match.
LEMMA NextPosTyped ==
  ASSUME message \in Messages
  PROVE  NextPos # Npos => /\ NextPos \in Matches
                           /\ NextPos > matchPos
                           /\ \A k \in Matches : k > matchPos => NextPos <= k
<1>. DEFINE S == {k \in Matches : k > matchPos}
<1>1. S \subseteq 1 .. Len(text) /\ Len(text) \in Nat
  BY TextTyped
<1>2. CASE S = {}
  BY <1>2 DEF NextPos, First
<1>3. CASE S # {}
  <2>1. First(S) \in S /\ \A j \in S : First(S) <= j
    <3>. HIDE DEF S
    <3>. QED BY <1>1, <1>3, FirstIsLeast
  <2>. QED BY <2>1 DEF NextPos
<1>. QED BY <1>2, <1>3

\* rfind stops at an opening brace before the match.
LEMMA ObjStartTyped ==
  ASSUME message \in Messages
  PROVE  /\ objStart \in 0 .. Len(text)
         /\ objStart # Npos => objStart \in DOMAIN text /\ text[objStart].is = "open"
<1>. DEFINE S == {k \in DOMAIN text : k < matchPos /\ text[k].is = "open"}
<1>1. S \subseteq 1 .. Len(text) /\ Len(text) \in Nat
  BY TextTyped
<1>2. CASE S = {}
  BY <1>1, <1>2 DEF objStart, Last, Npos
<1>3. CASE S # {}
  <2>1. Last(S) \in S
    <3>. HIDE DEF S
    <3>. QED BY <1>1, <1>3, LastIsGreatest
  <2>. QED BY <1>1, <2>1 DEF objStart
<1>. QED BY <1>2, <1>3

\* A number that is found is one of the text and did not overflow.
LEMMA NumberValueTyped ==
  ASSUME message \in Messages, objEnd \in 0 .. Len(text), NEW key
  PROVE  NumberValue(key) \in {<<>>} \cup {<<n>> : n \in Read}
<1>. DEFINE S == {j \in Span : text[j].is = "number" /\ text[j].key = key}
<1>1. Span \subseteq 1 .. Len(text) /\ Len(text) \in Nat
  BY TextTyped, ObjStartTyped DEF Span, Npos
<1>2. CASE S = {}
  BY <1>2 DEF NumberValue, First
<1>3. CASE S # {}
  <2>1. First(S) \in S
    <3>. HIDE DEF S
    <3>1. S \subseteq 1 .. Len(text)
      BY <1>1 DEF S
    <3>. QED BY <1>1, <1>3, <3>1, FirstIsLeast
  <2>2. First(S) \in DOMAIN text /\ text[First(S)].n \in Numbers
    BY <1>1, <2>1, TextTyped, SymbolTyped
  <2>. HIDE DEF S
  <2>3. NumberValue(key) = IF First(S) = Npos \/ text[First(S)].n = Huge
                             THEN <<>> ELSE <<text[First(S)].n>>
    BY DEF NumberValue, S
  <2>. QED BY <2>2, <2>3 DEF Read
<1>. QED BY <1>2, <1>3
-----------------------------------------------------------------------------
(* The parser keeps its invariant.                                         *)

\* The parser starts in its invariant.
LEMMA ParserInitInv == ParserInit => ParserInv
<1>. SUFFICES ASSUME ParserInit PROVE ParserInv
  OBVIOUS
<1>1. ParserTypeOK
  <2>1. message \in Messages
    BY DEF ParserInit
  <2>2. Len(text) \in Nat /\ <<>> \in Seq(Records)
    BY <2>1, TextTyped
  <2>3. inString \in BOOLEAN /\ escape \in BOOLEAN
    BY Zenon DEF ParserInit
  <2>. QED BY <2>1, <2>2, <2>3 DEF ParserInit, ParserTypeOK, Npos
<1>2. MatchInHand /\ Scan
  BY DEF ParserInit, MatchInHand, Scan
<1>. QED BY <1>1, <1>2 DEF ParserInv

\* What Extract appends is a record: the fields of a match in hand, and values
\* that were read.
LEMMA ExtractTyped ==
  ASSUME ParserTypeOK, MatchInHand, pc = "extract"
  PROVE  Record(text[matchPos].id, text[matchPos].name, HeadingValue, TargetValue)
           \in Records
<1>1. /\ message \in Messages /\ objEnd \in 0 .. Len(text)
      /\ matchPos \in DOMAIN text /\ text[matchPos].is = "action"
      /\ text[matchPos].id # Overflow
  BY DEF ParserTypeOK, MatchInHand, Matches
<1>2. /\ text[matchPos].id \in Ids \ {Overflow}
      /\ text[matchPos].name \in Names
  BY <1>1, SymbolTyped
<1>3. \A key : NumberValue(key) \in {<<>>} \cup {<<n>> : n \in Read}
  BY <1>1, NumberValueTyped
<1>4. HeadingValue \in {<<>>} \cup {<<n>> : n \in Read}
  BY <1>3 DEF HeadingValue
<1>5. TargetValue \in {<<>>} \cup (Read \X Read)
  <2>1. CASE NumberValue("lat") = <<>> \/ NumberValue("lon") = <<>>
    BY <2>1 DEF TargetValue
  <2>2. CASE NumberValue("lat") # <<>> /\ NumberValue("lon") # <<>>
    <3>1. PICK a \in Read, b \in Read :
            NumberValue("lat") = <<a>> /\ NumberValue("lon") = <<b>>
      BY <1>3, <2>2
    <3>2. TargetValue = <<Head(<<a>>), Head(<<b>>)>>
      BY <2>2, <3>1, Zenon DEF TargetValue
    <3>3. Head(<<a>>) = a /\ Head(<<b>>) = b
      OBVIOUS
    <3>4. TargetValue = <<a, b>>
      BY <3>2, <3>3, Zenon
    <3>. QED BY <3>1, <3>4
  <2>. QED BY <2>1, <2>2
<1>. QED BY <1>2, <1>4, <1>5 DEF Record, Records

\* Every step of the parser keeps it: the depth is positive past the opening
\* brace, so that a closing brace never takes it below zero.
LEMMA ParserStepInv == ParserInv /\ [Parse]_parserVars => ParserInv'
<1>. SUFFICES ASSUME ParserInv, [Parse]_parserVars PROVE ParserInv'
  OBVIOUS
<1>. USE DEF ParserInv
<1>1. /\ message \in Messages /\ Len(text) \in Nat /\ DOMAIN text = 1 .. Len(text)
      /\ Matches \subseteq 1 .. Len(text)
  BY TextTyped DEF ParserTypeOK
<1>2. CASE NoMoreMatches
  BY <1>1, <1>2 DEF NoMoreMatches, ParserTypeOK, MatchInHand, Scan, scanVars, text
<1>3. CASE IdOverflows
  <2>1. NextPos \in Matches
    BY <1>1, <1>3, NextPosTyped DEF IdOverflows
  <2>. QED BY <1>1, <1>3, <2>1 DEF IdOverflows, ActionsOnThrow, ParserTypeOK,
             MatchInHand, Scan, scanVars, text
<1>4. CASE NextMatch
  <2>1. NextPos \in Matches
    BY <1>1, <1>4, NextPosTyped DEF NextMatch
  <2>. QED BY <1>1, <1>4, <2>1 DEF NextMatch, ParserTypeOK, MatchInHand, Scan,
             scanVars, text, Matches
<1>5. CASE FindMatchingBrace
  <2>1. /\ objStart \in 0 .. Len(text)
        /\ objStart # Npos => objStart \in DOMAIN text /\ text[objStart].is = "open"
    BY <1>1, ObjStartTyped
  <2>2. objStart' = objStart /\ text' = text /\ Matches' = Matches
    BY <1>5 DEF FindMatchingBrace, objStart, text, Matches
  <2>3. ParserTypeOK'
    <3>1. /\ i' \in 0 .. Len(text) + 1 /\ depth' = 0
          /\ objEnd' = 0 /\ pc' \in {"extract", "scan"}
          /\ UNCHANGED <<message, matchPos, actions>>
      BY <1>1, <1>5, <2>1 DEF FindMatchingBrace, Npos
    <3>2. inString' \in BOOLEAN /\ escape' \in BOOLEAN
      BY <1>5, Zenon DEF FindMatchingBrace
    <3>. QED BY <1>1, <2>2, <3>1, <3>2 DEF ParserTypeOK
  <2>4. MatchInHand'
    BY <1>5, <2>2 DEF FindMatchingBrace, MatchInHand
  <2>5. Scan'
    BY <1>1, <1>5, <2>1, <2>2 DEF FindMatchingBrace, Scan, Npos
  <2>. QED BY <2>3, <2>4, <2>5
<1>6. CASE ScanString \/ ScanCode
  <2>1. /\ pc = "scan" /\ i <= Len(text) /\ i' = i + 1
        /\ UNCHANGED <<message, pc, matchPos, objEnd, actions>>
    BY <1>6 DEF ScanString, ScanCode, NextSymbol
  <2>2. objStart' = objStart /\ text' = text /\ Matches' = Matches
    BY <2>1 DEF objStart, text, Matches
  <2>3. i \in DOMAIN text /\ objStart \in DOMAIN text /\ depth \in Nat
    BY <1>1, <2>1 DEF ParserTypeOK, Scan
  <2>4. inString' \in BOOLEAN /\ escape' \in BOOLEAN
    BY <1>6 DEF ScanString, ScanCode, Escapes, ParserTypeOK
  <2>5. depth' \in Nat /\ depth' >= 1
    <3>1. CASE ScanString
      BY <2>1, <2>3, <3>1 DEF ScanString, Scan
    <3>2. CASE ScanCode
      <4>1. CASE text[i].is = "open"
        BY <2>3, <3>2, <4>1 DEF ScanCode
      <4>2. CASE text[i].is = "close"
        <5>1. i > objStart /\ depth >= 1 /\ depth # 1
          BY <1>1, <2>1, <2>3, <3>2, <4>2 DEF ScanCode, Closes, Scan
        <5>. QED BY <2>3, <3>2, <4>2, <5>1 DEF ScanCode
      <4>3. CASE text[i].is \notin {"open", "close"}
        <5>1. depth' = depth
          BY <3>2, <4>3 DEF ScanCode
        <5>. QED BY <1>1, <2>1, <2>3, <4>3, <5>1 DEF Scan
      <4>. QED BY <4>1, <4>2, <4>3
    <3>. QED BY <1>6, <3>1, <3>2
  <2>6. ParserTypeOK' /\ MatchInHand'
    BY <1>1, <2>1, <2>2, <2>3, <2>4, <2>5 DEF ParserTypeOK, MatchInHand
  <2>7. Scan'
    BY <1>1, <2>1, <2>2, <2>3, <2>5 DEF Scan
  <2>. QED BY <2>6, <2>7
<1>7. CASE BraceFound
  BY <1>1, <1>7 DEF BraceFound, Closes, ParserTypeOK, MatchInHand, Scan, text, Matches
<1>8. CASE BraceMissing
  BY <1>1, <1>8 DEF BraceMissing, ParserTypeOK, MatchInHand, Scan, scanVars, text,
       Matches
<1>9. CASE Extract
  <2>1. Record(text[matchPos].id, text[matchPos].name, HeadingValue, TargetValue)
          \in Records
    BY <1>9, ExtractTyped DEF Extract
  <2>2. actions' \in Seq(Records)
    BY <1>9, <2>1, AppendProperties DEF Extract, ParserTypeOK
  <2>. QED BY <1>1, <1>9, <2>2 DEF Extract, ParserTypeOK, MatchInHand, Scan,
             scanVars, text
<1>10. CASE UNCHANGED parserVars
  BY <1>1, <1>10 DEF parserVars, scanVars, ParserTypeOK, MatchInHand, Scan, text,
       objStart, Matches
<1>. QED BY <1>2, <1>3, <1>4, <1>5, <1>6, <1>7, <1>8, <1>9, <1>10 DEF Parse
-----------------------------------------------------------------------------
(* The loops of NormalizeRad0To2Pi.                                        *)

SteeringInv == ParserInv /\ Angle

\* Every angle a cached command asks for is a double.
LEMMA AnglesTyped ==
  ASSUME ParserTypeOK, NEW p
  PROVE  Angles(Cached(p, actions)) \subseteq Doubles
<1>. DEFINE S == {j \in DOMAIN actions : actions[j].platformId = p}
<1>1. S \subseteq 1 .. Len(actions) /\ Len(actions) \in Nat
      /\ \A j \in DOMAIN actions : actions[j] \in Records
  BY DEF ParserTypeOK
<1>2. CASE S = {}
  <2>1. Cached(p, actions) = <<>>
    BY <1>2 DEF Cached, Last
  <2>. QED BY <2>1 DEF Angles
<1>3. CASE S # {}
  <2>1. Last(S) \in S
    <3>. HIDE DEF S
    <3>. QED BY <1>1, <1>3, LastIsGreatest
  <2>2. Cached(p, actions) = <<actions[Last(S)]>> /\ actions[Last(S)] \in Records
    <3>1. Cached(p, actions) = IF Last(S) = Npos THEN <<>> ELSE <<actions[Last(S)]>>
      BY Zenon DEF Cached
    <3>2. Last(S) \in 1 .. Len(actions) /\ Last(S) # Npos
      BY <1>1, <2>1 DEF Npos
    <3>3. Last(S) \in DOMAIN actions
      BY <2>1
    <3>. HIDE DEF S
    <3>. QED BY <1>1, <3>1, <3>2, <3>3
  <2>. DEFINE cmd == actions[Last(S)]
  <2>3. Head(Cached(p, actions)) = cmd /\ Cached(p, actions) # <<>>
    BY <2>2
  <2>4. cmd.heading # <<>> => DegToRad(Head(cmd.heading)) \in Doubles
    <3>1. SUFFICES ASSUME cmd.heading # <<>>
                   PROVE  DegToRad(Head(cmd.heading)) \in Doubles
      OBVIOUS
    <3>2. PICK n \in Read : cmd.heading = <<n>>
      BY <2>2, <3>1 DEF Records
    <3>3. Head(<<n>>) = n
      OBVIOUS
    <3>. QED BY <3>2, <3>3, RoundingAssumption DEF Read
  <2>. HIDE DEF cmd, S
  <2>5. ASSUME NEW c, c # <<>>, Head(c) = cmd
        PROVE  Angles(c) \subseteq Doubles
    <3>1. CASE cmd.action \in HeadingNames /\ cmd.heading # <<>>
      BY <2>4, <2>5, <3>1 DEF Angles
    <3>2. CASE ~(cmd.action \in HeadingNames /\ cmd.heading # <<>>)
      BY <2>5, <3>2, RoundingAssumption DEF Angles
    <3>. QED BY <3>1, <3>2
  <2>. QED BY <2>3, <2>5
<1>. QED BY <1>2, <1>3

\* Parser and headings start in their invariant.
LEMMA SteeringInitInv == SteeringInit => SteeringInv
<1>1. SteeringInit => Angle
  BY SteeringAssumption DEF SteeringInit, Angle
<1>. QED BY <1>1, ParserInitInv DEF SteeringInit, SteeringInv

\* Every step keeps it: the loops establish the range of the angle that
\* SetHeading hands to the mover.
LEMMA SteeringStepInv ==
  SteeringInv /\ [SteeringNext]_steeringVars => SteeringInv'
<1>. SUFFICES ASSUME SteeringInv, [SteeringNext]_steeringVars PROVE SteeringInv'
  OBVIOUS
<1>. USE SteeringAssumption DEF SteeringInv, Angle
<1>1. ParserInv'
  <2>1. [Parse]_parserVars
    BY DEF SteeringNext, ParseCommand, SkipMover, ApplyLatestCommandToMover,
       NormalizeRad0To2Pi, AddTurn, EndAdding, SubtractTurn, EndSubtracting,
       SetHeading, steeringVars
  <2>. QED BY <2>1, ParserStepInv
<1>2. CASE ParseCommand \/ UNCHANGED steeringVars
  <2>1. loop = "idle" \/ UNCHANGED pc
    BY <1>2 DEF ParseCommand, Parse, NoMoreMatches, IdOverflows, NextMatch,
       FindMatchingBrace, ScanString, ScanCode, BraceFound, BraceMissing, Extract,
       steeringVars, parserVars
  <2>. QED BY <1>1, <1>2, <2>1 DEF ParseCommand, steeringVars
<1>3. CASE \E p \in Platforms : SkipMover(p)
  BY <1>1, <1>3 DEF SkipMover
<1>4. ASSUME NEW p \in Platforms, ApplyLatestCommandToMover(p) PROVE Angle'
  <2>1. Angles(Cached(p, actions)) \subseteq Doubles
    BY AnglesTyped DEF ParserInv
  <2>. QED BY <1>4, <2>1 DEF ApplyLatestCommandToMover, Doubles, parserVars
<1>5. CASE AddTurn
  <2>1. rad + TwoPi \in Least .. Greatest
    BY <1>5 DEF AddTurn
  <2>2. Round(rad + TwoPi) \in Doubles
    BY <2>1, RoundingAssumption
  <2>. QED BY <1>1, <1>5, <2>1, <2>2 DEF AddTurn, parserVars
<1>6. CASE EndAdding
  BY <1>1, <1>6 DEF EndAdding, NextLoop, parserVars
<1>7. CASE SubtractTurn
  <2>1. rad - TwoPi \in 0 .. Greatest
    BY <1>7 DEF SubtractTurn
  <2>2. Round(rad - TwoPi) \in 0 .. Greatest /\ Round(rad - TwoPi) \in Doubles
    <3>1. rad - TwoPi \in Least .. Greatest
      BY <2>1
    <3>. QED BY <2>1, <3>1, RoundingAssumption
  <2>. QED BY <1>1, <1>7, <2>2 DEF SubtractTurn, WithoutTurn, parserVars
<1>8. CASE EndSubtracting
  BY <1>1, <1>8 DEF EndSubtracting, parserVars
<1>9. CASE SetHeading
  BY <1>1, <1>9 DEF SetHeading
<1>. QED BY <1>1, <1>2, <1>3, <1>4, <1>5, <1>6, <1>7, <1>8, <1>9
         DEF SteeringNext, NormalizeRad0To2Pi

\* The invariant of parser and headings holds in every behaviour.
LEMMA SteeringInvariant == SteeringSafety => []SteeringInv
<1>. QED BY SteeringInitInv, SteeringStepInv, PTL DEF SteeringSafety

\* Every variable of parser and loops keeps its type: in particular the scan
\* never counts below zero and never reads past the end, whatever the text.
THEOREM SteeringTypeCorrect == SteeringSafety => []SteeringTypeOK
<1>1. SteeringInv => SteeringTypeOK
  BY SteeringAssumption DEF SteeringInv, ParserInv, Angle, SteeringTypeOK, Unset
<1>. QED BY <1>1, SteeringInvariant, PTL

\* A heading that is set lies within one turn, 2 pi excluded, whatever the
\* agent asks for and however additions round, as long as rounding does not
\* make a non-negative result negative.
THEOREM HeadingsInRange == SteeringSafety => []HeadingInRange
<1>1. SteeringInv => HeadingInRange
  BY DEF SteeringInv, Angle, HeadingInRange
<1>. QED BY <1>1, SteeringInvariant, PTL

\* A step of a loop of NormalizeRad0To2Pi.
LoopAdvances ==
    loop \in {"adding", "subtracting"} =>
      \/ loop' # loop
      \/ loop = "adding" /\ rad < 0 /\ (rad' > rad \/ Absorbed(rad))
      \/ loop = "subtracting" /\ rad >= TwoPi /\ (rad' < rad \/ Absorbed(rad))

\* Each pass of a loop brings the angle nearer to the range, unless the angle
\* is one that absorbs a turn: TurnsWhenTold names the only way not to return.
THEOREM NormalizeAdvances == SteeringSafety => [][LoopAdvances]_steeringVars
<1>1. SteeringInv /\ [SteeringNext]_steeringVars => [LoopAdvances]_steeringVars
  <2>. SUFFICES ASSUME SteeringInv, SteeringNext, loop \in {"adding", "subtracting"},
                       UNCHANGED loop, ~UNCHANGED steeringVars
                PROVE  LoopAdvances
    BY DEF LoopAdvances
  <2>. USE SteeringAssumption, RoundingAssumption
  <2>1. rad \in Doubles /\ rad \in Int /\ TwoPi \in Int
    BY DEF SteeringInv, Angle
  <2>2. CASE AddTurn
    <3>1. rad' \in Int /\ rad' >= rad
      <4>1. rad + TwoPi \in Least .. Greatest
        BY <2>1, <2>2 DEF AddTurn, Doubles
      <4>. QED BY <2>1, <2>2, <4>1 DEF AddTurn
    <3>. QED BY <2>1, <2>2, <3>1 DEF AddTurn, LoopAdvances, Absorbed
  <2>3. CASE SubtractTurn
    <3>1. rad' \in Int /\ rad' <= rad
      <4>1. rad - TwoPi \in Least .. Greatest
        BY <2>1, <2>3 DEF SubtractTurn, Doubles
      <4>. QED BY <2>1, <2>3, <4>1 DEF SubtractTurn, WithoutTurn
    <3>. QED BY <2>1, <2>3, <3>1 DEF SubtractTurn, WithoutTurn, LoopAdvances, Absorbed
  <2>4. pc = "done" => ~ParseCommand
    BY DEF ParseCommand, Parse, NoMoreMatches, IdOverflows, NextMatch,
       FindMatchingBrace, ScanString, ScanCode, BraceFound, BraceMissing, Extract
  <2>5. ~ParseCommand
    BY <2>4 DEF SteeringInv, Angle
  <2>. QED BY <2>2, <2>3, <2>5 DEF SteeringNext, NormalizeRad0To2Pi, EndAdding,
              NextLoop, EndSubtracting, SetHeading, SkipMover, ApplyLatestCommandToMover
<1>. QED BY <1>1, SteeringInvariant, PTL DEF SteeringSafety

-----------------------------------------------------------------------------
(* The records follow the matches one for one.                             *)

\* The parser has passed no id that overflows, and it stops only at one or
\* when no match is left.
Passed ==
    /\ matchPos \in Matches \cup {0}
    /\ \A k \in Matches : k < matchPos => text[k].id # Overflow
    /\ pc = "next" => \A k \in Matches : k <= matchPos => text[k].id # Overflow
    /\ pc = "done" => \/ \A k \in Matches : /\ k <= matchPos
                                          /\ text[k].id # Overflow
                      \/ matchPos \in Matches /\ text[matchPos].id = Overflow

OrderInv == ParserInv /\ Passed /\ ActionsInOrder

\* A text has finitely many matches, so that they can be counted.
LEMMA MatchesFinite ==
  ASSUME message \in Messages, NEW S, S \subseteq Matches
  PROVE  IsFiniteSet(S) /\ Cardinality(S) \in Nat
<1>1. IsFiniteSet(1 .. Len(text))
  BY TextTyped, FS_Interval
<1>2. S \subseteq 1 .. Len(text)
  BY TextTyped
<1>. QED BY <1>1, <1>2, FS_Subset, FS_CardinalityType

\* A parsed match has a record.
LEMMA RankTyped ==
  ASSUME message \in Messages, Passed, NEW k \in Parsed
  PROVE  Rank(k) \in 1 .. Cardinality(Parsed)
<1>. DEFINE S == {j \in Matches : j <= k}
<1>1. Parsed \subseteq Matches /\ Matches \subseteq 1 .. Len(text) /\ Len(text) \in Nat
  BY TextTyped DEF Parsed
<1>2. k \in S /\ S \subseteq Matches
  BY <1>1
<1>3. S \subseteq Parsed
  <2>1. SUFFICES ASSUME NEW j \in S, j # k PROVE j \in Parsed
    OBVIOUS
  <2>2. j \in Matches /\ j \in Nat /\ k \in Nat /\ matchPos \in Nat /\ j < k
    BY <1>1, <2>1 DEF Passed
  <2>3. k <= matchPos
    BY <2>2 DEF Parsed
  <2>4. j < matchPos
    BY <2>2, <2>3
  <2>. QED BY <2>2, <2>4 DEF Passed, Parsed
<1>4. /\ IsFiniteSet(S) /\ Cardinality(S) \in Nat
      /\ IsFiniteSet(Parsed) /\ Cardinality(Parsed) \in Nat
  BY <1>1, <1>2, MatchesFinite
<1>5. Cardinality(S) # 0
  BY <1>2, <1>4, FS_EmptySet
<1>6. Cardinality(S) <= Cardinality(Parsed)
  BY <1>3, <1>4, FS_Subset
<1>. QED BY <1>4, <1>5, <1>6 DEF Rank

\* A step that moves on without parsing or reading anything.
LEMMA SameParsed ==
  ASSUME OrderInv, Passed', UNCHANGED <<message, actions>>, Parsed' = Parsed,
         pc' # "done"
  PROVE  ActionsInOrder'
<1>1. text' = text /\ \A k : Rank(k)' = Rank(k)
  BY DEF text, Rank, Matches
<1>. QED BY <1>1 DEF OrderInv, ActionsInOrder

\* A step that stops the parser.
LEMMA SameParsedDone ==
  ASSUME OrderInv, Passed', UNCHANGED <<message, actions>>, Parsed' = Parsed,
         pc' = "done"
  PROVE  ActionsInOrder'
<1>1. /\ text' = text /\ Matches' = Matches
      /\ \A k : Rank(k)' = Rank(k)
  BY DEF text, Rank, Matches
<1>2. message \in Messages
  BY DEF OrderInv, ParserInv, ParserTypeOK
<1>3. Matches \subseteq 1 .. Len(text) /\ Len(text) \in Nat
  BY <1>2, TextTyped
<1>4. matchPos' \in Matches \cup {0}
  BY <1>1 DEF Passed
<1>5. ASSUME NEW k \in Matches \ Parsed'
      PROVE  \E j \in Matches : j <= k /\ text[j].id = Overflow
  <2>1. \/ text[k].id = Overflow
        \/ k > matchPos'
    BY <1>1, <1>3, <1>4 DEF Parsed
  <2>2. CASE text[k].id = Overflow
    BY <1>3, <2>2
  <2>3. CASE text[k].id # Overflow
    <3>1. matchPos' \in Matches /\ text[matchPos'].id = Overflow
      BY <1>1, <1>3, <1>4, <2>1, <2>3 DEF Passed
    <3>. QED BY <1>3, <2>1, <2>3, <3>1
  <2>. QED BY <2>2, <2>3
<1>. QED BY <1>1, <1>5 DEF OrderInv, ActionsInOrder

\* Every step of the parser keeps track of how far it is: nothing is parsed
\* before the first match, and the match in hand is not parsed yet.
LEMMA PassedStep == ParserInv /\ Passed /\ [Parse]_parserVars => Passed'
<1>. SUFFICES ASSUME ParserInv, Passed, [Parse]_parserVars PROVE Passed'
  OBVIOUS
<1>1. /\ message \in Messages /\ Matches \subseteq 1 .. Len(text) /\ Len(text) \in Nat
  BY TextTyped DEF ParserInv, ParserTypeOK
<1>2. message' = message /\ text' = text /\ Matches' = Matches
  BY DEF Parse, NoMoreMatches, IdOverflows, NextMatch, FindMatchingBrace, ScanString,
     ScanCode, BraceFound, BraceMissing, Extract, parserVars, text, Matches
<1>3. matchPos \in Nat
  BY <1>1 DEF Passed
<1>4. CASE NoMoreMatches
  <2>1. \A k \in Matches : k <= matchPos
    <3>. DEFINE S == {k \in Matches : k > matchPos}
    <3>1. S = {}
      <4>1. SUFFICES ASSUME S # {} PROVE FALSE
        OBVIOUS
      <4>2. First(S) \in S
        <5>1. S \subseteq 1 .. Len(text)
          BY <1>1
        <5>. HIDE DEF S
        <5>. QED BY <1>1, <4>1, <5>1, FirstIsLeast
      <4>. QED BY <1>1, <1>4, <4>2 DEF NoMoreMatches, NextPos, Npos
    <3>. QED BY <1>1, <1>3, <3>1
  <2>. QED BY <1>2, <1>3, <1>4, <2>1 DEF NoMoreMatches, Passed
<1>5. CASE IdOverflows \/ NextMatch
  <2>1. /\ NextPos \in Matches /\ NextPos > matchPos
        /\ \A k \in Matches : k > matchPos => NextPos <= k
        /\ matchPos' = NextPos /\ pc = "next"
    BY <1>1, <1>5, NextPosTyped DEF IdOverflows, NextMatch
  <2>2. \A k \in Matches : k < NextPos => text[k].id # Overflow
    BY <1>1, <1>3, <2>1 DEF Passed
  <2>. QED BY <1>1, <1>2, <1>5, <2>1, <2>2 DEF IdOverflows, NextMatch, Passed
<1>6. CASE \/ FindMatchingBrace \/ ScanString \/ ScanCode
           \/ BraceFound \/ BraceMissing \/ UNCHANGED parserVars
  <2>1. matchPos' = matchPos /\ (pc' = pc \/ pc' \in {"scan", "extract"})
    BY <1>6 DEF FindMatchingBrace, ScanString, ScanCode, BraceFound, BraceMissing,
       parserVars
  <2>. QED BY <1>2, <2>1 DEF Passed
<1>7. CASE Extract
  <2>1. matchPos' = matchPos /\ pc = "extract" /\ pc' = "next"
    BY <1>7 DEF Extract
  <2>2. matchPos \in Matches /\ text[matchPos].id # Overflow
    BY <2>1 DEF ParserInv, MatchInHand
  <2>. QED BY <1>1, <1>2, <2>1, <2>2 DEF Passed
<1>. QED BY <1>4, <1>5, <1>6, <1>7 DEF Parse

\* What a step makes of the parsed matches and their records: nothing, unless
\* it extracts, which appends the record of the next match to be counted.
LEMMA ParsedStep ==
  ASSUME OrderInv, [Parse]_parserVars
  PROVE  /\ message' = message
         /\ \/ Parsed' = Parsed /\ actions' = actions
            \/ /\ Extract
               /\ Parsed' = Parsed \cup {matchPos} /\ matchPos \notin Parsed
               /\ Rank(matchPos) = Len(actions) + 1
               /\ Cardinality(Parsed') = Len(actions) + 1
<1>1. message \in Messages /\ actions \in Seq(Records)
  BY DEF OrderInv, ParserInv, ParserTypeOK
<1>2. Matches \subseteq 1 .. Len(text) /\ Len(text) \in Nat /\ matchPos \in Nat
  BY <1>1, TextTyped DEF OrderInv, Passed
<1>3. message' = message /\ text' = text /\ Matches' = Matches
  BY DEF Parse, NoMoreMatches, IdOverflows, NextMatch, FindMatchingBrace, ScanString,
     ScanCode, BraceFound, BraceMissing, Extract, parserVars, text, Matches
<1>4. CASE NoMoreMatches
  BY <1>3, <1>4 DEF NoMoreMatches, Parsed
<1>5. CASE IdOverflows \/ NextMatch
  <2>1. /\ NextPos \in Matches /\ NextPos > matchPos
        /\ \A k \in Matches : k > matchPos => NextPos <= k
        /\ matchPos' = NextPos /\ pc = "next" /\ actions' = actions
        /\ pc' = "find" \/ text[NextPos].id = Overflow
    BY <1>1, <1>5, NextPosTyped DEF IdOverflows, NextMatch, ActionsOnThrow
  <2>2. \A k \in Matches : k < NextPos <=> k <= matchPos
    BY <1>2, <2>1
  <2>3. ASSUME NEW k \in Matches PROVE k \in Parsed' <=> k \in Parsed
    <3>1. k \in Nat
      BY <1>2
    <3>2. k \in Parsed <=> text[k].id # Overflow /\ k <= matchPos
      BY <1>2, <2>1, <3>1 DEF Parsed
    <3>3. k \in Parsed' <=> text[k].id # Overflow /\ k < NextPos
      BY <1>3, <2>1 DEF Parsed
    <3>. QED BY <2>2, <3>2, <3>3
  <2>4. Parsed \subseteq Matches /\ Parsed' \subseteq Matches
    BY <1>3 DEF Parsed
  <2>5. Parsed' = Parsed
    BY <2>3, <2>4
  <2>. QED BY <1>3, <2>1, <2>5
<1>6. CASE FindMatchingBrace \/ ScanString \/ ScanCode \/ BraceFound \/ BraceMissing
  <2>1. /\ pc \in {"find", "scan"} /\ pc' \in {"scan", "extract"}
        /\ UNCHANGED <<message, matchPos, actions>>
    BY <1>6 DEF FindMatchingBrace, ScanString, ScanCode, BraceFound, BraceMissing
  <2>2. Parsed' = Parsed
    BY <1>3, <2>1 DEF Parsed
  <2>. QED BY <1>3, <2>1, <2>2
<1>7. CASE Extract
  <2>. DEFINE m == matchPos
  <2>1. m \in Matches /\ text[m].id # Overflow
    BY <1>7 DEF Extract, OrderInv, ParserInv, MatchInHand
  <2>2. pc = "extract" /\ pc' = "next" /\ matchPos' = m
    BY <1>7 DEF Extract
  <2>3. /\ Parsed' = {k \in Matches : k <= m}
        /\ Parsed' = Parsed \cup {m} /\ m \notin Parsed
    <3>1. ASSUME NEW k \in Matches
          PROVE  (k \in Parsed <=> k < m) /\ (k \in Parsed' <=> k <= m)
      <4>1. k \in Nat /\ (k < m => text[k].id # Overflow)
        BY <1>2 DEF OrderInv, Passed
      <4>2. k \in Parsed <=> k < m
        BY <2>2, <4>1 DEF Parsed
      <4>3. k \in Parsed' <=> k <= m
        BY <1>2, <1>3, <2>1, <2>2, <4>1 DEF Parsed
      <4>. QED BY <4>2, <4>3
    <3>2. Parsed \subseteq Matches /\ Parsed' \subseteq Matches
      BY <1>3 DEF Parsed
    <3>3. \A k \in Matches : k \in Nat
      BY <1>2
    <3>. HIDE DEF m
    <3>4. Parsed' = {k \in Matches : k <= m}
      BY <3>1, <3>2
    <3>5. m \notin Parsed /\ m \in Parsed'
      BY <2>1, <3>1, <3>3
    <3>6. \A k \in Matches : k \in Parsed' <=> k \in Parsed \/ k = m
      BY <2>1, <3>1, <3>3
    <3>7. Parsed' = Parsed \cup {m}
      BY <3>2, <3>5, <3>6
    <3>. QED BY <3>4, <3>5, <3>7
  <2>4. Parsed \subseteq Matches /\ IsFiniteSet(Parsed) /\ Cardinality(Parsed) \in Nat
    BY <1>1, <2>3, MatchesFinite
  <2>5. Cardinality(Parsed') = Cardinality(Parsed) + 1
    BY <2>3, <2>4, FS_AddElement
  <2>6. Len(actions) = Cardinality(Parsed)
    BY DEF OrderInv, ActionsInOrder
  <2>7. Rank(m) = Cardinality(Parsed')
    BY <2>3 DEF Rank
  <2>. QED BY <1>3, <1>7, <2>3, <2>5, <2>6, <2>7
<1>8. CASE UNCHANGED parserVars
  <2>1. UNCHANGED <<pc, matchPos, actions>>
    BY <1>8 DEF parserVars
  <2>. QED BY <1>3, <2>1 DEF Parsed
<1>. QED BY <1>4, <1>5, <1>6, <1>7, <1>8 DEF Parse

\* A record that is appended is the last, and the record of its match.
LEMMA RecordAppended ==
  ASSUME OrderInv, Extract, Rank(matchPos) = Len(actions) + 1
  PROVE  /\ Len(actions') = Len(actions) + 1
         /\ actions'[Rank(matchPos)] =
              Record(text[matchPos].id, text[matchPos].name, HeadingValue, TargetValue)
         /\ \A k \in Parsed : actions'[Rank(k)] = actions[Rank(k)]
<1> DEFINE rec == Record(text[matchPos].id, text[matchPos].name, HeadingValue,
                         TargetValue)
<1>1. rec \in Records /\ actions' = Append(actions, rec) /\ actions \in Seq(Records)
  BY ExtractTyped DEF OrderInv, ParserInv, ParserTypeOK, Extract
<1>. HIDE DEF rec
<1>2. /\ Len(actions') = Len(actions) + 1
      /\ \A k \in 1 .. Len(actions) : actions'[k] = actions[k]
      /\ actions'[Len(actions) + 1] = rec
  BY <1>1, AppendProperties
<1>3. \A k \in Parsed : Rank(k) \in 1 .. Len(actions)
  BY RankTyped DEF OrderInv, ActionsInOrder, ParserInv, ParserTypeOK
<1>. QED BY <1>2, <1>3 DEF rec

\* Every step of the parser keeps the records in the order of the matches.
LEMMA OrderStep == OrderInv /\ [Parse]_parserVars => OrderInv'
<1>. SUFFICES ASSUME OrderInv, [Parse]_parserVars PROVE OrderInv'
  OBVIOUS
<1>1. ParserInv' /\ Passed'
  BY ParserStepInv, PassedStep DEF OrderInv
<1>2. message' = message
  BY ParsedStep
<1>3. CASE Parsed' = Parsed /\ actions' = actions
  BY <1>1, <1>2, <1>3, SameParsed, SameParsedDone DEF OrderInv
<1>4. CASE /\ Extract
           /\ Parsed' = Parsed \cup {matchPos} /\ matchPos \notin Parsed
           /\ Rank(matchPos) = Len(actions) + 1
           /\ Cardinality(Parsed') = Len(actions) + 1
  <2>1. text' = text /\ Matches' = Matches /\ (\A k : Rank(k)' = Rank(k)) /\ pc' # "done"
    BY <1>2, <1>4 DEF text, Matches, Rank, Extract
  <2>2. /\ Len(actions') = Len(actions) + 1
        /\ actions'[Rank(matchPos)] =
             Record(text[matchPos].id, text[matchPos].name, HeadingValue, TargetValue)
        /\ \A k \in Parsed : actions'[Rank(k)] = actions[Rank(k)]
    BY <1>4, RecordAppended
  <2>3. ASSUME NEW k \in Parsed'
        PROVE  /\ actions'[Rank(k)].platformId = text[k].id
               /\ actions'[Rank(k)].action = text[k].name
    <3>1. CASE k = matchPos
      BY <2>2, <3>1 DEF Record
    <3>2. CASE k \in Parsed
      BY <2>2, <3>2 DEF OrderInv, ActionsInOrder
    <3>. QED BY <1>4, <3>1, <3>2
  <2>4. ActionsInOrder'
    BY <1>4, <2>1, <2>2, <2>3 DEF ActionsInOrder
  <2>. QED BY <1>1, <2>4 DEF OrderInv
<1>. QED BY <1>3, <1>4, ParsedStep

\* The account of matches and records holds in every behaviour.
LEMMA OrderInvariant == SteeringSafety => []OrderInv
<1>1. SteeringInit => OrderInv
  <2>. SUFFICES ASSUME ParserInit PROVE OrderInv
    BY DEF SteeringInit
  <2>1. ParserInv
    BY ParserInitInv
  <2>2. matchPos = 0 /\ pc = "next" /\ actions = <<>> /\ message \in Messages
    BY DEF ParserInit
  <2>3. Matches \subseteq 1 .. Len(text) /\ Len(text) \in Nat
    BY <2>2, TextTyped
  <2>4. Passed
    BY <2>2, <2>3 DEF Passed
  <2>5. Parsed = {}
    <3>1. SUFFICES ASSUME NEW k \in Parsed PROVE FALSE
      OBVIOUS
    <3>2. k \in Matches /\ k <= 0
      BY <2>2, <2>3 DEF Parsed
    <3>. QED BY <2>3, <3>2
  <2>6. Cardinality(Parsed) = 0
    BY <2>5, FS_EmptySet
  <2>7. ActionsInOrder
    BY <2>2, <2>5, <2>6 DEF ActionsInOrder
  <2>. QED BY <2>1, <2>4, <2>7 DEF OrderInv
<1>2. OrderInv /\ [SteeringNext]_steeringVars => OrderInv'
  <2>1. [SteeringNext]_steeringVars => [Parse]_parserVars
    BY DEF SteeringNext, ParseCommand, SkipMover, ApplyLatestCommandToMover,
       NormalizeRad0To2Pi, AddTurn, EndAdding, SubtractTurn, EndSubtracting,
       SetHeading, steeringVars
  <2>. QED BY <2>1, OrderStep
<1>. QED BY <1>1, <1>2, PTL DEF SteeringSafety

\* The parser returns one record per "id"/"action" match, in the order of the
\* text, and stops early only at an id that overflows: for every message, the
\* malformed ones included.
THEOREM ActionsAreInOrder == SteeringSafety => []ActionsInOrder
<1>1. OrderInv => ActionsInOrder
  BY DEF OrderInv
<1>. QED BY <1>1, OrderInvariant, PTL
-----------------------------------------------------------------------------
(* The parser comes to an end.                                             *)

\* What is left to do for the match in hand.
Phase == IF pc = "done" THEN 0
         ELSE IF pc = "next" THEN 1
         ELSE IF pc = "extract" THEN 2
         ELSE IF pc = "scan" THEN 3 + (Len(text) + 1 - i)
         ELSE 5 + Len(text)

\* The next match, or less to do for this one.
Advances == \/ matchPos' > matchPos
            \/ matchPos' = matchPos /\ Phase' < Phase

\* Every step of the parser moves on to a later match or leaves less to do for
\* the one in hand.
LEMMA ParseAdvances == ASSUME ParserInv, Parse PROVE Advances
<1>1. /\ message \in Messages /\ Len(text) \in Nat /\ matchPos \in Nat /\ i \in Nat
      /\ (pc = "scan" => i >= 1 /\ i <= Len(text) + 1)
      /\ Matches \subseteq 1 .. Len(text)
  BY TextTyped DEF ParserInv, ParserTypeOK, Scan
<1>2. text' = text
  BY DEF Parse, NoMoreMatches, IdOverflows, NextMatch, FindMatchingBrace, ScanString,
     ScanCode, BraceFound, BraceMissing, Extract, text
<1>3. CASE IdOverflows \/ NextMatch
  BY <1>1, <1>3, NextPosTyped DEF IdOverflows, NextMatch, Advances
<1>4. CASE FindMatchingBrace
  <2>1. objStart # Npos => objStart \in 1 .. Len(text)
    BY <1>1, ObjStartTyped, TextTyped
  <2>2. pc = "find" /\ Phase = 5 + Len(text)
    BY <1>4 DEF FindMatchingBrace, Phase
  <2>3. matchPos' = matchPos /\ i' = objStart
        /\ pc' = IF objStart = Npos THEN "extract" ELSE "scan"
    BY <1>4 DEF FindMatchingBrace
  <2>4. Phase' = IF objStart = Npos THEN 2 ELSE 3 + (Len(text) + 1 - objStart)
    BY <1>2, <2>3 DEF Phase
  <2>. QED BY <1>1, <2>1, <2>2, <2>3, <2>4 DEF Advances
<1>5. CASE ScanString \/ ScanCode
  <2>1. /\ pc = "scan" /\ pc' = pc /\ i <= Len(text) /\ i' = i + 1
        /\ matchPos' = matchPos
    BY <1>5 DEF ScanString, ScanCode, NextSymbol
  <2>. QED BY <1>1, <1>2, <2>1 DEF Advances, Phase
<1>6. CASE BraceFound \/ BraceMissing
  <2>1. pc = "scan" /\ pc' = "extract" /\ matchPos' = matchPos
    BY <1>6 DEF BraceFound, BraceMissing
  <2>. QED BY <1>1, <2>1 DEF Advances, Phase
<1>7. CASE NoMoreMatches \/ Extract
  BY <1>1, <1>7 DEF NoMoreMatches, Extract, Advances, Phase
<1>. QED BY <1>3, <1>4, <1>5, <1>6, <1>7 DEF Parse

\* The safety part of ParserReturns: whatever the text, each step of the
\* parser moves on to a later match of a finite text, or leaves less to do for
\* the one in hand; it cannot go round for ever.
THEOREM ParserAdvances == SteeringSafety => [][Advances]_parserVars
<1>1. SteeringInv /\ [SteeringNext]_steeringVars => [Advances]_parserVars
  <2>1. [SteeringNext]_steeringVars => [Parse]_parserVars
    BY DEF SteeringNext, ParseCommand, SkipMover, ApplyLatestCommandToMover,
       NormalizeRad0To2Pi, AddTurn, EndAdding, SubtractTurn, EndSubtracting,
       SetHeading, steeringVars
  <2>. QED BY <2>1, ParseAdvances DEF SteeringInv
<1>. QED BY <1>1, SteeringInvariant, PTL DEF SteeringSafety

\* ... between bounds: matches are positions of the text, and nothing is left
\* to do only when the parser has returned.
THEOREM ParserIsBounded ==
  SteeringSafety => [](/\ matchPos \in 0 .. Len(text)
                       /\ Phase \in 0 .. Len(text) + 5
                       /\ Phase = 0 <=> pc = "done")
<1>1. SteeringInv => /\ matchPos \in 0 .. Len(text)
                     /\ Phase \in 0 .. Len(text) + 5
                     /\ Phase = 0 <=> pc = "done"
  <2>. SUFFICES ASSUME SteeringInv
                PROVE  /\ matchPos \in 0 .. Len(text)
                       /\ Phase \in 0 .. Len(text) + 5
                       /\ Phase = 0 <=> pc = "done"
    OBVIOUS
  <2>1. /\ message \in Messages /\ Len(text) \in Nat /\ matchPos \in 0 .. Len(text)
        /\ i \in 0 .. Len(text) + 1 /\ (pc = "scan" => i >= 1)
    BY TextTyped DEF SteeringInv, ParserInv, ParserTypeOK, Scan
  <2>. QED BY <2>1 DEF Phase
<1>. QED BY <1>1, SteeringInvariant, PTL
-----------------------------------------------------------------------------
(* What the records hold.                                                  *)

\* FindMatchingBrace without its loop: in a string or not, at each position
\* from s on.
Outside == [inString |-> FALSE, escape |-> FALSE]

After(q, sym) ==
    IF q.inString
      THEN [inString |-> CASE sym.is = "quote" -> q.escape
                           [] sym.is \in {"action", "number"} -> ~q.escape
                           [] OTHER -> TRUE,
            escape |-> ~q.escape /\ sym.is = "backslash"]
      ELSE [inString |-> sym.is = "quote", escape |-> q.escape]

Lex(t, s) == LET lex[n \in 0 .. Len(t) + 1 - s] ==
                   IF n = 0 THEN Outside ELSE After(lex[n - 1], t[s + n - 1])
             IN  lex

InCode(t, s, k) == ~Lex(t, s)[k - s].inString

\* The braces outside strings from s on and before k, and how deep they nest.
Braces(t, s, k, is) == {j \in s .. k - 1 : InCode(t, s, j) /\ t[j].is = is}

Nesting(t, s, k) ==
    Cardinality(Braces(t, s, k, "open")) - Cardinality(Braces(t, s, k, "close"))

\* The brace at e closes the one at s.
Matching(t, s, e) ==
    /\ e \in s .. Len(t) /\ InCode(t, s, e) /\ t[e].is = "close"
    /\ Nesting(t, s, e + 1) = 0
    /\ \A k \in s + 1 .. e : Nesting(t, s, k) > 0

\* The object around the match at k: from the last opening brace before it to
\* the brace that closes that one, if there are both.
StartOf(t, k) == Last({j \in DOMAIN t : j < k /\ t[j].is = "open"})

EndOf(t, k) == IF StartOf(t, k) = Npos THEN Npos
               ELSE First({e \in DOMAIN t : Matching(t, StartOf(t, k), e)})

SpanOf(t, k) == IF EndOf(t, k) # Npos THEN StartOf(t, k) .. EndOf(t, k)
                ELSE {j \in DOMAIN t : k <= j /\ j < k + SpanLimit}

ValueOf(t, k, key) ==
    LET j == First({l \in SpanOf(t, k) : t[l].is = "number" /\ t[l].key = key})
    IN  IF j = Npos \/ t[j].n = Huge THEN <<>> ELSE <<t[j].n>>

HeadingOf(t, k) == IF ValueOf(t, k, "heading_deg") # <<>>
                     THEN ValueOf(t, k, "heading_deg") ELSE ValueOf(t, k, "heading")

TargetOf(t, k) == IF ValueOf(t, k, "lat") = <<>> \/ ValueOf(t, k, "lon") = <<>> THEN <<>>
                  ELSE <<Head(ValueOf(t, k, "lat")), Head(ValueOf(t, k, "lon"))>>

RecordOf(t, k) == Record(t[k].id, t[k].name, HeadingOf(t, k), TargetOf(t, k))

\* Every record is that of its match and of the object around it.
RecordsOfObjects == \A k \in Parsed : actions[Rank(k)] = RecordOf(text, k)

States == [inString : BOOLEAN, escape : BOOLEAN]

\* A symbol leaves the reading in a string or out of it, escaped or not.
LEMMA AfterType ==
  ASSUME NEW q \in States, NEW sym
  PROVE  After(q, sym) \in States
<1>1. q.inString \in BOOLEAN /\ q.escape \in BOOLEAN
  BY DEF States
<1>2. CASE q.inString
  <2>1. (CASE sym.is = "quote" -> q.escape
           [] sym.is \in {"action", "number"} -> ~q.escape
           [] OTHER -> TRUE) \in BOOLEAN
    <3>1. CASE sym.is = "quote"
      BY <1>1, <3>1
    <3>2. CASE sym.is \in {"action", "number"}
      BY <1>1, <3>2
    <3>3. CASE sym.is \notin {"quote", "action", "number"}
      BY <3>3
    <3>. QED BY <3>1, <3>2, <3>3
  <2>. QED BY <1>1, <1>2, <2>1 DEF After, States
<1>3. CASE ~q.inString
  BY <1>1, <1>3 DEF After, States
<1>. QED BY <1>1, <1>2, <1>3

\* The reading from s on is what its definition says, symbol by symbol.
LEMMA LexDefined ==
  ASSUME NEW t \in Seq(Symbols), NEW s \in DOMAIN t
  PROVE  /\ Lex(t, s)[0] = Outside
         /\ \A n \in 1 .. Len(t) + 1 - s :
              Lex(t, s)[n] = After(Lex(t, s)[n - 1], t[s + n - 1])
<1> DEFINE N == Len(t) + 1 - s
           Pass(n, q) == After(q, t[s + n - 1])
           pass == [nq \in (1 .. N) \X States |-> Pass(nq[1], nq[2])]
           Loop(lex) == lex = [n \in 0 .. N |-> IF n = 0 THEN Outside
                                                ELSE Pass(n, lex[n - 1])]
<1>1. N \in Nat
  BY LenProperties
<1>2. \A n \in 1 .. N, q \in States : Pass(n, q) \in States
  BY AfterType
<1>3. /\ pass \in [(1 .. N) \X States -> States]
      /\ \A n \in 1 .. N, q \in States : pass[<<n, q>>] = Pass(n, q)
  <2>. HIDE DEF Pass
  <2>. QED BY <1>2
<1>. HIDE DEF pass
<1>4. PICK run : LoopRun(run, N, States, Outside, pass)
  <2>. HIDE DEF N
  <2>1. Outside \in States
    BY DEF Outside, States
  <2>. QED BY <1>1, <1>3, <2>1, LoopRuns
<1>5. Loop(run)
  <2>. USE DEF LoopRun
  <2>. HIDE DEF Pass, N
  <2>1. ASSUME NEW n \in 1 .. N PROVE run[n] = Pass(n, run[n - 1])
    <3>1. n - 1 \in 0 .. N
      BY <1>1
    <3>2. run[n - 1] \in States
      BY <1>4, <3>1
    <3>. QED BY <1>3, <1>4, <3>2
  <2>2. \A n \in 0 .. N : run[n] = IF n = 0 THEN Outside ELSE Pass(n, run[n - 1])
    BY <1>1, <1>4, <2>1
  <2>. QED BY <1>4, <2>2
<1>6. Lex(t, s) = CHOOSE lex : Loop(lex)
  BY DEF Lex
<1>7. Loop(Lex(t, s))
  <2>. HIDE DEF Loop
  <2>. QED BY <1>5, <1>6
<1> DEFINE lex == Lex(t, s)
<1>8. lex[0] = Outside /\ \A n \in 1 .. N : lex[n] = Pass(n, lex[n - 1])
  <2>. HIDE DEF lex, Pass, N
  <2>1. lex = [n \in 0 .. N |-> IF n = 0 THEN Outside ELSE Pass(n, lex[n - 1])]
    BY <1>7 DEF lex
  <2>. QED BY <1>1, <2>1
<1>. QED BY <1>8

\* A brace outside strings is one level of nesting; nothing else is.
LEMMA NestingStep ==
  ASSUME NEW t \in Seq(Symbols), NEW s \in DOMAIN t, NEW k \in s .. Len(t)
  PROVE  /\ Nesting(t, s, k) \in Int /\ Nesting(t, s, s) = 0
         /\ Nesting(t, s, k + 1) =
              Nesting(t, s, k) + (IF ~InCode(t, s, k) THEN 0
                               ELSE IF t[k].is = "open" THEN 1
                               ELSE IF t[k].is = "close" THEN -1 ELSE 0)
<1>1. s \in Int /\ k \in Int /\ Len(t) \in Nat
  BY LenProperties
<1>2. ASSUME NEW is
      PROVE  /\ IsFiniteSet(Braces(t, s, k, is)) /\ k \notin Braces(t, s, k, is)
             /\ Braces(t, s, k + 1, is) = IF InCode(t, s, k) /\ t[k].is = is
                                         THEN Braces(t, s, k, is) \cup {k}
                                         ELSE Braces(t, s, k, is)
             /\ Braces(t, s, s, is) = {}
  <2>1. IsFiniteSet(s .. k - 1)
    BY <1>1, FS_Interval
  <2>2. Braces(t, s, k, is) \subseteq s .. k - 1
    BY DEF Braces
  <2>3. IsFiniteSet(Braces(t, s, k, is))
    BY <2>1, <2>2, FS_Subset
  <2>4. s .. (k + 1) - 1 = (s .. k - 1) \cup {k} /\ k \notin s .. k - 1 /\ s .. s - 1 = {}
    BY <1>1
  <2>. QED BY <2>3, <2>4 DEF Braces
<1>3. ASSUME NEW is
      PROVE  /\ Cardinality(Braces(t, s, k, is)) \in Nat /\ Cardinality(Braces(t, s, s, is)) = 0
             /\ Cardinality(Braces(t, s, k + 1, is)) =
                  Cardinality(Braces(t, s, k, is))
                    + (IF InCode(t, s, k) /\ t[k].is = is THEN 1 ELSE 0)
  <2>1. Cardinality(Braces(t, s, k, is)) \in Nat
    BY <1>2, FS_CardinalityType
  <2>2. Cardinality(Braces(t, s, k, is) \cup {k}) = Cardinality(Braces(t, s, k, is)) + 1
    BY <1>2, FS_AddElement
  <2>3. Cardinality(Braces(t, s, s, is)) = 0
    BY <1>2, FS_EmptySet
  <2>4. CASE InCode(t, s, k) /\ t[k].is = is
    <3>1. Braces(t, s, k + 1, is) = Braces(t, s, k, is) \cup {k}
      BY <1>2, <2>4
    <3>. QED BY <2>1, <2>2, <2>3, <2>4, <3>1
  <2>5. CASE ~(InCode(t, s, k) /\ t[k].is = is)
    <3>1. Braces(t, s, k + 1, is) = Braces(t, s, k, is)
      BY <1>2, <2>5
    <3>. QED BY <2>1, <2>3, <2>5, <3>1
  <2>. QED BY <2>4, <2>5
<1>4. /\ Nesting(t, s, s) = Cardinality(Braces(t, s, s, "open")) - Cardinality(Braces(t, s, s, "close"))
      /\ Nesting(t, s, k) = Cardinality(Braces(t, s, k, "open")) - Cardinality(Braces(t, s, k, "close"))
      /\ Nesting(t, s, k + 1) = Cardinality(Braces(t, s, k + 1, "open"))
                               - Cardinality(Braces(t, s, k + 1, "close"))
  BY DEF Nesting
<1>5. \A is \in {"open", "close"} :
        /\ Cardinality(Braces(t, s, k, is)) \in Nat /\ Cardinality(Braces(t, s, s, is)) = 0
        /\ Cardinality(Braces(t, s, k + 1, is)) =
             Cardinality(Braces(t, s, k, is))
               + (IF InCode(t, s, k) /\ t[k].is = is THEN 1 ELSE 0)
  BY <1>3
<1>. HIDE DEF Nesting
<1>6. CASE ~InCode(t, s, k)
  BY <1>4, <1>5, <1>6
<1>7. CASE InCode(t, s, k) /\ t[k].is = "open"
  BY <1>4, <1>5, <1>7
<1>8. CASE InCode(t, s, k) /\ t[k].is = "close"
  BY <1>4, <1>5, <1>8
<1>9. CASE InCode(t, s, k) /\ t[k].is \notin {"open", "close"}
  BY <1>4, <1>5, <1>9
<1>. QED BY <1>6, <1>7, <1>8, <1>9

\* Where the scan is in its object, and what it returned.
ScanInv ==
    /\ pc = "scan" =>
         LET s == objStart
         IN  /\ Lex(text, s)[i - s] = [inString |-> inString, escape |-> escape]
             /\ depth = Nesting(text, s, i)
             /\ \A k \in s + 1 .. i : Nesting(text, s, k) > 0
    /\ pc = "extract" => objEnd = EndOf(text, matchPos)

\* The scan of one more symbol keeps the account of strings and braces.
LEMMA ScanOn ==
  ASSUME ParserInv, ScanInv, ScanString \/ ScanCode
  PROVE  ScanInv'
<1> DEFINE t == text
           s == objStart
<1>1. /\ pc = "scan" /\ pc' = "scan" /\ i <= Len(t) /\ i' = i + 1
      /\ UNCHANGED <<message, matchPos>>
  BY DEF ScanString, ScanCode, NextSymbol
<1>2. text' = t /\ objStart' = s
  BY <1>1 DEF text, objStart
<1>3. t \in Seq(Symbols) /\ Len(t) \in Nat /\ s \in DOMAIN t /\ i \in s .. Len(t)
      /\ DOMAIN t = 1 .. Len(t) /\ depth \in Nat /\ t[s].is = "open"
      /\ (i = s => depth = 0 /\ ~inString) /\ (i > s => depth >= 1)
      /\ inString \in BOOLEAN /\ escape \in BOOLEAN
  BY <1>1, TextTyped DEF ParserInv, ParserTypeOK, Scan
<1>4. /\ Lex(t, s)[i - s] = [inString |-> inString, escape |-> escape]
      /\ depth = Nesting(t, s, i)
      /\ \A k \in s + 1 .. i : Nesting(t, s, k) > 0
  BY <1>1 DEF ScanInv
<1>. HIDE DEF t, s
<1>5. Lex(t, s)[i' - s] = After([inString |-> inString, escape |-> escape], t[i])
  <2>1. /\ i - s + 1 \in 1 .. Len(t) + 1 - s /\ (i - s + 1) - 1 = i - s
        /\ s + (i - s + 1) - 1 = i /\ i' - s = i - s + 1
    BY <1>1, <1>3
  <2>. QED BY <1>3, <1>4, <2>1, LexDefined
<1>6. Lex(t, s)[i' - s] = [inString |-> inString', escape |-> escape']
  <2>1. CASE ScanString
    <3>1. /\ inString /\ escape' = (~escape /\ t[i].is = "backslash")
          /\ inString' = CASE t[i].is = "quote" -> escape
                           [] t[i].is \in {"action", "number"} -> ~escape
                           [] OTHER -> TRUE
      BY <2>1, Zenon DEF ScanString, Escapes, t
    <3>2. After([inString |-> inString, escape |-> escape], t[i]) =
            [inString |-> CASE t[i].is = "quote" -> escape
                            [] t[i].is \in {"action", "number"} -> ~escape
                            [] OTHER -> TRUE,
             escape |-> ~escape /\ t[i].is = "backslash"]
      BY <3>1, Zenon DEF After
    <3>. QED BY <1>5, <3>1, <3>2, Zenon
  <2>2. CASE ScanCode
    <3>1. ~inString /\ escape' = escape /\ inString' = (t[i].is = "quote")
      BY <2>2, Zenon DEF ScanCode, t
    <3>2. After([inString |-> inString, escape |-> escape], t[i]) =
            [inString |-> t[i].is = "quote", escape |-> escape]
      BY <3>1, Zenon DEF After
    <3>. QED BY <1>5, <3>1, <3>2, Zenon
  <2>. QED BY <2>1, <2>2
<1>7. InCode(t, s, i) <=> ~inString
  BY <1>4 DEF InCode
<1>8. depth' = Nesting(t, s, i + 1)
  <2>1. Nesting(t, s, i + 1) =
          Nesting(t, s, i) + (IF inString THEN 0
                              ELSE IF t[i].is = "open" THEN 1
                              ELSE IF t[i].is = "close" THEN -1 ELSE 0)
    BY <1>3, <1>7, NestingStep
  <2>2. CASE ScanString
    BY <1>3, <1>4, <2>1, <2>2 DEF ScanString
  <2>3. CASE ScanCode
    <3>1. /\ ~inString
          /\ depth' = CASE t[i].is = "open"  -> depth + 1
                        [] t[i].is = "close" -> depth - 1
                        [] OTHER -> depth
      BY <2>3 DEF ScanCode, t
    <3>. QED BY <1>3, <1>4, <2>1, <3>1
  <2>. QED BY <2>2, <2>3
<1>9. depth' > 0
  <2>1. CASE ScanString
    BY <1>3, <2>1 DEF ScanString
  <2>2. CASE ScanCode
    <3>1. /\ ~Closes(t[i])
          /\ depth' = CASE t[i].is = "open"  -> depth + 1
                        [] t[i].is = "close" -> depth - 1
                        [] OTHER -> depth
      BY <2>2 DEF ScanCode, t
    <3>. QED BY <1>3, <3>1 DEF Closes
  <2>. QED BY <2>1, <2>2
<1>10. \A k \in s + 1 .. i' : Nesting(t, s, k) > 0
  BY <1>1, <1>3, <1>4, <1>8, <1>9
<1>11. Lex(text', s)[i' - s] = [inString |-> inString', escape |-> escape']
       /\ depth' = Nesting(text', s, i')
       /\ \A k \in s + 1 .. i' : Nesting(text', s, k) > 0
  BY <1>1, <1>2, <1>6, <1>8, <1>10
<1>. QED BY <1>1, <1>2, <1>11 DEF ScanInv

\* No brace before the scan closes the object.
LEMMA NotYet ==
  ASSUME ParserInv, ScanInv, pc = "scan", NEW e \in DOMAIN text, e < i
  PROVE  ~Matching(text, objStart, e)
<1>1. /\ objStart \in Int /\ i \in Int /\ Len(text) \in Nat /\ e \in Int
      /\ \A k \in objStart + 1 .. i : Nesting(text, objStart, k) > 0
  BY TextTyped DEF ParserInv, ParserTypeOK, Scan, ScanInv
<1>2. SUFFICES ASSUME e \in objStart .. Len(text), Nesting(text, objStart, e + 1) = 0
               PROVE  FALSE
  BY DEF Matching
<1>3. e + 1 \in objStart + 1 .. i
  BY <1>1, <1>2
<1>. QED BY <1>1, <1>2, <1>3

\* The scan starts outside strings with no brace counted, and ends at the
\* brace that closes the object, or past the text if there is none.
LEMMA ScanStep == ASSUME ParserInv, ScanInv, [Parse]_parserVars PROVE ScanInv'
<1>1. /\ message \in Messages /\ text \in Seq(Symbols) /\ Len(text) \in Nat
      /\ DOMAIN text = 1 .. Len(text)
  BY TextTyped DEF ParserInv, ParserTypeOK
<1>2. message' = message /\ text' = text
  BY DEF Parse, NoMoreMatches, IdOverflows, NextMatch, FindMatchingBrace, ScanString,
     ScanCode, BraceFound, BraceMissing, Extract, parserVars, text
<1>3. StartOf(text, matchPos) = objStart
  BY DEF StartOf, objStart
<1>4. CASE FindMatchingBrace
  <2>1. /\ matchPos' = matchPos /\ i' = objStart /\ depth' = 0
        /\ inString' = FALSE /\ escape' = FALSE /\ objEnd' = Npos
        /\ pc' = IF objStart = Npos THEN "extract" ELSE "scan"
    BY <1>4, Zenon DEF FindMatchingBrace
  <2>2. objStart' = objStart
    BY <1>2, <2>1 DEF objStart
  <2>3. CASE objStart = Npos
    <3>1. EndOf(text, matchPos) = Npos
      BY <1>3, <2>3 DEF EndOf
    <3>. QED BY <1>2, <2>1, <2>3, <3>1 DEF ScanInv
  <2>4. CASE objStart # Npos
    <3>1. objStart \in 1 .. Len(text)
      BY <1>1, <2>4, ObjStartTyped
    <3>2. Lex(text, objStart)[0] = Outside
      BY <1>1, <3>1, LexDefined
    <3>3. objStart \in objStart .. Len(text)
      BY <3>1
    <3>4. Nesting(text, objStart, objStart) = 0
      BY <1>1, <3>1, <3>3, NestingStep
    <3>5. i' - objStart = 0 /\ objStart + 1 .. i' = {} /\ pc' = "scan"
      BY <2>1, <2>4, <3>1
    <3>6. Lex(text, objStart)[i' - objStart]
            = [inString |-> inString', escape |-> escape']
      BY <2>1, <3>2, <3>5, Zenon DEF Outside
    <3>. QED BY <1>2, <2>1, <2>2, <3>4, <3>5, <3>6 DEF ScanInv
  <2>. QED BY <2>3, <2>4
<1>5. CASE ScanString \/ ScanCode
  BY <1>5, ScanOn
<1>6. CASE BraceFound
  <2>1. /\ pc = "scan" /\ i <= Len(text) /\ ~inString /\ text[i].is = "close"
        /\ depth = 1 /\ matchPos' = matchPos /\ objEnd' = i /\ pc' = "extract"
    BY <1>6 DEF BraceFound, Closes
  <2>2. /\ objStart \in DOMAIN text /\ i \in Int /\ objStart <= i /\ i # objStart
        /\ objStart # Npos
    BY <1>1, <2>1 DEF ParserInv, ParserTypeOK, Scan, Npos
  <2>3. /\ Lex(text, objStart)[i - objStart] = [inString |-> inString, escape |-> escape]
        /\ depth = Nesting(text, objStart, i)
        /\ \A k \in objStart + 1 .. i : Nesting(text, objStart, k) > 0
    BY <2>1 DEF ScanInv
  <2>4. InCode(text, objStart, i)
    BY <2>1, <2>3 DEF InCode
  <2>5. Nesting(text, objStart, i + 1) = 0
    <3>1. i \in objStart .. Len(text)
      BY <1>1, <2>1, <2>2
    <3>2. Nesting(text, objStart, i + 1) = Nesting(text, objStart, i) + (-1)
      BY <1>1, <2>1, <2>2, <2>4, <3>1, NestingStep
    <3>. QED BY <2>1, <2>3, <3>2
  <2>6. Matching(text, objStart, i) /\ i \in DOMAIN text
    BY <1>1, <2>1, <2>2, <2>3, <2>4, <2>5 DEF Matching
  <2> DEFINE S == {e \in DOMAIN text : Matching(text, objStart, e)}
  <2>7. \A e \in S : i <= e
    BY <1>1, <2>1, <2>2, NotYet
  <2>8. i \in S /\ S \subseteq 1 .. Len(text)
    BY <1>1, <2>6
  <2>9. First(S) = i
    <3>. HIDE DEF S
    <3>1. First(S) \in S /\ \A e \in S : First(S) <= e
      BY <1>1, <2>8, FirstIsLeast
    <3>2. First(S) \in 1 .. Len(text)
      BY <2>8, <3>1
    <3>3. First(S) \in Int
      BY <1>1, <3>2
    <3>4. i <= First(S) /\ First(S) <= i
      BY <2>7, <2>8, <3>1
    <3>. QED BY <2>2, <3>3, <3>4
  <2>10. EndOf(text, matchPos) = i
    BY <1>3, <2>2, <2>9 DEF EndOf
  <2>. QED BY <1>2, <2>1, <2>10 DEF ScanInv
<1>7. CASE BraceMissing
  <2>1. /\ pc = "scan" /\ i > Len(text) /\ pc' = "extract"
        /\ UNCHANGED <<matchPos, objEnd>>
    BY <1>7 DEF BraceMissing
  <2> DEFINE S == {e \in DOMAIN text : Matching(text, objStart, e)}
  <2>2. S = {}
    <3>1. \A e \in DOMAIN text : e < i
      BY <1>1, <2>1 DEF ParserInv, ParserTypeOK
    <3>. QED BY <2>1, <3>1, NotYet
  <2>3. EndOf(text, matchPos) = Npos
    BY <1>3, <2>2 DEF EndOf, First
  <2>4. objEnd = Npos
    BY <2>1 DEF ParserInv, Scan
  <2>. QED BY <1>2, <2>1, <2>3, <2>4 DEF ScanInv
<1>8. CASE NoMoreMatches \/ IdOverflows \/ NextMatch \/ Extract
  BY <1>8 DEF NoMoreMatches, IdOverflows, NextMatch, Extract, ScanInv
<1>9. CASE UNCHANGED parserVars
  <2>1. /\ UNCHANGED <<pc, matchPos, i, depth, inString, escape, objEnd>>
        /\ objStart' = objStart
    BY <1>2, <1>9 DEF parserVars, scanVars, objStart
  <2>. QED BY <1>2, <2>1 DEF ScanInv
<1>. QED BY <1>4, <1>5, <1>6, <1>7, <1>8, <1>9 DEF Parse

\* What Extract appends is the record of the match and of its object.
LEMMA ExtractsRecord ==
  ASSUME ParserInv, ScanInv, pc = "extract"
  PROVE  Record(text[matchPos].id, text[matchPos].name, HeadingValue, TargetValue)
           = RecordOf(text, matchPos)
<1>1. /\ message \in Messages /\ Len(text) \in Nat /\ DOMAIN text = 1 .. Len(text)
      /\ objEnd = EndOf(text, matchPos)
  BY TextTyped DEF ParserInv, ParserTypeOK, ScanInv
<1>2. StartOf(text, matchPos) = objStart
  BY DEF StartOf, objStart
<1>3. objStart # Npos /\ objEnd > objStart <=> objEnd # Npos
  <2>1. CASE objStart = Npos
    BY <1>1, <1>2, <2>1 DEF EndOf
  <2>2. CASE objStart # Npos
    <3> DEFINE S == {e \in DOMAIN text : Matching(text, objStart, e)}
    <3>1. objEnd = First(S)
      BY <1>1, <1>2, <2>2 DEF EndOf
    <3>2. objStart \in 1 .. Len(text) /\ text[objStart].is = "open"
      BY <1>1, <2>2, ObjStartTyped
    <3>3. S \subseteq 1 .. Len(text) /\ \A e \in S : e > objStart
      BY <1>1, <3>2 DEF Matching
    <3>4. CASE S = {}
      BY <3>1, <3>2, <3>4 DEF First, Npos
    <3>5. CASE S # {}
      <4>1. First(S) \in S
        <5>. HIDE DEF S
        <5>. QED BY <1>1, <3>3, <3>5, FirstIsLeast
      <4>. QED BY <2>2, <3>1, <3>2, <3>3, <4>1 DEF Npos
    <3>. QED BY <3>4, <3>5
  <2>. QED BY <2>1, <2>2
<1>4. Span = SpanOf(text, matchPos)
  BY <1>1, <1>2, <1>3 DEF Span, SpanOf
<1>5. \A key : NumberValue(key) = ValueOf(text, matchPos, key)
  BY <1>4 DEF NumberValue, ValueOf
<1>6. /\ HeadingValue = HeadingOf(text, matchPos)
      /\ TargetValue = TargetOf(text, matchPos)
  BY <1>5 DEF HeadingValue, HeadingOf, TargetValue, TargetOf
<1>. QED BY <1>6 DEF RecordOf

\* Every step keeps the records those of their objects.
LEMMA RecordsStep ==
  ASSUME OrderInv, ScanInv, RecordsOfObjects, [Parse]_parserVars
  PROVE  RecordsOfObjects'
<1>1. /\ message' = message
      /\ \/ Parsed' = Parsed /\ actions' = actions
         \/ /\ Extract
            /\ Parsed' = Parsed \cup {matchPos}
            /\ Rank(matchPos) = Len(actions) + 1
  BY ParsedStep
<1>2. text' = text /\ \A k : Rank(k)' = Rank(k)
  BY <1>1 DEF text, Rank, Matches
<1>3. ASSUME NEW k \in Parsed' PROVE actions'[Rank(k)] = RecordOf(text, k)
  <2>1. CASE Parsed' = Parsed /\ actions' = actions
    BY <1>3, <2>1 DEF RecordsOfObjects
  <2>2. CASE /\ Extract
             /\ Parsed' = Parsed \cup {matchPos}
             /\ Rank(matchPos) = Len(actions) + 1
    <3>1. /\ actions'[Rank(matchPos)] =
               Record(text[matchPos].id, text[matchPos].name, HeadingValue, TargetValue)
          /\ \A j \in Parsed : actions'[Rank(j)] = actions[Rank(j)]
      BY <2>2, RecordAppended
    <3>2. Record(text[matchPos].id, text[matchPos].name, HeadingValue, TargetValue)
            = RecordOf(text, matchPos)
      BY <2>2, ExtractsRecord DEF Extract, OrderInv
    <3>. QED BY <1>3, <2>2, <3>1, <3>2 DEF RecordsOfObjects
  <2>. QED BY <1>1, <2>1, <2>2
<1>. QED BY <1>2, <1>3 DEF RecordsOfObjects

\* The parser reads what is there: for every text, braces, quotes and escapes
\* as they may be, each record holds the id and the action of its match and
\* the first numbers of each name between the last opening brace before the
\* match and the brace that closes it, counting no brace of a string.
THEOREM RecordsAreOfTheirObjects == SteeringSafety => [](ScanInv /\ RecordsOfObjects)
<1>1. SteeringInit => ScanInv /\ RecordsOfObjects
  <2>. SUFFICES ASSUME ParserInit PROVE ScanInv /\ RecordsOfObjects
    BY DEF SteeringInit
  <2>1. pc = "next" /\ matchPos = 0 /\ message \in Messages
    BY DEF ParserInit
  <2>2. Matches \subseteq 1 .. Len(text) /\ Len(text) \in Nat
    BY <2>1, TextTyped
  <2>3. \A k \in Parsed : FALSE
    BY <2>1, <2>2 DEF Parsed
  <2>. QED BY <2>1, <2>3 DEF ScanInv, RecordsOfObjects
<1>2. OrderInv /\ ScanInv /\ RecordsOfObjects /\ [SteeringNext]_steeringVars
        => ScanInv' /\ RecordsOfObjects'
  <2>1. [SteeringNext]_steeringVars => [Parse]_parserVars
    BY DEF SteeringNext, ParseCommand, SkipMover, ApplyLatestCommandToMover,
       NormalizeRad0To2Pi, AddTurn, EndAdding, SubtractTurn, EndSubtracting,
       SetHeading, steeringVars
  <2>. QED BY <2>1, RecordsStep, ScanStep DEF OrderInv
<1>. QED BY <1>1, <1>2, OrderInvariant, PTL DEF SteeringSafety
-----------------------------------------------------------------------------
(* The documented format: strings by their quotes, objects by their braces. *)

\* A backslash escapes the next symbol unless it is escaped itself.
LEMMA EscapedStep ==
  ASSUME NEW t \in Seq(Symbols)
  PROVE  /\ ~Escaped(t, 1)
         /\ \A j \in DOMAIN t :
              Escaped(t, j + 1) <=> t[j].is = "backslash" /\ ~Escaped(t, j)
<1> DEFINE S(j) == {l \in 1 .. j - 1 : t[l].is # "backslash"}
<1>1. \A j : Escaped(t, j) <=> (j - 1 - Last(S(j))) % 2 = 1
  BY DEF Escaped
<1>2. ~Escaped(t, 1)
  <2>1. S(1) = {}
    OBVIOUS
  <2>2. Last(S(1)) = 0
    BY <2>1 DEF Last, Npos
  <2>. QED BY <1>1, <2>2
<1>3. ASSUME NEW j \in DOMAIN t
      PROVE  Escaped(t, j + 1) <=> t[j].is = "backslash" /\ ~Escaped(t, j)
  <2>1. j \in Nat /\ j >= 1 /\ j \in 1 .. (j + 1) - 1 /\ (j + 1) - 1 = j
    OBVIOUS
  <2>2. CASE t[j].is # "backslash"
    <3>1. j \in S(j + 1) /\ S(j + 1) \subseteq 1 .. j
      BY <2>1, <2>2
    <3>2. Last(S(j + 1)) = j
      <4>. HIDE DEF S
      <4>1. Last(S(j + 1)) \in 1 .. j /\ j <= Last(S(j + 1))
        BY <2>1, <3>1, LastIsGreatest
      <4>. QED BY <2>1, <4>1
    <3>. HIDE DEF S
    <3>3. Escaped(t, j + 1) <=> (j - j) % 2 = 1
      BY <1>1, <2>1, <3>2
    <3>. QED BY <2>1, <2>2, <3>3
  <2>3. CASE t[j].is = "backslash"
    <3>1. S(j + 1) = S(j) /\ S(j) \subseteq 1 .. j - 1
      BY <2>1, <2>3
    <3>2. Last(S(j)) \in 0 .. j - 1
      <4>1. CASE S(j) = {}
        BY <2>1, <4>1 DEF Last, Npos
      <4>2. CASE S(j) # {}
        <5>. HIDE DEF S
        <5>1. S(j) \subseteq 1 .. j - 1 /\ j - 1 \in Nat
          BY <2>1, <3>1
        <5>2. Last(S(j)) \in S(j)
          BY <4>2, <5>1, LastIsGreatest
        <5>. QED BY <2>1, <3>1, <5>2
      <4>. QED BY <4>1, <4>2
    <3>. HIDE DEF S
    <3>. DEFINE d == j - 1 - Last(S(j))
    <3>3. d \in Nat /\ (Escaped(t, j) <=> d % 2 = 1)
      BY <1>1, <2>1, <3>2
    <3>4. (j + 1) - 1 - Last(S(j + 1)) = d + 1
      BY <2>1, <3>1, <3>2
    <3>5. Escaped(t, j + 1) <=> (d + 1) % 2 = 1
      BY <1>1, <3>4
    <3>6. (d + 1) % 2 = 1 <=> ~(d % 2 = 1)
      <4>. HIDE DEF d
      <4>. QED BY <3>3
    <3>. QED BY <2>3, <3>3, <3>5, <3>6
  <2>. QED BY <2>2, <2>3
<1>. QED BY <1>2, <1>3

\* A quote that is not escaped opens or closes a string; nothing else does.
LEMMA QuotedStep ==
  ASSUME NEW t \in Seq(Symbols), NEW k \in DOMAIN t
  PROVE  Quoted(t, k + 1) <=> IF t[k].is = "quote" /\ ~Escaped(t, k)
                                THEN ~Quoted(t, k) ELSE Quoted(t, k)
<1>1. k \in Nat /\ k >= 1 /\ (k + 1) - 1 = k
  OBVIOUS
<1>2. /\ IsFiniteSet(Delimiters(t, k)) /\ k \notin Delimiters(t, k)
      /\ Cardinality(Delimiters(t, k)) \in Nat
  <2>1. Delimiters(t, k) \subseteq 1 .. k - 1
    BY DEF Delimiters
  <2>2. k - 1 \in Int
    BY <1>1
  <2>3. IsFiniteSet(1 .. k - 1)
    BY <2>2, FS_Interval
  <2>4. IsFiniteSet(Delimiters(t, k))
    BY <2>1, <2>3, FS_Subset
  <2>. QED BY <1>1, <2>1, <2>4, FS_CardinalityType
<1>3. CASE t[k].is = "quote" /\ ~Escaped(t, k)
  <2>1. Delimiters(t, k + 1) = Delimiters(t, k) \cup {k}
    BY <1>1, <1>3 DEF Delimiters
  <2>2. Cardinality(Delimiters(t, k + 1)) = Cardinality(Delimiters(t, k)) + 1
    BY <1>2, <2>1, FS_AddElement
  <2>. QED BY <1>2, <1>3, <2>2 DEF Quoted
<1>4. CASE ~(t[k].is = "quote" /\ ~Escaped(t, k))
  <2>1. Delimiters(t, k + 1) = Delimiters(t, k)
    BY <1>1, <1>4 DEF Delimiters
  <2>. QED BY <1>4, <2>1 DEF Quoted
<1>. QED BY <1>3, <1>4

\* In the documented format nothing is escaped outside of strings.
LEMMA NothingIsEscaped ==
  ASSUME NEW t \in Seq(Symbols), InFormat(t), NEW k \in 1 .. Len(t) + 1, ~Quoted(t, k)
  PROVE  ~Escaped(t, k)
<1>1. CASE k = 1
  BY <1>1, EscapedStep
<1>2. CASE k # 1
  <2>1. k - 1 \in DOMAIN t /\ (k - 1) + 1 = k
    BY <1>2
  <2>2. SUFFICES ASSUME Escaped(t, k) PROVE FALSE
    OBVIOUS
  <2>3. t[k - 1].is = "backslash"
    BY <2>1, <2>2, EscapedStep
  <2>4. Quoted(t, k - 1)
    BY <2>1, <2>3 DEF InFormat
  <2>. QED BY <2>1, <2>3, <2>4, QuotedStep
<1>. QED BY <1>1, <1>2

\* What one symbol of the format does to the reading.
LEMMA AfterReads ==
  ASSUME NEW q \in States, NEW sym
  PROVE  /\ After(q, sym).escape <=> IF q.inString
                                       THEN ~q.escape /\ sym.is = "backslash"
                                       ELSE q.escape
         /\ ~(q.inString /\ sym.is \in {"action", "number"}) =>
              (After(q, sym).inString <=> IF sym.is = "quote" /\ ~(q.inString /\ q.escape)
                                            THEN ~q.inString ELSE q.inString)
<1>1. q.inString \in BOOLEAN /\ q.escape \in BOOLEAN
  BY DEF States
<1>2. CASE q.inString
  <2> DEFINE in == CASE sym.is = "quote" -> q.escape
                     [] sym.is \in {"action", "number"} -> ~q.escape
                     [] OTHER -> TRUE
  <2>1. After(q, sym) = [inString |-> in, escape |-> ~q.escape /\ sym.is = "backslash"]
    BY <1>2, Zenon DEF After
  <2>2. After(q, sym).inString = in
        /\ After(q, sym).escape = (~q.escape /\ sym.is = "backslash")
    <3>. HIDE DEF in
    <3>. QED BY <2>1
  <2>3. CASE sym.is = "quote"
    <3>1. in = q.escape
      BY <2>3
    <3>. QED BY <1>1, <1>2, <2>2, <2>3, <3>1
  <2>4. CASE sym.is \notin {"quote", "action", "number"}
    <3>1. in = TRUE
      BY <2>4
    <3>. QED BY <1>1, <1>2, <2>2, <2>4, <3>1
  <2>5. CASE sym.is \in {"action", "number"}
    BY <1>1, <1>2, <2>2, <2>5
  <2>. QED BY <2>3, <2>4, <2>5
<1>3. CASE ~q.inString
  <2>1. After(q, sym) = [inString |-> sym.is = "quote", escape |-> q.escape]
    BY <1>3, Zenon DEF After
  <2>2. After(q, sym).inString = (sym.is = "quote") /\ After(q, sym).escape = q.escape
    BY <2>1
  <2>. QED BY <1>1, <1>3, <2>2
<1>. QED BY <1>1, <1>2, <1>3

\* In the documented format the parser's reading of strings, begun at an
\* opening brace, is that of the delimiting quotes.
LEMMA LexIsQuoted ==
  ASSUME NEW t \in Seq(Symbols), InFormat(t), NEW s \in DOMAIN t, ~Quoted(t, s)
  PROVE  \A k \in s .. Len(t) + 1 : InCode(t, s, k) <=> ~Quoted(t, k)
<1> DEFINE N == Len(t) + 1 - s
           lex == Lex(t, s)
           P == {n \in 0 .. N : /\ lex[n] \in States
                                /\ lex[n].inString <=> Quoted(t, s + n)
                                /\ lex[n].escape <=> Escaped(t, s + n)}
<1>1. s \in Nat /\ s >= 1 /\ Len(t) \in Nat /\ s <= Len(t) /\ N \in Nat
  OBVIOUS
<1>2. 0 \in P
  <2>1. lex[0] = Outside
    BY LexDefined
  <2>2. Outside \in States /\ Outside.inString = FALSE /\ Outside.escape = FALSE
    BY DEF Outside, States
  <2>3. s \in 1 .. Len(t) + 1 /\ s + 0 = s /\ 0 \in 0 .. N
    BY <1>1
  <2>4. ~Escaped(t, s)
    BY <2>3, NothingIsEscaped
  <2>. HIDE DEF lex, N
  <2>. QED BY <2>1, <2>2, <2>3, <2>4
<1>3. ASSUME NEW n \in 1 .. N, n - 1 \in P PROVE n \in P
  <2> DEFINE k == s + (n - 1)
  <2>1. /\ k \in DOMAIN t /\ s + n = k + 1 /\ s + n - 1 = k
        /\ n \in 0 .. N /\ k \in 1 .. Len(t) + 1
    BY <1>1
  <2>2. /\ lex[n - 1] \in States
        /\ lex[n - 1].inString <=> Quoted(t, k)
        /\ lex[n - 1].escape <=> Escaped(t, k)
    BY <1>3
  <2>3. lex[n] = After(lex[n - 1], t[k])
    <3>. HIDE DEF k
    <3>. QED BY <2>1, LexDefined
  <2>. HIDE DEF k, lex
  <2>. DEFINE q == lex[n - 1]
              sym == t[k]
  <2>4. /\ sym.is = "backslash" => q.inString
        /\ sym.is \in {"action", "number"} => ~q.inString
    BY <2>1, <2>2 DEF InFormat
  <2>5. q.escape => q.inString
    BY <2>1, <2>2, NothingIsEscaped
  <2>6. /\ Quoted(t, k + 1) <=> IF sym.is = "quote" /\ ~q.escape
                                  THEN ~q.inString ELSE q.inString
        /\ Escaped(t, k + 1) <=> sym.is = "backslash" /\ ~q.escape
    BY <2>1, <2>2, QuotedStep, EscapedStep
  <2>7. After(q, sym) \in States
    BY <2>2, AfterType
  <2>8. /\ After(q, sym).escape <=> IF q.inString
                                      THEN ~q.escape /\ sym.is = "backslash"
                                      ELSE q.escape
        /\ After(q, sym).inString <=> IF sym.is = "quote" /\ ~(q.inString /\ q.escape)
                                        THEN ~q.inString ELSE q.inString
    BY <2>2, <2>4, AfterReads
  <2>. HIDE DEF q, sym
  <2>9. /\ After(q, sym).inString <=> Quoted(t, k + 1)
        /\ After(q, sym).escape <=> Escaped(t, k + 1)
    BY <2>4, <2>5, <2>6, <2>8
  <2>10. lex[n] = After(q, sym)
    BY <2>3 DEF q, sym
  <2>. QED BY <2>1, <2>7, <2>9, <2>10
<1>4. 0 .. N \subseteq P
  <2>. HIDE DEF P, N
  <2>. QED BY <1>1, <1>2, <1>3, LoopInduction
<1>5. ASSUME NEW k \in s .. Len(t) + 1 PROVE InCode(t, s, k) <=> ~Quoted(t, k)
  <2>1. k - s \in 0 .. N /\ s + (k - s) = k
    BY <1>1
  <2>2. k - s \in P
    <3>. HIDE DEF P, N
    <3>. QED BY <1>4, <2>1
  <2>3. lex[k - s].inString <=> Quoted(t, k)
    <3>. HIDE DEF lex, N
    <3>. QED BY <2>1, <2>2
  <2>. QED BY <2>3 DEF InCode
<1>. QED BY <1>5

\* ... so that it counts the braces outside of strings,
LEMMA BracesAreBare ==
  ASSUME NEW t \in Seq(Symbols), InFormat(t), NEW s \in DOMAIN t, ~Quoted(t, s),
         NEW k \in s .. Len(t)
  PROVE  Nesting(t, s, k + 1) = Cardinality(Bare(t, s, k, "open"))
                                - Cardinality(Bare(t, s, k, "close"))
<1>1. /\ s \in Nat /\ k \in Nat /\ Len(t) \in Nat /\ k <= Len(t) /\ s <= k
      /\ (k + 1) - 1 = k
  OBVIOUS
<1>2. \A j \in s .. k : InCode(t, s, j) <=> ~Quoted(t, j)
  BY <1>1, LexIsQuoted
<1>3. \A is : Braces(t, s, k + 1, is) = Bare(t, s, k, is)
  BY <1>1, <1>2 DEF Braces, Bare
<1>. QED BY <1>3 DEF Nesting

\* Braces are finite in number.
LEMMA BareTyped ==
  ASSUME NEW t, NEW s \in Int, NEW k \in Int, NEW is
  PROVE  Cardinality(Bare(t, s, k, is)) \in Nat
<1>1. Bare(t, s, k, is) \subseteq s .. k
  BY DEF Bare
<1>2. IsFiniteSet(s .. k)
  BY FS_Interval
<1>. QED BY <1>1, <1>2, FS_Subset, FS_CardinalityType

\* ... and finds the brace that encloses the object, the only one that does.
LEMMA EnclosesIsMatching ==
  ASSUME NEW t \in Seq(Symbols), InFormat(t), NEW s \in DOMAIN t, ~Quoted(t, s),
         NEW e \in DOMAIN t, Encloses(t, s, e)
  PROVE  /\ \A x \in DOMAIN t : Encloses(t, s, x) => x = e
         /\ First({x \in DOMAIN t : Matching(t, s, x)}) = e
<1>1. /\ s \in Nat /\ e \in Nat /\ Len(t) \in Nat /\ DOMAIN t = 1 .. Len(t)
  OBVIOUS
<1>2. ASSUME NEW x \in DOMAIN t PROVE Encloses(t, s, x) <=> Matching(t, s, x)
  <2>1. x \in Nat /\ x <= Len(t)
    OBVIOUS
  <2>2. x \in Bare(t, s, x, "close") <=>
          x \in s .. Len(t) /\ InCode(t, s, x) /\ t[x].is = "close"
    BY <1>1, <2>1, LexIsQuoted DEF Bare
  <2>3. SUFFICES ASSUME s <= x
                 PROVE  /\ Nesting(t, s, x + 1) = 0 <=>
                             Cardinality(Bare(t, s, x, "open"))
                               = Cardinality(Bare(t, s, x, "close"))
                        /\ (\A k \in s + 1 .. x : Nesting(t, s, k) > 0) <=>
                             \A k \in s .. x - 1 :
                               Cardinality(Bare(t, s, k, "open"))
                                 > Cardinality(Bare(t, s, k, "close"))
    <3>1. s <= x <=> x \in s .. x
      BY <1>1, <2>1
    <3>. QED BY <1>1, <2>1, <2>2, <3>1 DEF Encloses, Matching, Bare
  <2>4. ASSUME NEW k \in s .. x
        PROVE  /\ Cardinality(Bare(t, s, k, "open")) \in Nat
               /\ Cardinality(Bare(t, s, k, "close")) \in Nat
               /\ Nesting(t, s, k + 1) = Cardinality(Bare(t, s, k, "open"))
                                         - Cardinality(Bare(t, s, k, "close"))
    <3>1. k \in s .. Len(t) /\ k \in Int /\ s \in Int
      BY <1>1, <2>1
    <3>. QED BY <3>1, BareTyped, BracesAreBare
  <2>5. Nesting(t, s, x + 1) = 0 <=> Cardinality(Bare(t, s, x, "open"))
                                       = Cardinality(Bare(t, s, x, "close"))
    <3>1. x \in s .. x
      BY <1>1, <2>1, <2>3
    <3>. QED BY <2>4, <3>1
  <2>6. (\A k \in s + 1 .. x : Nesting(t, s, k) > 0) <=>
          \A k \in s .. x - 1 : Nesting(t, s, k + 1) > 0
    <3>1. \A k \in s .. x - 1 : k + 1 \in s + 1 .. x
      BY <1>1, <2>1
    <3>2. \A k \in s + 1 .. x : k - 1 \in s .. x - 1 /\ (k - 1) + 1 = k
      BY <1>1, <2>1
    <3>. QED BY <3>1, <3>2
  <2>7. \A k \in s .. x - 1 : Nesting(t, s, k + 1) > 0 <=>
          Cardinality(Bare(t, s, k, "open")) > Cardinality(Bare(t, s, k, "close"))
    <3>1. \A k \in s .. x - 1 : k \in s .. x
      BY <1>1, <2>1
    <3>. QED BY <2>4, <3>1
  <2>. QED BY <2>5, <2>6, <2>7
<1>3. ASSUME NEW x \in DOMAIN t, NEW y \in DOMAIN t, x < y, Matching(t, s, x),
             Matching(t, s, y)
      PROVE  FALSE
  <2>1. Nesting(t, s, x + 1) = 0 /\ x \in Nat /\ y \in Nat /\ s <= x
    BY <1>1, <1>3 DEF Matching
  <2>2. x + 1 \in s + 1 .. y
    BY <1>1, <1>3, <2>1
  <2>3. Nesting(t, s, x + 1) > 0
    BY <1>3, <2>2 DEF Matching
  <2>. QED BY <2>1, <2>3
<1>4. ASSUME NEW x \in DOMAIN t PROVE Matching(t, s, x) <=> x = e
  <2>1. x \in Nat /\ (x < e \/ x = e \/ e < x)
    BY <1>1
  <2>2. Matching(t, s, e)
    BY <1>2
  <2>. QED BY <1>3, <2>1, <2>2
<1>5. {x \in DOMAIN t : Matching(t, s, x)} = {e}
  BY <1>4
<1>6. First({e}) = e
  BY <1>1 DEF First
<1>. QED BY <1>2, <1>4, <1>5, <1>6

\* The object around a match is the one the format says.
LEMMA ObjectAsDocumented ==
  ASSUME NEW t \in Seq(Symbols), InFormat(t), NEW k \in MatchesIn(t)
  PROVE  SpanOf(t, k) = k - 1 .. EndOfObject(t, k) /\ SpanOf(t, k) \subseteq DOMAIN t
<1>1. /\ k \in DOMAIN t /\ t[k].is = "action" /\ ~Quoted(t, k)
      /\ k - 1 \in DOMAIN t /\ t[k - 1].is = "open"
      /\ \E e \in DOMAIN t : Encloses(t, k - 1, e)
  BY DEF InFormat, MatchesIn
<1>2. k \in Nat /\ Len(t) \in Nat /\ DOMAIN t = 1 .. Len(t) /\ (k - 1) + 1 = k
  BY <1>1
<1>3. ~Quoted(t, k - 1)
  BY <1>1, <1>2, QuotedStep
<1>4. StartOf(t, k) = k - 1
  <2> DEFINE S == {j \in DOMAIN t : j < k /\ t[j].is = "open"}
  <2>1. k - 1 \in S /\ S \subseteq 1 .. Len(t) /\ \A j \in S : j \in Nat /\ j < k
    BY <1>1, <1>2
  <2>2. Last(S) \in S /\ k - 1 <= Last(S)
    <3>. HIDE DEF S
    <3>. QED BY <1>2, <2>1, LastIsGreatest
  <2>3. Last(S) = k - 1
    <3>. HIDE DEF S
    <3>1. Last(S) \in Nat /\ Last(S) < k
      BY <2>1, <2>2
    <3>. QED BY <1>2, <2>2, <3>1
  <2>. QED BY <2>3 DEF StartOf
<1>5. PICK e \in DOMAIN t : Encloses(t, k - 1, e)
  BY <1>1
<1>6. /\ \A x \in DOMAIN t : Encloses(t, k - 1, x) => x = e
      /\ First({x \in DOMAIN t : Matching(t, k - 1, x)}) = e
  BY <1>1, <1>3, <1>5, EnclosesIsMatching
<1>7. EndOfObject(t, k) = e
  BY <1>5, <1>6 DEF EndOfObject
<1>8. EndOf(t, k) = e /\ e # Npos
  BY <1>1, <1>2, <1>4, <1>6 DEF EndOf, Npos
<1>. QED BY <1>1, <1>2, <1>4, <1>7, <1>8 DEF SpanOf

\* The first field of a name is the only one, and its number the parameter.
LEMMA ValueAsDocumented ==
  ASSUME NEW t \in Seq(Symbols), InFormat(t), NEW k \in MatchesIn(t), NEW key \in Keys
  PROVE  ValueOf(t, k, key) = Parameter(t, k, key)
<1> DEFINE F == Fields(t, k, key)
           values == {t[l].n : l \in F} \ {Huge}
<1>1. /\ F = {l \in SpanOf(t, k) : t[l].is = "number" /\ t[l].key = key}
      /\ SpanOf(t, k) \subseteq DOMAIN t
  BY ObjectAsDocumented DEF Fields
<1>2. \A j, l \in F : j = l
  BY DEF InFormat
<1>3. ValueOf(t, k, key) = IF First(F) = Npos \/ t[First(F)].n = Huge
                             THEN <<>> ELSE <<t[First(F)].n>>
  BY <1>1 DEF ValueOf
<1>4. Parameter(t, k, key) = IF values = {} THEN <<>>
                               ELSE <<CHOOSE n \in values : TRUE>>
  BY DEF Parameter
<1>5. CASE F = {}
  <2>1. First(F) = Npos /\ values = {}
    BY <1>5 DEF First
  <2>. QED BY <1>3, <1>4, <2>1
<1>6. CASE F # {}
  <2>1. PICK l \in F : F = {l}
    BY <1>2, <1>6
  <2>2. l \in DOMAIN t /\ l \in Nat /\ l >= 1
    BY <1>1, <2>1
  <2>3. First(F) = l /\ l # Npos
    BY <2>1, <2>2 DEF First, Npos
  <2>4. values = {t[l].n} \ {Huge}
    BY <2>1
  <2>. HIDE DEF F, values
  <2>5. CASE t[l].n = Huge
    BY <1>3, <1>4, <2>3, <2>4, <2>5
  <2>6. CASE t[l].n # Huge
    <3>1. values = {t[l].n}
      BY <2>4, <2>6
    <3>2. (CHOOSE n \in values : TRUE) = t[l].n
      BY <3>1
    <3>. QED BY <1>3, <1>4, <2>3, <2>6, <3>1, <3>2
  <2>. QED BY <2>5, <2>6
<1>. QED BY <1>5, <1>6

\* What the parser records of an action is what the agent meant by it.
LEMMA RecordAsDocumented ==
  ASSUME NEW t \in Seq(Symbols), InFormat(t), NEW k \in MatchesIn(t)
  PROVE  RecordOf(t, k) = Meaning(t, k)
<1>1. \A key \in Keys : ValueOf(t, k, key) = Parameter(t, k, key)
  BY ValueAsDocumented
<1>2. /\ ValueOf(t, k, "heading_deg") = Parameter(t, k, "heading_deg")
      /\ ValueOf(t, k, "heading") = Parameter(t, k, "heading")
      /\ ValueOf(t, k, "lat") = Parameter(t, k, "lat")
      /\ ValueOf(t, k, "lon") = Parameter(t, k, "lon")
  BY <1>1 DEF Keys
<1>. QED BY <1>2 DEF RecordOf, HeadingOf, TargetOf, Meaning

\* A parser that has returned has parsed the actions that count.
LEMMA ParsedIsMeant ==
  ASSUME ParserInv, Passed, pc = "done"
  PROVE  /\ Parsed = Meant(text)
         /\ \A k \in Meant(text) : Rank(k) = Cardinality({j \in Meant(text) : j <= k})
<1>1. /\ Matches = MatchesIn(text) /\ Matches \subseteq 1 .. Len(text) /\ Len(text) \in Nat
      /\ \A k \in Matches : k \in Nat
  BY TextTyped DEF ParserInv, ParserTypeOK, Matches, MatchesIn
<1>2. Parsed = {k \in Matches : text[k].id # Overflow /\ (k < matchPos \/ k = matchPos)}
  BY DEF Parsed
<1>3. Meant(text) = {k \in Matches : \A j \in Matches : j <= k => text[j].id # Overflow}
  BY <1>1 DEF Meant
<1>4. matchPos \in Nat /\ \A k \in Matches : k < matchPos => text[k].id # Overflow
  BY <1>1 DEF Passed
<1>5. ASSUME NEW k \in Matches PROVE k \in Parsed <=> k \in Meant(text)
  <2>1. CASE \A j \in Matches : j <= matchPos /\ text[j].id # Overflow
    BY <1>1, <1>2, <1>3, <1>4, <2>1
  <2>2. CASE matchPos \in Matches /\ text[matchPos].id = Overflow
    BY <1>1, <1>2, <1>3, <1>4, <2>2
  <2>. QED BY <2>1, <2>2 DEF Passed
<1>6. Parsed = Meant(text)
  BY <1>2, <1>3, <1>5
<1>7. ASSUME NEW k \in Meant(text)
      PROVE  {j \in Matches : j <= k} = {j \in Meant(text) : j <= k}
  BY <1>1, <1>3
<1>. QED BY <1>6, <1>7 DEF Rank

\* A message in the documented format means to the collector what the agent
\* said: for every text of that format, however deep its braces nest and
\* whatever its strings hold, ParseAgentActionsByRegex returns the actions up to
\* the first id that overflows, each with its own parameters.
THEOREM ParsesAsDocumented == SteeringSafety => []ParsesWhatWasSaid
<1>1. OrderInv /\ RecordsOfObjects => ParsesWhatWasSaid
  <2>. SUFFICES ASSUME OrderInv, RecordsOfObjects, pc = "done", message.documented
                PROVE  actions = message.means
    BY DEF ParsesWhatWasSaid
  <2> DEFINE means == message.means
  <2>1. /\ message \in Messages /\ text \in Seq(Symbols) /\ actions \in Seq(Records)
        /\ InFormat(text) /\ means \in Seq(Records) /\ Says(text, means)
    BY TextTyped, DocumentedAssumption DEF OrderInv, ParserInv, ParserTypeOK, text
  <2>2. /\ Parsed = Meant(text)
        /\ \A k \in Meant(text) : Rank(k) = Cardinality({j \in Meant(text) : j <= k})
    BY ParsedIsMeant DEF OrderInv
  <2>. HIDE DEF means
  <2>3. Len(actions) = Len(means)
    BY <2>1, <2>2 DEF OrderInv, ActionsInOrder, Says
  <2>4. ASSUME NEW n \in 1 .. Len(means) PROVE actions[n] = means[n]
    <3>1. n \in DOMAIN means
      BY <2>1
    <3>2. PICK k \in Meant(text) : /\ n = Cardinality({j \in Meant(text) : j <= k})
                                   /\ means[n] = Meaning(text, k)
      BY <2>1, <3>1 DEF Says
    <3>3. actions[Rank(k)] = RecordOf(text, k) /\ Rank(k) = n
      BY <2>2, <3>2 DEF RecordsOfObjects
    <3>4. k \in MatchesIn(text)
      BY DEF Meant
    <3>. QED BY <2>1, <3>2, <3>3, <3>4, RecordAsDocumented
  <2>5. actions = means
    BY <2>1, <2>3, <2>4, SeqEqual
  <2>. QED BY <2>5 DEF means
<1>. QED BY <1>1, OrderInvariant, RecordsAreOfTheirObjects, PTL
=============================================================================
