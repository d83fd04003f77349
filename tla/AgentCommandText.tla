-------------------------- MODULE AgentCommandText --------------------------
(***************************************************************************)
(* How the collector reads a command of the agent: ParseAgentActionsByRegex*)
(* over the text of one datagram, with FindMatchingBrace as its inner      *)
(* loop, one step per symbol.  The text is a sequence of symbols: braces,  *)
(* quotes and backslashes as they stand, and as one symbol each of         *)
(* what the regular expressions match, "id": N, "action": A and            *)
(* "key": N.  Any other character is an "other".                           *)
(***************************************************************************)
EXTENDS Integers, Sequences, FiniteSets

CONSTANTS Ids,       \* values of "id"
          Overflow,  \* the one among them that does not fit an int
          Names,     \* values of "action"
          Numbers,   \* values of a number field
          Huge,      \* the one among them that does not fit a double
          Messages,  \* what may arrive: a text and what it was meant to say
          SpanLimit  \* symbols taken when the braces do not match

Keys == {"heading_deg", "heading", "lat", "lon"}

Symbols == [is : {"open", "close", "quote", "backslash", "other"}]
           \cup [is : {"action"}, id : Ids, name : Names]
           \cup [is : {"number"}, key : Keys, n : Numbers]

\* A record the parser produces; a value it did not find is the empty tuple.
Record(id, name, heading, target) ==
    [platformId |-> id, action |-> name, heading |-> heading,
     target |-> target]

\* documented: the text has the format the parser is written for.
ASSUME ParserAssumption ==
    /\ \A m \in Messages : m.text \in Seq(Symbols)
    /\ SpanLimit \in Nat \ {0}

VARIABLES
    message,         \* the datagram
    pc,              \* where the parser is
    matchPos,        \* position of the current match, 0 before the first
    i, depth, inString, escape,  \* locals of FindMatchingBrace
    objEnd,          \* what it returned
    actions          \* the records so far

scanVars == <<i, depth, inString, escape>>
parserVars == <<message, pc, matchPos, scanVars, objEnd, actions>>

text == message.text
Npos == 0

Matches == {k \in DOMAIN text : text[k].is = "action"}

\* k is the greatest, or least, element of S, or Npos if there is none.
Last(S)  == IF S = {} THEN Npos ELSE CHOOSE k \in S : \A j \in S : j <= k
First(S) == IF S = {} THEN Npos ELSE CHOOSE k \in S : \A j \in S : k <= j

\* rfind: the last opening brace before the match, in a string or not.
objStart == Last({k \in DOMAIN text : k < matchPos /\ text[k].is = "open"})

ParserInit ==
    /\ message \in Messages
    /\ pc = "next" /\ matchPos = 0
    /\ i = 0 /\ depth = 0 /\ inString = FALSE /\ escape = FALSE
    /\ objEnd = Npos
    /\ actions = <<>>
-----------------------------------------------------------------------------
(* The loop over the matches of the "id"/"action" expression.              *)

NextPos == First({k \in Matches : k > matchPos})

NoMoreMatches ==
    /\ pc = "next" /\ NextPos = Npos
    /\ pc' = "done"
    /\ UNCHANGED <<message, matchPos, scanVars, objEnd, actions>>

\* Mutant: the exception discards what was parsed before.
NoActions == <<>>

\* stoi throws: the records so far are returned.
ActionsOnThrow == actions

IdOverflows ==
    /\ pc = "next" /\ NextPos # Npos
    /\ text[NextPos].id = Overflow
    /\ matchPos' = NextPos
    /\ actions' = ActionsOnThrow
    /\ pc' = "done"
    /\ UNCHANGED <<message, scanVars, objEnd>>

NextMatch ==
    /\ pc = "next" /\ NextPos # Npos
    /\ text[NextPos].id # Overflow
    /\ matchPos' = NextPos
    /\ pc' = "find"
    /\ UNCHANGED <<message, scanVars, objEnd, actions>>
-----------------------------------------------------------------------------
(* FindMatchingBrace.                                                      *)

FindMatchingBrace ==
    /\ pc = "find"
    /\ i' = objStart /\ depth' = 0 /\ inString' = FALSE /\ escape' = FALSE
    /\ objEnd' = Npos
    /\ pc' = IF objStart = Npos THEN "extract" ELSE "scan"
    /\ UNCHANGED <<message, matchPos, actions>>

\* Mutant: the shortcut for strings forgets to advance.
NextSymbolInCode == IF inString THEN i ELSE i + 1

NextSymbol == i + 1

\* Mutant: an escaped quote ends a string.
EscapesIgnored(sym) == FALSE

Escapes(sym) == inString /\ ~escape /\ sym.is = "backslash"

\* Inside a string only its end counts.  A matched field holds an even number
\* of quotes: it changes nothing unless the first of them is escaped.
ScanString ==
    /\ pc = "scan" /\ i <= Len(text) /\ inString
    /\ escape' = Escapes(text[i])
    /\ inString' = CASE text[i].is = "quote" -> escape
                     [] text[i].is \in {"action", "number"} -> ~escape
                     [] OTHER -> TRUE
    /\ i' = NextSymbol
    /\ UNCHANGED <<message, pc, matchPos, depth, objEnd, actions>>

\* Mutant: the brace is compared before it is counted.
ClosesBelowZero(sym) == sym.is = "close" /\ depth < 0

\* The brace that brings the depth to zero.
Closes(sym) == sym.is = "close" /\ depth = 1

ScanCode ==
    /\ pc = "scan" /\ i <= Len(text) /\ ~inString
    /\ ~Closes(text[i])
    /\ inString' = (text[i].is = "quote")
    /\ depth' = CASE text[i].is = "open"  -> depth + 1
                  [] text[i].is = "close" -> depth - 1
                  [] OTHER -> depth
    /\ i' = NextSymbol
    /\ UNCHANGED <<message, pc, matchPos, escape, objEnd, actions>>

BraceFound ==
    /\ pc = "scan" /\ i <= Len(text) /\ ~inString
    /\ Closes(text[i])
    /\ depth' = depth - 1
    /\ objEnd' = i
    /\ pc' = "extract"
    /\ UNCHANGED <<message, matchPos, i, inString, escape, actions>>

BraceMissing ==
    /\ pc = "scan" /\ i > Len(text)
    /\ pc' = "extract"
    /\ UNCHANGED <<message, matchPos, scanVars, objEnd, actions>>
-----------------------------------------------------------------------------
(* Extraction of the fields of one object.                                 *)

\* The object around the match, or else a stretch of text from the match on.
Span == IF objStart # Npos /\ objEnd > objStart
          THEN objStart .. objEnd
          ELSE {k \in DOMAIN text : matchPos <= k /\ k < matchPos + SpanLimit}

\* ExtractNumberValue: the first field of that name in the span; one that
\* overflows is caught there and counts as missing.
NumberValue(key) ==
    LET k == First({j \in Span : /\ text[j].is = "number"
                                 /\ text[j].key = key})
    IN  IF k = Npos \/ text[k].n = Huge THEN <<>> ELSE <<text[k].n>>

HeadingValue == IF NumberValue("heading_deg") # <<>>
                  THEN NumberValue("heading_deg") ELSE NumberValue("heading")

\* A target needs both coordinates.
TargetValue == IF NumberValue("lat") = <<>> \/ NumberValue("lon") = <<>>
                 THEN <<>>
                 ELSE <<Head(NumberValue("lat")), Head(NumberValue("lon"))>>

Extract ==
    /\ pc = "extract"
    /\ actions' = Append(actions, Record(text[matchPos].id, text[matchPos].name,
                                         HeadingValue, TargetValue))
    /\ pc' = "next"
    /\ UNCHANGED <<message, matchPos, scanVars, objEnd>>

Parse ==
    \/ NoMoreMatches \/ IdOverflows \/ NextMatch
    \/ FindMatchingBrace \/ ScanString \/ ScanCode \/ BraceFound \/ BraceMissing
    \/ Extract

ParserSpec == ParserInit /\ [][Parse]_parserVars /\ WF_parserVars(Parse)
-----------------------------------------------------------------------------
(* The documented format, {"id": 9, "action": "SET_HEADING", "parameters": *)
(* {...}}, as JSON has it and whatever the parser does: what is in a string *)
(* is said by the delimiting quotes from the beginning of the text, and an *)
(* object is enclosed by the braces outside of strings.                    *)

\* An odd number of backslashes ends right before j.
Escaped(t, j) ==
    (j - 1 - Last({l \in 1 .. j - 1 : t[l].is # "backslash"})) % 2 = 1

\* The quotes that open or close a string, up to and without k.
Delimiters(t, k) == {l \in 1 .. k - 1 : t[l].is = "quote" /\ ~Escaped(t, l)}

Quoted(t, k) == Cardinality(Delimiters(t, k)) % 2 = 1

\* The braces from s to e that are outside of strings.
Bare(t, s, e, is) == {l \in s .. e : t[l].is = is /\ ~Quoted(t, l)}

\* The brace at e closes the one at s.
Encloses(t, s, e) ==
    /\ e \in Bare(t, s, e, "close")
    /\ Cardinality(Bare(t, s, e, "open")) = Cardinality(Bare(t, s, e, "close"))
    /\ \A k \in s .. e - 1 :
         Cardinality(Bare(t, s, k, "open")) > Cardinality(Bare(t, s, k, "close"))

MatchesIn(t) == {k \in DOMAIN t : t[k].is = "action"}

EndOfObject(t, k) == CHOOSE e \in DOMAIN t : Encloses(t, k - 1, e)

Fields(t, k, key) == {l \in k - 1 .. EndOfObject(t, k) :
                        t[l].is = "number" /\ t[l].key = key}

\* {"id": .., "action": .., ..}: the match opens its object, which ends, and
\* names no field twice; and nothing but strings holds backslashes, and strings
\* hold nothing that reads like a field.
InFormat(t) ==
    /\ \A k \in DOMAIN t :
         /\ t[k].is = "backslash" => Quoted(t, k)
         /\ t[k].is \in {"action", "number"} => ~Quoted(t, k)
    /\ \A k \in MatchesIn(t) :
         /\ k - 1 \in DOMAIN t /\ t[k - 1].is = "open"
         /\ \E e \in DOMAIN t : Encloses(t, k - 1, e)
         /\ \A key \in Keys : \A j, l \in Fields(t, k, key) : j = l

\* The number of that name in the object, if it is one that a double holds.
Parameter(t, k, key) ==
    LET values == {t[l].n : l \in Fields(t, k, key)} \ {Huge}
    IN  IF values = {} THEN <<>> ELSE <<CHOOSE n \in values : TRUE>>

Meaning(t, k) ==
    Record(t[k].id, t[k].name,
           IF Parameter(t, k, "heading_deg") # <<>>
             THEN Parameter(t, k, "heading_deg") ELSE Parameter(t, k, "heading"),
           IF <<>> \in {Parameter(t, k, "lat"), Parameter(t, k, "lon")}
             THEN <<>>
             ELSE <<Head(Parameter(t, k, "lat")), Head(Parameter(t, k, "lon"))>>)

\* The actions with an id that fits, before the first one without.
Meant(t) == {k \in MatchesIn(t) :
               \A j \in MatchesIn(t) : j <= k => t[j].id # Overflow}

\* The records say, in their order, what those actions mean.
Says(t, records) ==
    /\ Len(records) = Cardinality(Meant(t))
    /\ \A n \in DOMAIN records :
         \E k \in Meant(t) : /\ n = Cardinality({j \in Meant(t) : j <= k})
                             /\ records[n] = Meaning(t, k)

Read == Numbers \ {Huge}
Records == [platformId : Ids \ {Overflow}, action : Names,
            heading : {<<>>} \cup {<<n>> : n \in Read},
            target : {<<>>} \cup (Read \X Read)]

ASSUME DocumentedAssumption ==
    \A m \in Messages : m.documented =>
      InFormat(m.text) /\ m.means \in Seq(Records) /\ Says(m.text, m.means)
-----------------------------------------------------------------------------
ParserTypeOK ==
    /\ message \in Messages
    /\ pc \in {"next", "find", "scan", "extract", "done"}
    /\ matchPos \in 0 .. Len(text)
    /\ i \in 0 .. Len(text) + 1
    /\ depth \in Nat
    /\ inString \in BOOLEAN /\ escape \in BOOLEAN
    /\ objEnd \in 0 .. Len(text)
    /\ actions \in Seq(Records)

\* A message in the documented format means to the collector what the agent
\* said: every action with its own parameters and no other's, whatever braces,
\* quotes and backslashes its strings hold; up to the first id that overflows.
ParsesWhatWasSaid ==
    pc = "done" /\ message.documented => actions = message.means

\* Whatever the text, the records are those of the matches in their order,
\* none skipped, none repeated, up to the first id that overflows.
Parsed == {k \in Matches : /\ text[k].id # Overflow
                           /\ \/ k < matchPos
                              \/ k = matchPos /\ pc \in {"next", "done"}}

Rank(k) == Cardinality({j \in Matches : j <= k})

ActionsInOrder ==
    /\ Len(actions) = Cardinality(Parsed)
    /\ \A k \in Parsed : /\ actions[Rank(k)].platformId = text[k].id
                         /\ actions[Rank(k)].action = text[k].name
    /\ pc = "done" => \A k \in Matches \ Parsed :
                        \E j \in Matches : j <= k /\ text[j].id = Overflow

\* The parser comes back to the simulation thread, whatever the text.
ParserReturns == <>(pc = "done")
=============================================================================
