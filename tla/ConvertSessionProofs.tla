------------------------- MODULE ConvertSessionProofs -------------------------
(***************************************************************************)
(* What `convert` prints: the parser's invariants carry over to the whole  *)
(* command, and on top of them stands what the walk of the exporter has    *)
(* written at each point, so that the promises about the transcript follow *)
(* from those about the trajectory.  All of it is about a log that is      *)
(* converted; for a trajectory of another producer, which export_with_     *)
(* report takes as it is, these properties say nothing.                    *)
(***************************************************************************)
EXTENDS ConvertSession, AccountingProofs

-----------------------------------------------------------------------------
(***************************************************************************)
(* The parser, as a part of the command.                                   *)
(***************************************************************************)

\* Only the agent makes calls.
CallsByAgent == \A i \in DOMAIN steps : steps[i].tool_calls # <<>> => steps[i].source = "agent"

ParserInv ==
    TypeInv /\ CorrelationInv /\ TrafficInv /\ DeliveryInv /\ TurnsInv /\ CallsByAgent

\* A step gets calls only from the record of an assistant.
LEMMA CallsByAgentStep ==
    ASSUME TypeInv, CorrelationInv, TurnsInv, CallsByAgent, [AnyNext]_vars
    PROVE  CallsByAgent'
<1>1. \A i \in DOMAIN steps : steps'[i].source = steps[i].source
  BY TurnEffect DEF TurnsInv
<1>2. CASE UNCHANGED steps
  BY <1>2 DEF CallsByAgent
<1>3. CASE AttachResult
  <2> PICK s : s = tool_call_steps[NextResult.source_call_id]
    OBVIOUS
  <2>1. DOMAIN steps' = DOMAIN steps /\ \A i \in DOMAIN steps : steps'[i].tool_calls = steps[i].tool_calls
    BY <1>3, AttachEffect
  <2> QED
    BY <1>1, <2>1 DEF CallsByAgent
<1>4. ASSUME Finishing, NEW s, steps' = Append(steps, s), s.tool_calls = tool_calls
      PROVE  CallsByAgent'
  <2> PICK n : n = Len(steps) + 1
    OBVIOUS
  <2>1. /\ DOMAIN steps' = DOMAIN steps \cup {n} /\ n \notin DOMAIN steps /\ steps'[n] = s
        /\ \A i \in DOMAIN steps : steps'[i] = steps[i]
    BY <1>4, AppendStep, StepFields
  <2>2. StepOf(steps'[n], line_number)
    BY <1>4, <2>1, TurnEffect DEF TurnsInv
  <2>3. tool_calls # <<>> => record.role = "assistant"
    BY <1>4, EndEffect DEF Finishing, TypeInv, LocalsOK
  <2> QED
    BY <1>4, <2>1, <2>2, <2>3 DEF CallsByAgent, StepOf, record
<1> QED
  BY <1>2, <1>3, <1>4, PlacesStep DEF Finishing

\* Every step of the command is one of the parser or leaves the parser alone.
LEMMA ParserInvStep ==
    ASSUME ParserInv, [ConvertNext]_convertVars
    PROVE  ParserInv'
<1>1. [AnyNext]_vars
  BY NextIsAny DEF ConvertNext, Parse, ExportSession, Ended, convertVars
<1> QED
  BY <1>1, TypeInvStep, CorrelationStep, TrafficStep, DeliveryStep, TurnsInvStep, CallsByAgentStep
     DEF ParserInv

\* The parser begins as ever.
LEMMA ParserInvInit == ConvertInit => ParserInv
BY TypeInvInit, CorrelationInit, TrafficInit, DeliveryInit, TurnsInvInit
   DEF ConvertInit, ParserInv, CallsByAgent, Init

-----------------------------------------------------------------------------
(***************************************************************************)
(* The walk of the exporter over the steps.  A place is a step's own line, *)
(* <<i, 0>>, or its n-th result, <<i, n>>.                                 *)
(***************************************************************************)

\* The walk is past the place <<i, n>>.
Past(i, n) == i < step_at \/ (i = step_at /\ n < result_at)

\* The lines that a transcript of a log may have.
TranscriptLines ==
    [type : {"USER_INPUT", "PLANNER_RESPONSE", "TOOL_RESPONSE"}, created_at : Nat,
     content : SUBSET Nat,
     tool_calls : Seq(CallIds), step : Nat, result : Nat]

\* What line t says of the place it was written for.
LineOK(t) ==
    LET line == transcript_lines[t] IN
    /\ line.step \in DOMAIN steps /\ Past(line.step, line.result)
    /\ line.created_at = Time(steps[line.step].source_line)
    /\ line.result = 0 =>
          /\ steps[line.step].source # "system"
          /\ line.type = Export!LineType(steps[line.step].source)
          /\ line.tool_calls = steps[line.step].tool_calls
    /\ line.result # 0 =>
          /\ line.result \in DOMAIN steps[line.step].observation
          /\ line.type = "TOOL_RESPONSE"

\* There is a line for the place <<i, n>>.
Written(i, n) ==
    \E t \in DOMAIN transcript_lines : transcript_lines[t].step = i /\ transcript_lines[t].result = n

LinesInOrder ==
    \A t, k \in DOMAIN transcript_lines :
        t < k => \/ transcript_lines[t].step < transcript_lines[k].step
                 \/ /\ transcript_lines[t].step = transcript_lines[k].step
                    /\ transcript_lines[t].result < transcript_lines[k].result

\* The system messages that the walk is past.
Silent == {i \in DOMAIN steps : Past(i, 0) /\ steps[i].source = "system"}

WalkType ==
    /\ step_at \in 1 .. Len(steps) + 1 /\ result_at \in Nat
    /\ IF step_at \in DOMAIN steps THEN result_at <= Len(steps[step_at].observation) + 1
                                   ELSE result_at = 0
    /\ transcript_lines \in Seq(TranscriptLines)
    /\ payload \in BOOLEAN

\* Before the parser is through the walk has not begun, and it ends at the end.
WalkPhase ==
    /\ pc # "done" => /\ transcript_lines = <<>> /\ step_at = 1 /\ result_at = 0
                      /\ omitted_system_messages = 0 /\ ~payload
    /\ payload => step_at = Len(steps) + 1

WalkInv ==
    /\ WalkType
    /\ WalkPhase
    /\ \A t \in DOMAIN transcript_lines : LineOK(t)
    /\ LinesInOrder
    /\ \A i \in DOMAIN steps :
          /\ steps[i].source # "system" /\ Past(i, 0) => Written(i, 0)
          /\ \A n \in DOMAIN steps[i].observation : Past(i, n) => Written(i, n)
    /\ omitted_system_messages = Cardinality(Silent)

WalkOfLog == other = <<>> => WalkInv

\* Redaction keeps the steps, and of each its source, its calls and its results' places.
LEMMA RedactedSteps ==
    ASSUME TypeInv, other = <<>>
    PROVE  /\ DOMAIN redacted = DOMAIN steps /\ Len(redacted) = Len(steps)
           /\ \A i \in DOMAIN steps :
                 /\ redacted[i].source = steps[i].source
                 /\ redacted[i].timestamp = Time(steps[i].source_line)
                 /\ redacted[i].tool_calls = steps[i].tool_calls
                 /\ redacted[i].message \in {<<>>, <<"text">>}
                 /\ DOMAIN redacted[i].observation = DOMAIN steps[i].observation
                 /\ Len(redacted[i].observation) = Len(steps[i].observation)
                 /\ \A n \in DOMAIN steps[i].observation :
                       redacted[i].observation[n].content = <<"text">>
<1>1. redacted =
        [i \in DOMAIN steps |->
            [source      |-> steps[i].source,
             timestamp   |-> Time(steps[i].source_line),
             message     |-> IF steps[i].message THEN <<"text">> ELSE <<>>,
             tool_calls  |-> steps[i].tool_calls,
             observation |-> [n \in DOMAIN steps[i].observation |-> [content |-> <<"text">>]]]]
  BY DEF redacted
<1>2. DOMAIN redacted = DOMAIN steps /\ Len(redacted) = Len(steps)
  BY <1>1, StepFields
<1>3. ASSUME NEW i \in DOMAIN steps
      PROVE  /\ redacted[i].source = steps[i].source
             /\ redacted[i].timestamp = Time(steps[i].source_line)
             /\ redacted[i].tool_calls = steps[i].tool_calls
             /\ redacted[i].message \in {<<>>, <<"text">>}
             /\ redacted[i].observation =
                   [n \in DOMAIN steps[i].observation |-> [content |-> <<"text">>]]
  BY <1>1
<1>4. ASSUME NEW i \in DOMAIN steps
      PROVE  /\ DOMAIN redacted[i].observation = DOMAIN steps[i].observation
             /\ Len(redacted[i].observation) = Len(steps[i].observation)
             /\ \A n \in DOMAIN steps[i].observation :
                   redacted[i].observation[n].content = <<"text">>
  <2> PICK old, new : old = steps[i].observation /\ new = redacted[i].observation
    OBVIOUS
  <2>1. old \in Seq(Result) /\ new = [n \in DOMAIN old |-> [content |-> <<"text">>]]
    BY <1>3, StepFields
  <2>2. DOMAIN old = 1 .. Len(old) /\ Len(old) \in Nat
    BY <2>1
  <2>3. DOMAIN new = DOMAIN old /\ \A n \in DOMAIN old : new[n].content = <<"text">>
    BY <2>1
  <2>4. Len(new) = Len(old)
    BY <2>1, <2>2
  <2> QED
    BY <2>3, <2>4
<1> QED
  BY <1>2, <1>3, <1>4

\* A line is written for the place that the walk is at.
Writes(n) ==
    \E line \in TranscriptLines :
        /\ transcript_lines' = Append(transcript_lines, line)
        /\ line.step = step_at /\ line.result = n
        /\ line.created_at = Time(steps[step_at].source_line)
        /\ n = 0 => /\ line.type = Export!LineType(steps[step_at].source)
                    /\ line.tool_calls = steps[step_at].tool_calls
        /\ n # 0 => line.type = "TOOL_RESPONSE"

\* A time is a number.
LEMMA TimeType == \A n \in Nat : Time(n) \in Nat
BY DEF Time

\* The step of a system message is counted, any other is written.
LEMMA StepWrites ==
    ASSUME TypeInv, other = <<>>, Export!ExportStep, step_at \in 1 .. Len(steps) + 1
    PROVE  /\ step_at \in DOMAIN steps /\ result_at = 0 /\ result_at' = 1
           /\ UNCHANGED <<step_at, payload>>
           /\ IF steps[step_at].source = "system"
                THEN /\ omitted_system_messages' = omitted_system_messages + 1
                     /\ UNCHANGED transcript_lines
                ELSE UNCHANGED omitted_system_messages /\ Writes(0)
<1>1. /\ step_at <= Len(redacted) /\ result_at = 0 /\ result_at' = 1
      /\ UNCHANGED <<step_at, payload>>
      /\ IF redacted[step_at].source = "system"
           THEN /\ omitted_system_messages' = omitted_system_messages + 1
                /\ UNCHANGED transcript_lines
           ELSE /\ UNCHANGED omitted_system_messages
                /\ transcript_lines' = Append(transcript_lines,
                      [type |-> Export!LineType(redacted[step_at].source),
                       created_at |-> redacted[step_at].timestamp,
                       content |-> Export!Text(redacted[step_at].message),
                       tool_calls |-> redacted[step_at].tool_calls,
                       step |-> step_at, result |-> result_at])
  BY DEF Export!ExportStep, Export!TranscriptLine, Export!step
<1>2. step_at \in DOMAIN steps
  BY <1>1, StepFields, RedactedSteps
<1> DEFINE line == [type |-> Export!LineType(steps[step_at].source),
                    created_at |-> Time(steps[step_at].source_line),
                    content |-> Export!Text(redacted[step_at].message),
                    tool_calls |-> steps[step_at].tool_calls,
                    step |-> step_at, result |-> 0]
<1>3. line \in TranscriptLines
  <2>1. steps[step_at] \in Step /\ steps[step_at].source_line \in Nat
    BY <1>2, StepFields
  <2>2. /\ Export!LineType(steps[step_at].source) \in {"USER_INPUT", "PLANNER_RESPONSE", "TOOL_RESPONSE"}
        /\ Time(steps[step_at].source_line) \in Nat
        /\ redacted[step_at].message \in {<<>>, <<"text">>}
        /\ steps[step_at].tool_calls \in Seq(CallIds)
    BY <1>2, <2>1, RedactedSteps, TimeType DEF Step, Export!LineType
  <2>3. step_at \in Nat
    BY StepFields
  <2>4. Export!Text(redacted[step_at].message) \in SUBSET Nat
    BY <2>2 DEF Export!Text
  <2> QED
    BY <2>2, <2>3, <2>4 DEF TranscriptLines
<1>4. CASE steps[step_at].source # "system"
  <2>1. transcript_lines' = Append(transcript_lines, line)
    BY <1>1, <1>2, <1>4, RedactedSteps
  <2>2. /\ line.type = Export!LineType(steps[step_at].source)
        /\ line.created_at = Time(steps[step_at].source_line)
        /\ line.tool_calls = steps[step_at].tool_calls
        /\ line.step = step_at /\ line.result = 0
    OBVIOUS
  <2> HIDE DEF line
  <2>3. Writes(0)
    BY <1>3, <2>1, <2>2 DEF Writes
  <2> QED
    BY <1>1, <1>2, <1>4, <2>3, RedactedSteps
<1> QED
  BY <1>1, <1>2, <1>4, RedactedSteps

\* A result is written as a response.
LEMMA ResultWrites ==
    ASSUME TypeInv, other = <<>>, Export!ExportResult,
           step_at \in 1 .. Len(steps) + 1, result_at \in Nat
    PROVE  /\ step_at \in DOMAIN steps /\ result_at \in DOMAIN steps[step_at].observation
           /\ result_at' = result_at + 1 /\ result_at # 0
           /\ UNCHANGED <<step_at, payload, omitted_system_messages>>
           /\ Writes(result_at)
<1>1. /\ step_at <= Len(redacted)
      /\ result_at \in DOMAIN redacted[step_at].observation /\ result_at' = result_at + 1
      /\ UNCHANGED <<step_at, payload, omitted_system_messages>>
      /\ transcript_lines' = Append(transcript_lines,
                      [type |-> "TOOL_RESPONSE",
                       created_at |-> redacted[step_at].timestamp,
                       content |-> Export!Text(redacted[step_at].observation[result_at].content),
                       tool_calls |-> <<>>,
                       step |-> step_at, result |-> result_at])
  BY DEF Export!ExportResult, Export!TranscriptLine, Export!step
<1>2. step_at \in DOMAIN steps
  BY <1>1, StepFields, RedactedSteps
<1>3. result_at \in DOMAIN steps[step_at].observation
  BY <1>1, <1>2, RedactedSteps
<1>4. result_at # 0
  <2>1. steps[step_at].observation \in Seq(Result)
    BY <1>2, StepFields
  <2> QED
    BY <1>3, <2>1
<1> DEFINE line == [type |-> "TOOL_RESPONSE",
                    created_at |-> Time(steps[step_at].source_line),
                    content |-> Export!Text(<<"text">>),
                    tool_calls |-> <<>>,
                    step |-> step_at, result |-> result_at]
<1>5. line \in TranscriptLines
  <2>0. steps[step_at].source_line \in Nat /\ step_at \in Nat /\ <<>> \in Seq(CallIds)
    BY <1>2, StepFields
  <2>1. Time(steps[step_at].source_line) \in Nat
    BY <2>0, TimeType
  <2>2. Export!Text(<<"text">>) \in SUBSET Nat
    BY DEF Export!Text
  <2> QED
    BY <2>0, <2>1, <2>2 DEF TranscriptLines
<1>6. transcript_lines' = Append(transcript_lines, line)
  BY <1>1, <1>2, <1>3, RedactedSteps
<1>7. /\ line.type = "TOOL_RESPONSE"
      /\ line.created_at = Time(steps[step_at].source_line)
      /\ line.step = step_at /\ line.result = result_at
  OBVIOUS
<1> HIDE DEF line
<1>8. Writes(result_at)
  BY <1>4, <1>5, <1>6, <1>7 DEF Writes
<1> QED
  BY <1>1, <1>2, <1>3, <1>4, <1>8

-----------------------------------------------------------------------------
\* While the parser runs there is nothing written and nothing to be.
NotBegun ==
    /\ transcript_lines = <<>> /\ step_at = 1 /\ result_at = 0
    /\ omitted_system_messages = 0 /\ payload = FALSE

\* A walk that has not begun has printed nothing.
LEMMA WalkNotBegun == TypeInv /\ NotBegun => WalkInv
<1> SUFFICES ASSUME TypeInv, NotBegun PROVE WalkInv
  OBVIOUS
<1>0. /\ transcript_lines = <<>> /\ step_at = 1 /\ result_at = 0
      /\ omitted_system_messages = 0 /\ payload = FALSE
  BY DEF NotBegun
<1>1. /\ Len(steps) \in Nat /\ DOMAIN steps = 1 .. Len(steps)
      /\ \A i \in DOMAIN steps : steps[i].observation \in Seq(Result)
  BY StepFields
<1>2. \A i \in DOMAIN steps : ~Past(i, 0) /\ \A n \in Nat : ~Past(i, n)
  BY <1>0, <1>1 DEF Past
<1>3. \A i \in DOMAIN steps : DOMAIN steps[i].observation \subseteq Nat
  BY <1>1
<1>4. Silent = {}
  BY <1>2 DEF Silent
<1>5. transcript_lines \in Seq(TranscriptLines) /\ DOMAIN transcript_lines = {}
  BY <1>0
<1>6. WalkType
  <2>1. 1 \in DOMAIN steps => Len(steps[1].observation) \in Nat
    BY <1>1
  <2>2. payload \in BOOLEAN
    BY <1>0
  <2> QED
    BY <1>0, <1>1, <1>5, <2>1, <2>2 DEF WalkType
<1>7. WalkPhase /\ LinesInOrder
  BY <1>0, <1>5 DEF WalkPhase, LinesInOrder
<1> QED
  BY <1>0, <1>2, <1>3, <1>4, <1>5, <1>6, <1>7, FS_EmptySet DEF WalkInv

\* What a step of the walk leaves as it is.
LEMMA LogKept ==
    ASSUME UNCHANGED <<vars, other>>
    PROVE  /\ steps' = steps /\ pc' = pc /\ log' = log
           /\ \A n : Time(n)' = Time(n)
BY DEF vars, output, Time

\* A line written for the place at hand takes the walk past it.
LEMMA WriteStep ==
    ASSUME TypeInv, WalkInv, other = <<>>, pc = "done", UNCHANGED <<vars, other>>,
           step_at \in DOMAIN steps, Writes(result_at),
           UNCHANGED <<step_at, payload, omitted_system_messages>>, result_at' = result_at + 1,
           result_at = 0 => steps[step_at].source # "system",
           result_at # 0 => result_at \in DOMAIN steps[step_at].observation
    PROVE  WalkInv'
<1>0. /\ Len(steps) \in Nat /\ DOMAIN steps = 1 .. Len(steps)
      /\ \A i \in DOMAIN steps : /\ steps[i].observation \in Seq(Result)
                                 /\ DOMAIN steps[i].observation \subseteq Nat
  <2>1. /\ Len(steps) \in Nat /\ DOMAIN steps = 1 .. Len(steps)
        /\ \A i \in DOMAIN steps : steps[i].observation \in Seq(Result)
    BY StepFields
  <2> QED
    BY <2>1
<1>1. /\ steps' = steps /\ pc' = pc /\ step_at' = step_at /\ result_at \in Nat /\ step_at \in Nat
      /\ \A n : Time(n)' = Time(n)
  BY <1>0, LogKept DEF WalkInv, WalkType
<1>2. PICK line \in TranscriptLines :
        /\ transcript_lines' = Append(transcript_lines, line)
        /\ line.step = step_at /\ line.result = result_at
        /\ line.created_at = Time(steps[step_at].source_line)
        /\ result_at = 0 => /\ line.type = Export!LineType(steps[step_at].source)
                            /\ line.tool_calls = steps[step_at].tool_calls
        /\ result_at # 0 => line.type = "TOOL_RESPONSE"
  BY DEF Writes
<1> PICK m : m = Len(transcript_lines) + 1
  OBVIOUS
<1>3. /\ transcript_lines' \in Seq(TranscriptLines)
      /\ DOMAIN transcript_lines' = DOMAIN transcript_lines \cup {m}
      /\ m \in Nat /\ transcript_lines'[m] = line
      /\ \A t \in DOMAIN transcript_lines :
            t \in Nat /\ t < m /\ transcript_lines'[t] = transcript_lines[t]
  <2>1. transcript_lines \in Seq(TranscriptLines)
    BY DEF WalkInv, WalkType
  <2> QED
    BY <1>2, <2>1
<1>4. \A i \in DOMAIN steps : \A n \in Nat :
         Past(i, n)' <=> Past(i, n) \/ (i = step_at /\ n = result_at)
  BY <1>0, <1>1 DEF Past
<1>5. WalkType'
  <2>1. result_at + 1 <= Len(steps[step_at].observation) + 1
    <3>1. steps[step_at].observation \in Seq(Result)
      BY <1>0
    <3> QED
      BY <1>1, <3>1
  <2> QED
    BY <1>0, <1>1, <1>3, <2>1 DEF WalkInv, WalkType
<1>6. WalkPhase'
  BY <1>0, <1>1 DEF WalkInv, WalkPhase
<1>7. ASSUME NEW t \in DOMAIN transcript_lines PROVE LineOK(t)'
  <2>1. LineOK(t) /\ transcript_lines'[t] = transcript_lines[t] /\ transcript_lines[t].result \in Nat
    <3>1. transcript_lines[t] \in TranscriptLines
      BY DEF WalkInv, WalkType
    <3> QED
      BY <1>3, <3>1 DEF WalkInv, TranscriptLines
  <2> PICK old : old = transcript_lines[t]
    OBVIOUS
  <2>2. Past(old.step, old.result)'
    BY <1>4, <2>1 DEF LineOK
  <2>3. old = transcript_lines'[t]
    BY <2>1
  <2> QED
    BY <1>1, <2>1, <2>2, <2>3 DEF LineOK, Past
<1>8. LineOK(m)'
  <2> PICK i, n : i = step_at /\ n = result_at
    OBVIOUS
  <2>1. Past(i, n)'
    <3>1. i = step_at' /\ n < result_at'
      BY <1>1
    <3> QED
      BY <3>1 DEF Past
  <2>2. /\ transcript_lines'[m].step = i /\ transcript_lines'[m].result = n
        /\ transcript_lines'[m] = line
    BY <1>2, <1>3
  <2>3. /\ transcript_lines'[m].created_at = Time(steps[i].source_line)
        /\ n = 0 => /\ steps[i].source # "system"
                    /\ transcript_lines'[m].type = Export!LineType(steps[i].source)
                    /\ transcript_lines'[m].tool_calls = steps[i].tool_calls
        /\ n # 0 => /\ n \in DOMAIN steps[i].observation
                    /\ transcript_lines'[m].type = "TOOL_RESPONSE"
        /\ i \in DOMAIN steps
    BY <1>2, <2>2
  <2>4. \/ transcript_lines'[m].step < step_at'
        \/ transcript_lines'[m].step = step_at' /\ transcript_lines'[m].result < result_at'
    BY <2>1, <2>2 DEF Past
  <2> QED
    BY <1>1, <2>2, <2>3, <2>4 DEF LineOK, Past
<1>9. LinesInOrder'
  <2>1. \A t \in DOMAIN transcript_lines :
           \/ transcript_lines[t].step < line.step
           \/ transcript_lines[t].step = line.step /\ transcript_lines[t].result < line.result
    BY <1>2 DEF WalkInv, LineOK, Past
  <2> QED
    BY <1>3, <2>1 DEF WalkInv, LinesInOrder
<1>10. \A i, n : Written(i, n) \/ (i = step_at /\ n = result_at) => Written(i, n)'
  BY <1>2, <1>3 DEF Written
<1>11. \A i \in DOMAIN steps' :
          /\ steps'[i].source # "system" /\ Past(i, 0)' => Written(i, 0)'
          /\ \A n \in DOMAIN steps'[i].observation : Past(i, n)' => Written(i, n)'
  BY <1>0, <1>1, <1>4, <1>10 DEF WalkInv
<1>12. Silent' = Silent
  BY <1>1, <1>4 DEF Silent
<1> QED
  BY <1>3, <1>5, <1>6, <1>7, <1>8, <1>9, <1>11, <1>12 DEF WalkInv

\* Places that are passed without a line, the walk may take for passed or not.
LEMMA SkipStep ==
    ASSUME TypeInv, WalkInv, other = <<>>, pc = "done", UNCHANGED <<vars, other>>,
           UNCHANGED transcript_lines, WalkType', WalkPhase',
           \A i \in DOMAIN steps : \A n \in Nat : Past(i, n) => Past(i, n)',
           \A i \in DOMAIN steps :
              /\ Past(i, 0)' => Past(i, 0) \/ steps[i].source = "system"
              /\ \A n \in DOMAIN steps[i].observation : Past(i, n)' => Past(i, n),
           omitted_system_messages' = Cardinality(Silent')
    PROVE  WalkInv'
<1>1. /\ steps' = steps /\ pc' = pc /\ \A n : Time(n)' = Time(n)
  BY LogKept
<1>2. ASSUME NEW t \in DOMAIN transcript_lines PROVE LineOK(t)'
  <2> PICK old : old = transcript_lines[t]
    OBVIOUS
  <2>1. LineOK(t) /\ old.result \in Nat
    <3>1. transcript_lines[t] \in TranscriptLines
      BY DEF WalkInv, WalkType
    <3> QED
      BY <3>1 DEF WalkInv, TranscriptLines
  <2>2. Past(old.step, old.result)'
    BY <2>1 DEF LineOK
  <2> QED
    BY <1>1, <2>1, <2>2 DEF LineOK, Past
<1>3. LinesInOrder' /\ \A i, n : Written(i, n)' <=> Written(i, n)
  BY DEF WalkInv, LinesInOrder, Written
<1>4. \A i \in DOMAIN steps' :
          /\ steps'[i].source # "system" /\ Past(i, 0)' => Written(i, 0)'
          /\ \A n \in DOMAIN steps'[i].observation : Past(i, n)' => Written(i, n)'
  BY <1>1, <1>3 DEF WalkInv
<1> QED
  BY <1>2, <1>3, <1>4 DEF WalkInv

\* Every step of the command keeps what is known of the walk.
LEMMA WalkStep ==
    ASSUME ParserInv, WalkOfLog, [ConvertNext]_convertVars
    PROVE  WalkOfLog'
<1> SUFFICES ASSUME other' = <<>> PROVE WalkInv'
  BY DEF WalkOfLog
<1>0. other = <<>> /\ other' = other /\ TypeInv /\ TypeInv' /\ WalkInv
  <2>1. other' = other
    BY DEF ConvertNext, Parse, ExportSession, Ended, convertVars
  <2>2. TypeInv'
    BY ParserInvStep DEF ParserInv
  <2> QED
    BY <2>1, <2>2 DEF ParserInv, WalkOfLog
<1>1. CASE Parse
  <2>1. pc # "done" /\ UNCHANGED export
    BY <1>1, NextWorks DEF Parse
  <2>2. NotBegun
    BY <1>0, <2>1 DEF WalkInv, WalkPhase, WalkType, NotBegun
  <2>3. NotBegun'
    BY <2>1, <2>2 DEF export, NotBegun
  <2> QED
    BY <1>0, <2>3, WalkNotBegun, PTL
<1>2. CASE UNCHANGED convertVars
  BY <1>0, <1>2, LogKept
     DEF convertVars, export, WalkInv, WalkType, WalkPhase, LineOK, LinesInOrder, Written, Past, Silent
<1>3. CASE ExportSession
  <2>0. /\ pc = "done" /\ Export!ExportNext /\ UNCHANGED <<vars, other>>
        /\ steps' = steps /\ pc' = pc
    BY <1>0, <1>3, LogKept DEF ExportSession
  <2>1. /\ step_at \in 1 .. Len(steps) + 1 /\ result_at \in Nat
        /\ Len(steps) \in Nat /\ DOMAIN steps = 1 .. Len(steps)
        /\ transcript_lines \in Seq(TranscriptLines) /\ payload \in BOOLEAN
        /\ payload => step_at = Len(steps) + 1
        /\ omitted_system_messages = Cardinality(Silent)
    BY <1>0, StepFields DEF WalkInv, WalkType, WalkPhase
  <2>2. IsFiniteSet(Silent)
    <3>1. IsFiniteSet(DOMAIN steps)
      BY <2>1, FS_Interval
    <3> QED
      BY <3>1, FS_Subset DEF Silent
  <2>a. \A i \in DOMAIN steps : /\ DOMAIN steps[i].observation \subseteq Nat \ {0}
                                /\ steps[i].observation \in Seq(Result)
    <3>1. \A i \in DOMAIN steps : steps[i].observation \in Seq(Result)
      BY <1>0, StepFields
    <3> QED
      BY <3>1
  <2>3. CASE Export!ExportStep
    <3>0. /\ step_at \in DOMAIN steps /\ result_at = 0 /\ result_at' = 1
          /\ UNCHANGED <<step_at, payload>>
      BY <1>0, <2>1, <2>3, StepWrites
    <3>1. CASE steps[step_at].source = "system"
      <4>1. /\ omitted_system_messages' = omitted_system_messages + 1
            /\ UNCHANGED transcript_lines
        BY <1>0, <2>1, <2>3, <3>1, StepWrites
      <4>2. /\ \A i \in DOMAIN steps : \A n \in Nat : Past(i, n) => Past(i, n)'
            /\ \A i \in DOMAIN steps :
                 /\ Past(i, 0)' <=> Past(i, 0) \/ i = step_at
                 /\ \A n \in DOMAIN steps[i].observation : Past(i, n)' => Past(i, n)
        BY <2>1, <2>a, <3>0 DEF Past
      <4>3. Silent' = Silent \cup {step_at} /\ step_at \notin Silent
        <5>1. ~Past(step_at, 0)
          BY <2>1, <3>0 DEF Past
        <5> QED
          BY <2>0, <3>0, <3>1, <4>2, <5>1 DEF Silent
      <4>4. omitted_system_messages' = Cardinality(Silent')
        BY <2>1, <2>2, <4>1, <4>3, OneMore
      <4>5. WalkType'
        BY <2>0, <2>1, <2>a, <3>0, <4>1 DEF WalkType
      <4>6. WalkPhase'
        BY <2>0, <2>1, <3>0 DEF WalkPhase
      <4> QED
        BY <1>0, <2>0, <3>1, <4>1, <4>2, <4>4, <4>5, <4>6, SkipStep
    <3>2. CASE steps[step_at].source # "system"
      <4>1. Writes(0) /\ UNCHANGED omitted_system_messages
        BY <1>0, <2>1, <2>3, <3>2, StepWrites
      <4>2. Writes(result_at) /\ result_at' = result_at + 1
        BY <3>0, <4>1
      <4> QED
        BY <1>0, <2>0, <3>0, <3>2, <4>1, <4>2, WriteStep
    <3> QED
      BY <3>1, <3>2
  <2>4. CASE Export!ExportResult
    <3>1. /\ step_at \in DOMAIN steps /\ result_at \in DOMAIN steps[step_at].observation
          /\ result_at' = result_at + 1 /\ result_at # 0
          /\ UNCHANGED <<step_at, payload, omitted_system_messages>>
          /\ Writes(result_at)
      BY <1>0, <2>1, <2>4, ResultWrites
    <3> QED
      BY <1>0, <2>0, <3>1, WriteStep
  <2>5. CASE Export!NextStep
    <3>0. /\ step_at \in DOMAIN steps /\ step_at \in Nat
          /\ result_at > Len(steps[step_at].observation)
          /\ step_at' = step_at + 1 /\ result_at' = 0
          /\ UNCHANGED <<transcript_lines, omitted_system_messages, payload>>
      <4>1. /\ step_at <= Len(redacted) /\ result_at > Len(redacted[step_at].observation)
            /\ step_at' = step_at + 1 /\ result_at' = 0
            /\ UNCHANGED <<transcript_lines, omitted_system_messages, payload>>
        BY <2>5 DEF Export!NextStep, Export!step
      <4>2. step_at \in DOMAIN steps
        BY <1>0, <2>1, <4>1, RedactedSteps
      <4> QED
        BY <1>0, <2>1, <4>1, <4>2, RedactedSteps
    <3>1. ASSUME NEW i \in DOMAIN steps
          PROVE  /\ Past(i, 0)' <=> Past(i, 0)
                 /\ \A n \in Nat : Past(i, n) => Past(i, n)'
                 /\ \A n \in DOMAIN steps[i].observation : Past(i, n)' => Past(i, n)
      <4>1. \A n \in Nat : Past(i, n)' <=> i <= step_at
        BY <2>1, <3>0 DEF Past
      <4>2. \A n \in DOMAIN steps[i].observation : n \in Nat /\ n <= Len(steps[i].observation)
        BY <2>a
      <4>3. Len(steps[i].observation) \in Nat
        BY <2>a
      <4>4. ASSUME i = step_at
            PROVE  /\ \A n \in DOMAIN steps[i].observation : n < result_at
                   /\ 0 < result_at
        BY <2>1, <3>0, <4>2, <4>3, <4>4
      <4> QED
        BY <2>1, <3>0, <4>1, <4>2, <4>4 DEF Past
    <3>2. WalkType'
      <4>1. step_at' \in DOMAIN steps => Len(steps[step_at'].observation) \in Nat
        BY <2>a
      <4> QED
        BY <2>0, <2>1, <3>0, <4>1 DEF WalkType
    <3>3. WalkPhase'
      BY <2>0, <2>1, <3>0 DEF WalkPhase
    <3>4. Silent' = Silent
      BY <2>0, <3>1 DEF Silent
    <3> QED
      BY <1>0, <2>0, <2>1, <3>0, <3>1, <3>2, <3>3, <3>4, SkipStep
  <2>6. CASE Export!ReturnExport
    <3>0. /\ step_at = Len(steps) + 1 /\ payload' = TRUE
          /\ UNCHANGED <<step_at, result_at, transcript_lines, omitted_system_messages>>
      BY <1>0, <2>1, <2>6, RedactedSteps DEF Export!ReturnExport
    <3>1. \A i, n : Past(i, n)' <=> Past(i, n)
      BY <3>0 DEF Past
    <3>2. WalkType'
      BY <1>0, <2>0, <3>0 DEF WalkInv, WalkType
    <3>3. WalkPhase'
      BY <2>0, <3>0 DEF WalkPhase
    <3>4. Silent' = Silent
      BY <2>0, <3>1 DEF Silent
    <3> QED
      BY <1>0, <2>0, <2>1, <3>0, <3>1, <3>2, <3>3, <3>4, SkipStep
  <2> QED
    BY <2>0, <2>3, <2>4, <2>5, <2>6 DEF Export!ExportNext
<1> QED
  BY <1>1, <1>2, <1>3 DEF ConvertNext, Ended

\* What has been read when nothing has been written.
LEMMA WalkInit == ConvertInit => WalkOfLog
<1> SUFFICES ASSUME ConvertInit, other = <<>> PROVE WalkInv
  BY DEF WalkOfLog
<1>1. TypeInv
  BY ParserInvInit DEF ParserInv
<1>2. NotBegun
  BY DEF ConvertInit, Export!ExportInit, NotBegun
<1> QED
  BY <1>1, <1>2, WalkNotBegun

\* Parser and walk, together.
LEMMA ConvertInvariance == ConvertSpec => [](ParserInv /\ WalkOfLog)
<1>1. ConvertInit => ParserInv /\ WalkOfLog
  BY ParserInvInit, WalkInit
<1>2. ParserInv /\ WalkOfLog /\ [ConvertNext]_convertVars => (ParserInv /\ WalkOfLog)'
  BY ParserInvStep, WalkStep
<1> QED
  BY <1>1, <1>2, PTL DEF ConvertSpec

-----------------------------------------------------------------------------
\* A line of the transcript has its place, and is a response if that is a result's.
LEMMA PlaceOfLine ==
    ASSUME TypeInv, WalkInv, NEW t \in DOMAIN transcript_lines
    PROVE  /\ t \in Nat
           /\ transcript_lines[t].step \in DOMAIN steps /\ transcript_lines[t].step \in Nat
           /\ transcript_lines[t].result \in Nat
           /\ IsResponse(t) <=> transcript_lines[t].result # 0
           /\ IsResponse(t) =>
                 /\ transcript_lines[t].result \in DOMAIN steps[transcript_lines[t].step].observation
                 /\ <<transcript_lines[t].step, transcript_lines[t].result>> \in Placed
<1>1. transcript_lines \in Seq(TranscriptLines) /\ LineOK(t)
  BY DEF WalkInv, WalkType
<1>2. t \in Nat /\ transcript_lines[t] \in TranscriptLines
  BY <1>1
<1>3. transcript_lines[t].result \in Nat
  BY <1>2 DEF TranscriptLines
<1>4. transcript_lines[t].step \in DOMAIN steps /\ transcript_lines[t].step \in Nat
  BY <1>1, StepFields DEF LineOK
<1>5. IsResponse(t) <=> transcript_lines[t].result # 0
  BY <1>1 DEF LineOK, IsResponse, Export!LineType
<1>6. ASSUME IsResponse(t)
      PROVE  transcript_lines[t].result \in DOMAIN steps[transcript_lines[t].step].observation
  BY <1>1, <1>5, <1>6 DEF LineOK
<1> QED
  BY <1>2, <1>3, <1>4, <1>5, <1>6 DEF Placed

\* Lines are in the order of steps, and steps in that of the source lines.
LEMMA TimesInOrder ==
    ASSUME TypeInv, TurnsInv, WalkOfLog
    PROVE  TranscriptTimesInOrder
<1> SUFFICES ASSUME other = <<>>,
                    NEW t \in DOMAIN transcript_lines, NEW k \in DOMAIN transcript_lines,
                    t < k, transcript_lines[k].created_at # 0
             PROVE  transcript_lines[t].created_at <= transcript_lines[k].created_at
  BY DEF TranscriptTimesInOrder
<1>0. WalkInv
  BY DEF WalkOfLog
<1> PICK i, j : i = transcript_lines[t].step /\ j = transcript_lines[k].step
  OBVIOUS
<1>1. i \in DOMAIN steps /\ j \in DOMAIN steps /\ i \in Nat /\ j \in Nat /\ i <= j
  <2>1. i \in DOMAIN steps /\ j \in DOMAIN steps /\ i \in Nat /\ j \in Nat
    BY <1>0, PlaceOfLine
  <2>2. i < j \/ i = j
    BY <1>0 DEF WalkInv, LinesInOrder
  <2> QED
    BY <2>1, <2>2
<1>2. /\ steps[i].source_line \in Nat /\ steps[j].source_line \in Nat
      /\ steps[i].source_line <= steps[j].source_line
  BY <1>1, StepFields DEF TurnsInv
<1>3. /\ transcript_lines[t].created_at = Time(steps[i].source_line)
      /\ transcript_lines[k].created_at = Time(steps[j].source_line)
  BY <1>0 DEF WalkInv, LineOK
<1> QED
  BY <1>2, <1>3 DEF Time

\* Before the first response of a step stands its own line, which made the call.
LEMMA ResponsesFollow ==
    ASSUME ParserInv, WalkOfLog
    PROVE  ResponsesFollowTheirCall
<1> SUFFICES ASSUME other = <<>>, NEW t \in DOMAIN transcript_lines, IsResponse(t)
             PROVE  \E h \in 1 .. t - 1 :
                      /\ transcript_lines[h].type = "PLANNER_RESPONSE"
                      /\ \A k \in h + 1 .. t - 1 :
                            IsResponse(k) /\ Before(ResponseTo(k), ResponseTo(t))
                      /\ \E c \in DOMAIN transcript_lines[h].tool_calls :
                            transcript_lines[h].tool_calls[c] =
                                log[ResponseTo(t).line].blocks[ResponseTo(t).item].id
  BY DEF ResponsesFollowTheirCall, Before
<1>0. WalkInv /\ TypeInv
  BY DEF WalkOfLog, ParserInv
<1> PICK i, n : i = transcript_lines[t].step /\ n = transcript_lines[t].result
  OBVIOUS
<1>1. /\ i \in DOMAIN steps /\ i \in Nat /\ n \in Nat \ {0} /\ <<i, n>> \in Placed
      /\ ResponseTo(t) = At(<<i, n>>) /\ Past(i, n)
  BY <1>0, PlaceOfLine DEF ResponseTo, WalkInv, LineOK
<1>2. /\ MakesCall(i, At(<<i, n>>).source_call_id)
      /\ At(<<i, n>>).source_call_id = log[At(<<i, n>>).line].blocks[At(<<i, n>>).item].id
  BY <1>1, DeliveredIsLatest, DeliveredId DEF ParserInv, CorrelationInv, ResultAtLatestCall
<1>3. steps[i].source = "agent"
  <2>1. steps[i].tool_calls # <<>>
    BY <1>2 DEF MakesCall
  <2> QED
    BY <1>1, <2>1 DEF ParserInv, CallsByAgent
<1>4. PICK h \in DOMAIN transcript_lines :
         transcript_lines[h].step = i /\ transcript_lines[h].result = 0
  <2>1. Past(i, 0)
    BY <1>0, <1>1 DEF Past, WalkInv, WalkType
  <2> QED
    BY <1>0, <1>1, <1>3, <2>1 DEF WalkInv, Written
<1>5. /\ transcript_lines[h].type = "PLANNER_RESPONSE"
      /\ transcript_lines[h].tool_calls = steps[i].tool_calls
  BY <1>0, <1>3, <1>4 DEF WalkInv, LineOK, Export!LineType
<1>6. h \in 1 .. t - 1 /\ DOMAIN transcript_lines = 1 .. Len(transcript_lines)
      /\ Len(transcript_lines) \in Nat
  <2>1. transcript_lines \in Seq(TranscriptLines)
    BY <1>0 DEF WalkInv, WalkType
  <2>2. ~(t < h)
    BY <1>0, <1>1, <1>4 DEF WalkInv, LinesInOrder
  <2>3. h # t
    BY <1>1, <1>4
  <2> QED
    BY <2>1, <2>2, <2>3
<1>7. ASSUME NEW k \in h + 1 .. t - 1
      PROVE  IsResponse(k) /\ Before(ResponseTo(k), ResponseTo(t))
  <2>1. k \in DOMAIN transcript_lines /\ h < k /\ k < t
    BY <1>6
  <2> PICK j, m : j = transcript_lines[k].step /\ m = transcript_lines[k].result
    OBVIOUS
  <2>2. j \in Nat /\ m \in Nat
    BY <1>0, <2>1, PlaceOfLine
  <2>3. /\ i < j \/ (i = j /\ 0 < m)
        /\ j < i \/ (j = i /\ m < n)
    BY <1>0, <1>4, <2>1 DEF WalkInv, LinesInOrder
  <2>4. j = i /\ m # 0 /\ m < n
    BY <1>1, <2>2, <2>3
  <2>5. IsResponse(k) /\ <<i, m>> \in Placed /\ ResponseTo(k) = At(<<i, m>>)
    BY <1>0, <2>1, <2>4, PlaceOfLine DEF ResponseTo
  <2> QED
    BY <1>1, <2>4, <2>5 DEF ParserInv, DeliveryInv, InStepOrder
<1>8. \E c \in DOMAIN transcript_lines[h].tool_calls :
         transcript_lines[h].tool_calls[c] = log[ResponseTo(t).line].blocks[ResponseTo(t).item].id
  BY <1>1, <1>2, <1>5 DEF MakesCall
<1> QED
  BY <1>5, <1>6, <1>7, <1>8

-----------------------------------------------------------------------------
Responses == {t \in DOMAIN transcript_lines : IsResponse(t)}

\* When the payload is printed, the walk is past every place.
LEMMA WalkEnded ==
    ASSUME ParserInv, WalkInv, payload
    PROVE  /\ pc = "done" /\ Len(tool_results) = 0 /\ attached = 0
           /\ \A i \in DOMAIN steps : \A n : Past(i, n)
           /\ IsFiniteSet(DOMAIN transcript_lines)
<1>1. pc = "done" /\ step_at = Len(steps) + 1
  BY DEF WalkInv, WalkPhase
<1>2. TypeInv /\ transcript_lines \in Seq(TranscriptLines)
  BY DEF ParserInv, WalkInv, WalkType
<1>3. Len(tool_results) = 0 /\ attached = 0
  BY <1>1, <1>2 DEF TypeInv, LocalsOK
<1>4. \A i \in DOMAIN steps : i < step_at
  BY <1>1, <1>2, StepFields
<1>5. DOMAIN transcript_lines = 1 .. Len(transcript_lines) /\ Len(transcript_lines) \in Nat
  BY <1>2
<1> QED
  BY <1>1, <1>3, <1>4, <1>5, FS_Interval DEF Past

\* The responses correspond to the places of the results.
LEMMA ResultsReach ==
    ASSUME ParserInv, WalkOfLog
    PROVE  ResultsReachTranscript
<1> SUFFICES ASSUME payload, other = <<>>
             PROVE  /\ Cardinality(Arrived) =
                          Cardinality(Responses) + fidelity["orphaned_tool_results"]
                    /\ \A t, k \in Responses : ResponseTo(t) = ResponseTo(k) => t = k
  BY DEF ResultsReachTranscript, Responses
<1>0. WalkInv /\ TypeInv
  BY DEF WalkOfLog, ParserInv
<1> DEFINE place == [t \in Responses |->
                        <<transcript_lines[t].step, transcript_lines[t].result>>]
<1>1. \A t \in Responses : /\ t \in DOMAIN transcript_lines /\ t \in Nat
                           /\ <<transcript_lines[t].step, transcript_lines[t].result>> \in Placed
                           /\ transcript_lines[t].step \in Nat /\ transcript_lines[t].result \in Nat
  BY <1>0, PlaceOfLine DEF Responses
<1>2. ASSUME NEW t \in Responses, NEW k \in Responses,
             transcript_lines[t].step = transcript_lines[k].step,
             transcript_lines[t].result = transcript_lines[k].result
      PROVE  t = k
  <2> HIDE DEF place
  <2>1. /\ t \in DOMAIN transcript_lines /\ k \in DOMAIN transcript_lines
        /\ t \in Nat /\ k \in Nat
        /\ transcript_lines[t].step \in Nat /\ transcript_lines[t].result \in Nat
    BY <1>1
  <2>2. ~(t < k) /\ ~(k < t)
    BY <1>0, <1>2, <2>1 DEF WalkInv, LinesInOrder
  <2> QED
    BY <2>1, <2>2
<1>3. place \in [Responses -> Placed]
  BY <1>1
<1>4. \A t, k \in Responses : place[t] = place[k] => t = k
  BY <1>2
<1>5. ASSUME NEW p \in Placed PROVE \E t \in Responses : place[t] = p
  <2>1. PICK i \in DOMAIN steps : \E n \in DOMAIN steps[i].observation : p = <<i, n>>
    BY DEF Placed
  <2> PICK n \in DOMAIN steps[i].observation : p = <<i, n>>
    BY <2>1
  <2>2. PICK t \in DOMAIN transcript_lines :
          transcript_lines[t].step = i /\ transcript_lines[t].result = n
    BY <1>0, WalkEnded DEF WalkInv, Written
  <2>3. n # 0
    <3>1. steps[i].observation \in Seq(Result)
      BY <1>0, StepFields
    <3> QED
      BY <3>1
  <2>4. t \in Responses
    BY <1>0, <2>2, <2>3, PlaceOfLine DEF Responses
  <2> QED
    BY <2>1, <2>2, <2>4
<1>6. IsFiniteSet(Responses)
  BY <1>0, WalkEnded, FS_Subset DEF Responses
<1>7. Cardinality(Placed) = Cardinality(Responses)
  <2> HIDE DEF place
  <2> QED
    BY <1>3, <1>4, <1>5, <1>6, SameSize
<1>8. Cardinality(Arrived) = Cardinality(Responses) + fidelity["orphaned_tool_results"]
  <2>1. /\ fidelity["observation_results_preserved"] = Cardinality(Placed)
        /\ Cardinality(Arrived) = fidelity["observation_results_preserved"]
                                  + fidelity["orphaned_tool_results"] + Len(tool_results) - attached
    BY DEF ParserInv, TrafficInv, ResultsAccounted
  <2>2. fidelity["observation_results_preserved"] \in Nat /\ fidelity["orphaned_tool_results"] \in Nat
    BY <1>0 DEF TypeInv, TypeOK, Counters
  <2> QED
    BY <1>0, <1>7, <2>1, <2>2, WalkEnded
<1>9. ASSUME NEW t \in Responses, NEW k \in Responses, ResponseTo(t) = ResponseTo(k)
      PROVE  t = k
  <2>1. /\ place[t] \in Placed /\ place[k] \in Placed /\ At(place[t]) = At(place[k])
    BY <1>1, <1>9 DEF ResponseTo
  <2>2. place[t] = place[k]
    BY <2>1 DEF ParserInv, DeliveryInv, PlacedOnce, Origin
  <2> QED
    BY <1>4, <2>2
<1> QED
  BY <1>8, <1>9

\* The turns of the file, when it has been read.
OwnTurns == {n \in 1 .. line_number : Converted(n) /\ ~OnlyResults(n)}

\* The other lines correspond to the steps, and the steps to the turns of the file.
LEMMA TurnsReach ==
    ASSUME ParserInv, WalkOfLog
    PROVE  TurnsReachTranscript
<1> DEFINE turns == {t \in DOMAIN transcript_lines : ~IsResponse(t)}
<1> SUFFICES ASSUME payload, other = <<>>
             PROVE  /\ {SourceLine(t) : t \in turns} = {n \in OwnTurns : log[n].role # "system"}
                    /\ \A t, k \in turns : t < k => SourceLine(t) < SourceLine(k)
                    /\ omitted_system_messages =
                          Cardinality({n \in OwnTurns : log[n].role = "system"})
  BY DEF TurnsReachTranscript, OwnTurns
<1>0. WalkInv /\ TypeInv /\ TurnsInv /\ pc = "done"
  BY WalkEnded DEF WalkOfLog, ParserInv
<1>1. \A n : n \in OwnTurns <=> n \in Turns /\ ~OnlyResults(n)
  BY <1>0 DEF OwnTurns, Turns, Finished
<1>2. ASSUME NEW i \in DOMAIN steps
      PROVE  /\ steps[i].source_line \in OwnTurns
             /\ steps[i].source = "system" <=> log[steps[i].source_line].role = "system"
  BY <1>0, <1>1 DEF TurnsInv, TurnAt, StepOf
<1>3. ASSUME NEW n \in OwnTurns PROVE \E i \in DOMAIN steps : steps[i].source_line = n
  BY <1>0, <1>1 DEF TurnsInv
<1>4. ASSUME NEW t \in turns
      PROVE  /\ transcript_lines[t].step \in DOMAIN steps /\ transcript_lines[t].result = 0
             /\ transcript_lines[t].step \in Nat /\ SourceLine(t) \in OwnTurns
             /\ log[SourceLine(t)].role # "system"
  <2>1. /\ transcript_lines[t].step \in DOMAIN steps /\ transcript_lines[t].result = 0
        /\ transcript_lines[t].step \in Nat
    BY <1>0, PlaceOfLine
  <2>2. steps[transcript_lines[t].step].source # "system"
    BY <1>0, <2>1 DEF WalkInv, LineOK
  <2> QED
    BY <1>2, <2>1, <2>2 DEF SourceLine
<1>5. {SourceLine(t) : t \in turns} = {n \in OwnTurns : log[n].role # "system"}
  <2>1. ASSUME NEW n \in OwnTurns, log[n].role # "system"
        PROVE  \E t \in turns : SourceLine(t) = n
    <3>1. PICK i \in DOMAIN steps : steps[i].source_line = n
      BY <1>3
    <3>2. steps[i].source # "system"
      BY <1>2, <2>1, <3>1
    <3>3. PICK t \in DOMAIN transcript_lines :
             transcript_lines[t].step = i /\ transcript_lines[t].result = 0
      BY <1>0, <3>2, WalkEnded DEF WalkInv, Written
    <3>4. t \in turns
      BY <1>0, <3>3, PlaceOfLine
    <3> QED
      BY <3>1, <3>3, <3>4 DEF SourceLine
  <2> HIDE DEF turns
  <2> QED
    BY <1>4, <2>1
<1>6. ASSUME NEW t \in turns, NEW k \in turns, t < k
      PROVE  SourceLine(t) < SourceLine(k)
  <2>1. transcript_lines[t].step < transcript_lines[k].step
    BY <1>0, <1>4, <1>6 DEF WalkInv, LinesInOrder
  <2> QED
    BY <1>0, <1>4, <2>1 DEF TurnsInv, SourceLine
<1>7. omitted_system_messages = Cardinality({n \in OwnTurns : log[n].role = "system"})
  <2> DEFINE own  == {n \in OwnTurns : log[n].role = "system"}
             line == [i \in Silent |-> steps[i].source_line]
  <2>1. Silent = {i \in DOMAIN steps : steps[i].source = "system"}
    BY <1>0, WalkEnded DEF Silent
  <2>2. line \in [Silent -> own]
    BY <1>2, <2>1
  <2>3. \A i, j \in Silent : line[i] = line[j] => i = j
    BY <1>0, <2>1, OneStepPerTurn
  <2>4. \A n \in own : \E i \in Silent : line[i] = n
    BY <1>2, <1>3, <2>1
  <2>5. IsFiniteSet(Silent)
    <3>1. IsFiniteSet(DOMAIN steps)
      BY <1>0, StepFields, FS_Interval
    <3> QED
      BY <2>1, <3>1, FS_Subset
  <2>6. Cardinality(own) = Cardinality(Silent)
    <3> HIDE DEF own, line
    <3> QED
      BY <2>2, <2>3, <2>4, <2>5, SameSize
  <2> QED
    BY <1>0, <2>6 DEF WalkInv
<1> QED
  BY <1>5, <1>6, <1>7

-----------------------------------------------------------------------------
(***************************************************************************)
(* The content parts, of whatever trajectory is exported: that of a log or *)
(* one of another producer.                                                *)
(***************************************************************************)

\* The content that is exported at the place <<i, n>>.
ContentAt(i, n) == IF n = 0 THEN redacted[i].message ELSE redacted[i].observation[n].content

\* The places of step i, its own line and its results.
PlacesOf(i) == {0} \cup DOMAIN redacted[i].observation

PartsType ==
    /\ step_at \in 1 .. Len(redacted) + 1 /\ result_at \in Nat
    /\ IF step_at \in DOMAIN redacted THEN result_at <= Len(redacted[step_at].observation) + 1
                                      ELSE result_at = 0
    /\ transcript_lines \in Seq(TranscriptLines)
    /\ payload \in BOOLEAN
    /\ payload => step_at = Len(redacted) + 1

\* Line t was written for a place of the trajectory, and is a response if that is a result's.
PlaceOK(t) ==
    LET line == transcript_lines[t] IN
    /\ line.step \in DOMAIN redacted /\ line.result \in PlacesOf(line.step)
    /\ line.type = "TOOL_RESPONSE" <=> line.result # 0

\* Each place that the walk is past has its line, unless it is a system message, and
\* what the lines lack is what was counted.
PartsWalk ==
    /\ PartsType
    /\ \A t \in DOMAIN transcript_lines : PlaceOK(t)
    /\ \A i \in DOMAIN redacted : \A n \in PlacesOf(i) :
          Past(i, n) /\ (n # 0 \/ redacted[i].source # "system") =>
              \E t \in DOMAIN transcript_lines : Export!WrittenFor(t, i, n)
    /\ IsFiniteSet(Export!Lacking)
    /\ omitted_content_parts = Cardinality(Export!Lacking)

\* The walk over a log begins when the log has been parsed.
PartsInv ==
    /\ other \in {<<>>} \cup OtherTrajectories
    /\ IF other = <<>> /\ pc # "done" THEN NotBegun /\ omitted_content_parts = 0 ELSE PartsWalk

\* The results of a step, and the content of each.
LEMMA ContentsOf ==
    ASSUME NEW S, NEW results \in Seq([content : S])
    PROVE  /\ DOMAIN results = 1 .. Len(results) /\ Len(results) \in Nat
           /\ \A n \in DOMAIN results : n \in Nat /\ results[n].content \in S
<1>1. DOMAIN results = 1 .. Len(results) /\ Len(results) \in Nat
  OBVIOUS
<1>2. \A T : results \in Seq(T) => \A n \in DOMAIN results : results[n] \in T
  OBVIOUS
<1>3. \A n \in DOMAIN results : results[n] \in [content : S]
  BY <1>2
<1> QED
  BY <1>1, <1>3

\* What is exported is a trajectory, whoever made it.
LEMMA RedactedType ==
    ASSUME TypeInv, other \in {<<>>} \cup OtherTrajectories
    PROVE  /\ redacted \in Seq(ExportedStep)
           /\ Len(redacted) \in Nat /\ DOMAIN redacted = 1 .. Len(redacted)
           /\ \A i \in DOMAIN redacted :
                 /\ redacted[i].source \in {"user", "agent", "system"}
                 /\ redacted[i].timestamp \in Nat /\ redacted[i].tool_calls \in Seq(CallIds)
                 /\ redacted[i].message \in Seq(ContentParts)
                 /\ DOMAIN redacted[i].observation = 1 .. Len(redacted[i].observation)
                 /\ Len(redacted[i].observation) \in Nat
                 /\ \A n \in PlacesOf(i) : n \in Nat /\ ContentAt(i, n) \in Seq(ContentParts)
<1>1. redacted \in Seq(ExportedStep)
  <2>1. CASE other # <<>>
    <3>1. redacted = other
      BY <2>1 DEF redacted
    <3> QED
      BY <2>1, <3>1, TrajectoryAssumption
  <2>2. CASE other = <<>>
    <3> DEFINE result(i) == [n \in DOMAIN steps[i].observation |-> [content |-> <<"text">>]]
    <3>1. redacted =
            [i \in DOMAIN steps |->
                [source      |-> steps[i].source,
                 timestamp   |-> Time(steps[i].source_line),
                 message     |-> IF steps[i].message THEN <<"text">> ELSE <<>>,
                 tool_calls  |-> steps[i].tool_calls,
                 observation |-> result(i)]]
      BY <2>2 DEF redacted
    <3>2. ASSUME NEW i \in DOMAIN steps
          PROVE  [source      |-> steps[i].source,
                  timestamp   |-> Time(steps[i].source_line),
                  message     |-> IF steps[i].message THEN <<"text">> ELSE <<>>,
                  tool_calls  |-> steps[i].tool_calls,
                  observation |-> result(i)] \in ExportedStep
      <4>1. /\ steps[i] \in Step /\ steps[i].source_line \in Nat
            /\ steps[i].observation \in Seq(Result)
        BY StepFields
      <4>2. <<"text">> \in Seq(ContentParts) /\ <<>> \in Seq(ContentParts)
        BY DEF ContentParts
      <4>3. result(i) \in Seq([content : Seq(ContentParts)])
        <5>1. [content |-> <<"text">>] \in [content : Seq(ContentParts)]
          BY <4>2
        <5>2. /\ DOMAIN steps[i].observation = 1 .. Len(steps[i].observation)
              /\ Len(steps[i].observation) \in Nat
          BY <4>1
        <5> QED
          BY <5>1, <5>2
      <4>4. /\ Time(steps[i].source_line) \in Nat
            /\ steps[i].source \in {"user", "agent", "system"}
            /\ steps[i].tool_calls \in Seq(CallIds)
            /\ (IF steps[i].message THEN <<"text">> ELSE <<>>) \in Seq(ContentParts)
        BY <4>1, <4>2, TimeType DEF Step
      <4> HIDE DEF result
      <4> QED
        BY <4>3, <4>4 DEF ExportedStep
    <3> HIDE DEF result
    <3> QED
      BY <3>1, <3>2, StepFields
  <2> QED
    BY <2>1, <2>2
<1>2. Len(redacted) \in Nat /\ DOMAIN redacted = 1 .. Len(redacted)
  BY <1>1
<1>3. ASSUME NEW i \in DOMAIN redacted
      PROVE  /\ redacted[i].source \in {"user", "agent", "system"}
             /\ redacted[i].timestamp \in Nat /\ redacted[i].tool_calls \in Seq(CallIds)
             /\ redacted[i].message \in Seq(ContentParts)
             /\ DOMAIN redacted[i].observation = 1 .. Len(redacted[i].observation)
             /\ Len(redacted[i].observation) \in Nat
             /\ \A n \in PlacesOf(i) : n \in Nat /\ ContentAt(i, n) \in Seq(ContentParts)
  <2>1. redacted[i] \in ExportedStep
    BY <1>1
  <2>2. /\ redacted[i].source \in {"user", "agent", "system"}
        /\ redacted[i].timestamp \in Nat /\ redacted[i].tool_calls \in Seq(CallIds)
        /\ redacted[i].message \in Seq(ContentParts)
        /\ redacted[i].observation \in Seq([content : Seq(ContentParts)])
    BY <2>1 DEF ExportedStep
  <2>3. /\ DOMAIN redacted[i].observation = 1 .. Len(redacted[i].observation)
        /\ Len(redacted[i].observation) \in Nat
        /\ \A n \in DOMAIN redacted[i].observation :
              n \in Nat /\ redacted[i].observation[n].content \in Seq(ContentParts)
    BY <2>2, ContentsOf
  <2>4. ASSUME NEW n \in PlacesOf(i) PROVE n \in Nat /\ ContentAt(i, n) \in Seq(ContentParts)
    <3>1. n = 0 \/ n \in DOMAIN redacted[i].observation
      BY DEF PlacesOf
    <3>2. n = 0 => ContentAt(i, n) = redacted[i].message
      BY DEF ContentAt
    <3>3. n # 0 => ContentAt(i, n) = redacted[i].observation[n].content
      BY DEF ContentAt
    <3> QED
      BY <2>2, <2>3, <3>1, <3>2, <3>3
  <2> QED
    BY <2>2, <2>3, <2>4
<1> QED
  BY <1>1, <1>2, <1>3

\* The export changes neither the log nor what is exported.
LEMMA RedactedKept ==
    ASSUME UNCHANGED <<vars, other>>
    PROVE  redacted' = redacted
BY LogKept DEF redacted

\* The exporter counts as the parser does.
LEMMA ExportCounts == \A S : Export!Cardinality(S) = Cardinality(S)
BY DEF Export!Cardinality, Cardinality, Export!IsFiniteSet, IsFiniteSet

\* The parts of a content are those that are joined and those that are counted.
LEMMA PartsLeftOut ==
    ASSUME NEW whole \in Seq(ContentParts)
    PROVE  /\ Export!Text(whole) \in SUBSET Nat
           /\ IsFiniteSet(DOMAIN whole \ Export!Text(whole))
           /\ Export!OmittedParts(whole) = Cardinality(DOMAIN whole \ Export!Text(whole))
<1>1. DOMAIN whole = 1 .. Len(whole) /\ Len(whole) \in Nat
  OBVIOUS
<1>2. IsFiniteSet(DOMAIN whole)
  BY <1>1, FS_Interval
<1>3. {p \in DOMAIN whole : whole[p] # "text"} = DOMAIN whole \ Export!Text(whole)
  BY DEF Export!Text
<1>4. IsFiniteSet(DOMAIN whole \ Export!Text(whole))
  BY <1>2, FS_Subset
<1>5. Export!Text(whole) \in SUBSET Nat
  BY <1>1 DEF Export!Text
<1> PICK left : left = DOMAIN whole \ Export!Text(whole)
  OBVIOUS
<1>6. {p \in DOMAIN whole : whole[p] # "text"} = left
  BY <1>3
<1>7. Export!OmittedParts(whole) = Cardinality(left)
  BY <1>6, ExportCounts DEF Export!OmittedParts
<1> QED
  BY <1>4, <1>5, <1>7

PartsNotBegun ==
    other \in {<<>>} \cup OtherTrajectories /\ NotBegun /\ omitted_content_parts = 0

\* A walk that has not begun has left nothing out.
LEMMA NothingLeftOut == TypeInv /\ PartsNotBegun => PartsWalk
<1> SUFFICES ASSUME TypeInv, PartsNotBegun PROVE PartsWalk
  OBVIOUS
<1>0. other \in {<<>>} \cup OtherTrajectories /\ NotBegun /\ omitted_content_parts = 0
  BY DEF PartsNotBegun
<1>1. /\ transcript_lines = <<>> /\ step_at = 1 /\ result_at = 0 /\ payload = FALSE
      /\ DOMAIN transcript_lines = {} /\ transcript_lines \in Seq(TranscriptLines)
  BY <1>0 DEF NotBegun
<1>2. /\ Len(redacted) \in Nat /\ DOMAIN redacted = 1 .. Len(redacted)
      /\ \A i \in DOMAIN redacted : /\ Len(redacted[i].observation) \in Nat
                                    /\ \A n \in PlacesOf(i) : n \in Nat
  BY <1>0, RedactedType
<1>3. PartsType
  <2>1. 1 \in DOMAIN redacted => 0 <= Len(redacted[1].observation) + 1
    BY <1>2
  <2>2. payload \in BOOLEAN /\ ~payload
    BY <1>1
  <2>3. 1 \in 1 .. Len(redacted) + 1
    BY <1>2
  <2> QED
    BY <1>1, <2>1, <2>2, <2>3 DEF PartsType
<1>4. \A i \in DOMAIN redacted : \A n \in PlacesOf(i) : ~Past(i, n)
  BY <1>1, <1>2 DEF Past
<1>5. Export!Lacking = {}
  BY <1>1 DEF Export!Lacking
<1> QED
  BY <1>0, <1>1, <1>3, <1>4, <1>5, FS_EmptySet DEF PartsWalk

\* A line that is written for the place at hand leaves out what is counted for it.
LEMMA PartsWrite ==
    ASSUME TypeInv, other \in {<<>>} \cup OtherTrajectories, PartsWalk,
           UNCHANGED <<vars, other>>, step_at \in DOMAIN redacted, result_at \in PlacesOf(step_at),
           NEW line \in TranscriptLines, transcript_lines' = Append(transcript_lines, line),
           line.step = step_at, line.result = result_at,
           line.type = "TOOL_RESPONSE" <=> result_at # 0,
           line.content = Export!Text(ContentAt(step_at, result_at)),
           omitted_content_parts' =
              omitted_content_parts + Export!OmittedParts(ContentAt(step_at, result_at)),
           UNCHANGED <<step_at, payload>>, result_at' = result_at + 1
    PROVE  PartsWalk'
<1> PICK i, n, m : i = step_at /\ n = result_at /\ m = Len(transcript_lines) + 1
  OBVIOUS
<1>0. /\ Len(redacted) \in Nat /\ DOMAIN redacted = 1 .. Len(redacted)
      /\ \A j \in DOMAIN redacted :
            /\ DOMAIN redacted[j].observation = 1 .. Len(redacted[j].observation)
            /\ Len(redacted[j].observation) \in Nat
            /\ \A k \in PlacesOf(j) : k \in Nat /\ ContentAt(j, k) \in Seq(ContentParts)
  BY RedactedType
<1>1. /\ redacted' = redacted /\ step_at' = i /\ result_at' = n + 1 /\ payload' = payload
      /\ i \in Nat /\ n \in Nat /\ i \in DOMAIN redacted /\ n \in PlacesOf(i)
      /\ \A j : PlacesOf(j)' = PlacesOf(j)
  BY <1>0, RedactedKept DEF PlacesOf
<1>2. /\ transcript_lines' \in Seq(TranscriptLines)
      /\ DOMAIN transcript_lines' = DOMAIN transcript_lines \cup {m}
      /\ m \in Nat /\ m \notin DOMAIN transcript_lines /\ transcript_lines'[m] = line
      /\ \A t \in DOMAIN transcript_lines : transcript_lines'[t] = transcript_lines[t]
  <2>1. transcript_lines \in Seq(TranscriptLines)
    BY DEF PartsWalk, PartsType
  <2> QED
    BY <2>1
<1>3. PartsType'
  <2>1. n + 1 <= Len(redacted[i].observation) + 1
    BY <1>0, <1>1 DEF PlacesOf
  <2>2. payload \in BOOLEAN /\ (payload => step_at = Len(redacted) + 1)
    BY DEF PartsWalk, PartsType
  <2> QED
    BY <1>0, <1>1, <1>2, <2>1, <2>2 DEF PartsType
<1>4. \A t \in DOMAIN transcript_lines : PlaceOK(t)'
  BY <1>1, <1>2 DEF PartsWalk, PlaceOK
<1>5. PlaceOK(m)'
  BY <1>1, <1>2 DEF PlaceOK
<1>6. ASSUME NEW j \in DOMAIN redacted, NEW k \in PlacesOf(j), Past(j, k)',
             k # 0 \/ redacted[j].source # "system"
      PROVE  \E t \in DOMAIN transcript_lines' : Export!WrittenFor(t, j, k)'
  <2>1. Past(j, k) \/ (j = i /\ k = n)
    BY <1>0, <1>1, <1>6 DEF Past
  <2>2. CASE Past(j, k)
    <3>1. PICK t \in DOMAIN transcript_lines : Export!WrittenFor(t, j, k)
      BY <1>6, <2>2 DEF PartsWalk
    <3> QED
      BY <1>2, <3>1 DEF Export!WrittenFor
  <2>3. CASE j = i /\ k = n
    <3>1. /\ transcript_lines'[m].step = j /\ transcript_lines'[m].result = k
          /\ transcript_lines'[m].type = "TOOL_RESPONSE" <=> k # 0
      BY <1>2, <2>3
    <3> QED
      BY <1>2, <3>1 DEF Export!WrittenFor
  <2> QED
    BY <2>1, <2>2, <2>3
<1>p. PICK whole, left : whole = ContentAt(i, n) /\ left = DOMAIN whole \ Export!Text(whole)
  OBVIOUS
<1>7. Export!Lacking' = Export!Lacking \cup ({m} \X left) /\ Export!Lacking \cap ({m} \X left) = {}
  <2>1. ASSUME NEW t \in DOMAIN transcript_lines
        PROVE  /\ Export!Original(t)' = Export!Original(t)
               /\ transcript_lines'[t].content = transcript_lines[t].content
    BY <1>1, <1>2 DEF Export!Original
  <2>2. /\ Export!Original(m)' = whole
        /\ transcript_lines'[m].content = Export!Text(whole)
    BY <1>p, <1>1, <1>2 DEF Export!Original, ContentAt
  <2>3. Export!Lacking' = UNION {{<<t, p>> : p \in DOMAIN Export!Original(t)' \ transcript_lines'[t].content} :
                                    t \in DOMAIN transcript_lines'}
    BY DEF Export!Lacking
  <2>4. Export!Lacking = UNION {{<<t, p>> : p \in DOMAIN Export!Original(t) \ transcript_lines[t].content} :
                                    t \in DOMAIN transcript_lines}
    BY DEF Export!Lacking
  <2>5. Export!Lacking' = Export!Lacking \cup ({m} \X left)
    BY <1>p, <1>2, <2>1, <2>2, <2>3, <2>4
  <2>6. \A c \in Export!Lacking : c[1] \in DOMAIN transcript_lines
    BY <2>4
  <2> QED
    BY <1>2, <2>5, <2>6
<1>8. /\ IsFiniteSet(left)
      /\ omitted_content_parts' = Cardinality(Export!Lacking) + Cardinality(left)
  BY <1>p, <1>0, <1>1, PartsLeftOut DEF PartsWalk
<1>9. /\ IsFiniteSet(Export!Lacking')
      /\ omitted_content_parts' = Cardinality(Export!Lacking')
  <2>a. IsFiniteSet(left)
    BY <1>8
  <2>1. IsFiniteSet({m} \X left) /\ Cardinality({m} \X left) = Cardinality(left)
    BY <2>a, ColumnSize
  <2>2. IsFiniteSet(Export!Lacking)
    BY DEF PartsWalk
  <2> QED
    BY <1>7, <1>8, <2>1, <2>2, DisjointUnion
<1> QED
  BY <1>1, <1>2, <1>3, <1>4, <1>5, <1>6, <1>9 DEF PartsWalk

\* Places are passed without a line only where none is due.
LEMMA PartsSkip ==
    ASSUME PartsWalk, UNCHANGED <<vars, other, transcript_lines, omitted_content_parts>>, PartsType',
           \A i \in DOMAIN redacted : \A n \in PlacesOf(i) :
              Past(i, n)' /\ (n # 0 \/ redacted[i].source # "system") => Past(i, n)
    PROVE  PartsWalk'
<1>1. redacted' = redacted /\ \A j : PlacesOf(j)' = PlacesOf(j)
  BY RedactedKept DEF PlacesOf
<1>2. Export!Lacking' = Export!Lacking
  BY <1>1 DEF Export!Lacking, Export!Original
<1>3. \A t \in DOMAIN transcript_lines : PlaceOK(t)' <=> PlaceOK(t)
  BY <1>1 DEF PlaceOK
<1>4. \A t, i, n : Export!WrittenFor(t, i, n)' <=> Export!WrittenFor(t, i, n)
  BY DEF Export!WrittenFor
<1> QED
  BY <1>1, <1>2, <1>3, <1>4 DEF PartsWalk

\* Every step of the command keeps what is known of the content parts.
LEMMA PartsStep ==
    ASSUME TypeInv, TypeInv', PartsInv, [ConvertNext]_convertVars
    PROVE  PartsInv'
<1>0. other' = other /\ other \in {<<>>} \cup OtherTrajectories
  BY DEF ConvertNext, Parse, ExportSession, Ended, convertVars, PartsInv
<1>1. CASE Parse
  <2>1. other = <<>> /\ pc # "done" /\ UNCHANGED export
    BY <1>1, NextWorks DEF Parse
  <2>2. NotBegun' /\ omitted_content_parts' = 0
    <3>1. NotBegun /\ omitted_content_parts = 0
      BY <2>1 DEF PartsInv
    <3>2. NotBegun'
      BY <2>1, <3>1 DEF NotBegun, export
    <3>3. omitted_content_parts' = omitted_content_parts
      BY <2>1 DEF export
    <3> QED
      BY <3>1, <3>2, <3>3
  <2>3. PartsNotBegun'
    BY <1>0, <2>2 DEF PartsNotBegun
  <2>4. PartsWalk'
    BY <2>3, NothingLeftOut, PTL
  <2> QED
    BY <1>0, <2>2, <2>4 DEF PartsInv
<1>2. CASE UNCHANGED convertVars
  <2>1. /\ UNCHANGED <<vars, other, transcript_lines, omitted_content_parts>>
        /\ UNCHANGED <<step_at, result_at, payload, omitted_system_messages>>
        /\ pc' = pc
    BY <1>2 DEF convertVars, export, vars
  <2>2. redacted' = redacted
    BY <2>1, RedactedKept
  <2>3. ASSUME PartsWalk PROVE PartsWalk'
    <3>1. PartsType'
      BY <2>1, <2>2, <2>3 DEF PartsWalk, PartsType
    <3>2. \A i, n : Past(i, n)' <=> Past(i, n)
      BY <2>1 DEF Past
    <3> QED
      BY <2>1, <2>3, <3>1, <3>2, PartsSkip
  <2> QED
    BY <1>0, <2>1, <2>3 DEF PartsInv, NotBegun
<1>3. CASE ExportSession
  <2>0. /\ PartsWalk /\ PartsType /\ Export!ExportNext /\ UNCHANGED <<vars, other>>
        /\ pc' = pc /\ redacted' = redacted
        /\ other' = <<>> => pc' = "done"
    <3>1. /\ Export!ExportNext /\ UNCHANGED <<vars, other>> /\ (pc = "done" \/ other # <<>>)
      BY <1>3 DEF ExportSession
    <3> QED
      BY <3>1, LogKept, RedactedKept DEF PartsInv, PartsWalk
  <2>a. SUFFICES PartsWalk'
    BY <1>0, <2>0 DEF PartsInv
  <2>1. /\ step_at \in 1 .. Len(redacted) + 1 /\ step_at \in Nat /\ result_at \in Nat
        /\ Len(redacted) \in Nat /\ DOMAIN redacted = 1 .. Len(redacted)
        /\ transcript_lines \in Seq(TranscriptLines) /\ payload \in BOOLEAN
        /\ payload => step_at = Len(redacted) + 1
    BY <1>0, <2>0, RedactedType DEF PartsType
  <2>2. \A i \in DOMAIN redacted :
           /\ redacted[i].source \in {"user", "agent", "system"}
           /\ redacted[i].timestamp \in Nat /\ redacted[i].tool_calls \in Seq(CallIds)
           /\ DOMAIN redacted[i].observation = 1 .. Len(redacted[i].observation)
           /\ Len(redacted[i].observation) \in Nat
           /\ \A n \in PlacesOf(i) : n \in Nat /\ ContentAt(i, n) \in Seq(ContentParts)
    BY <1>0, RedactedType
  <2>3. CASE Export!ExportStep
    <3>0. step_at \in DOMAIN redacted /\ result_at = 0 /\ result_at' = 1
          /\ UNCHANGED <<step_at, payload>>
      BY <2>1, <2>3 DEF Export!ExportStep
    <3>1. CASE redacted[step_at].source = "system"
      <4>1. UNCHANGED <<transcript_lines, omitted_content_parts>>
        BY <2>3, <3>1 DEF Export!ExportStep, Export!step
      <4>2. PartsType'
        <5>1. 1 <= Len(redacted[step_at].observation) + 1
          BY <2>2, <3>0
        <5> QED
          BY <2>0, <2>1, <3>0, <4>1, <5>1 DEF PartsType
      <4>3. \A i \in DOMAIN redacted : \A n \in PlacesOf(i) :
               Past(i, n)' /\ (n # 0 \/ redacted[i].source # "system") => Past(i, n)
        BY <2>1, <2>2, <3>0, <3>1 DEF Past
      <4> QED
        BY <2>0, <4>1, <4>2, <4>3, PartsSkip
    <3>2. CASE redacted[step_at].source # "system"
      <4> DEFINE line == [type |-> Export!LineType(redacted[step_at].source),
                          created_at |-> redacted[step_at].timestamp,
                          content |-> Export!Text(redacted[step_at].message),
                          tool_calls |-> redacted[step_at].tool_calls,
                          step |-> step_at, result |-> 0]
      <4>1. /\ transcript_lines' = Append(transcript_lines, line)
            /\ omitted_content_parts' =
                  omitted_content_parts + Export!OmittedParts(redacted[step_at].message)
        BY <2>3, <3>0, <3>2 DEF Export!ExportStep, Export!step, Export!TranscriptLine
      <4>2. 0 \in PlacesOf(step_at) /\ ContentAt(step_at, 0) = redacted[step_at].message
        BY DEF PlacesOf, ContentAt
      <4>3. Export!LineType(redacted[step_at].source) \in {"USER_INPUT", "PLANNER_RESPONSE"}
        BY DEF Export!LineType
      <4>4. Export!Text(redacted[step_at].message) \in SUBSET Nat
        BY <2>2, <3>0, <4>2, PartsLeftOut
      <4>5. line \in TranscriptLines
        BY <2>1, <2>2, <3>0, <4>3, <4>4 DEF TranscriptLines
      <4>6. /\ line.step = step_at /\ line.result = 0
            /\ line.type # "TOOL_RESPONSE"
            /\ line.content = Export!Text(redacted[step_at].message)
        BY <4>3
      <4> HIDE DEF line
      <4> QED
        BY <1>0, <2>0, <3>0, <4>1, <4>2, <4>5, <4>6, PartsWrite
    <3> QED
      BY <3>1, <3>2
  <2>4. CASE Export!ExportResult
    <3>0. /\ step_at \in DOMAIN redacted /\ result_at \in DOMAIN redacted[step_at].observation
          /\ result_at' = result_at + 1 /\ UNCHANGED <<step_at, payload>>
      BY <2>1, <2>4 DEF Export!ExportResult, Export!step
    <3>1. /\ result_at # 0 /\ result_at \in PlacesOf(step_at)
          /\ ContentAt(step_at, result_at) = redacted[step_at].observation[result_at].content
      BY <2>2, <3>0 DEF PlacesOf, ContentAt
    <3> DEFINE line == [type |-> "TOOL_RESPONSE",
                        created_at |-> redacted[step_at].timestamp,
                        content |-> Export!Text(redacted[step_at].observation[result_at].content),
                        tool_calls |-> <<>>,
                        step |-> step_at, result |-> result_at]
    <3>2. /\ transcript_lines' = Append(transcript_lines, line)
          /\ omitted_content_parts' = omitted_content_parts
                + Export!OmittedParts(redacted[step_at].observation[result_at].content)
      BY <2>4 DEF Export!ExportResult, Export!step, Export!TranscriptLine
    <3>3. Export!Text(redacted[step_at].observation[result_at].content) \in SUBSET Nat
      BY <2>2, <3>0, <3>1, PartsLeftOut
    <3>4. line \in TranscriptLines
      <4>1. <<>> \in Seq(CallIds)
        OBVIOUS
      <4> QED
        BY <2>1, <2>2, <3>0, <3>3, <4>1 DEF TranscriptLines
    <3>5. /\ line.step = step_at /\ line.result = result_at /\ line.type = "TOOL_RESPONSE"
          /\ line.content = Export!Text(ContentAt(step_at, result_at))
      BY <3>1
    <3> HIDE DEF line
    <3> QED
      BY <1>0, <2>0, <3>0, <3>1, <3>2, <3>4, <3>5, PartsWrite
  <2>5. CASE Export!NextStep
    <3>0. /\ step_at \in DOMAIN redacted /\ result_at > Len(redacted[step_at].observation)
          /\ step_at' = step_at + 1 /\ result_at' = 0
          /\ UNCHANGED <<transcript_lines, omitted_content_parts, payload>>
      BY <2>1, <2>5 DEF Export!NextStep, Export!step
    <3>1. PartsType'
      <4>1. step_at' \in DOMAIN redacted => 0 <= Len(redacted[step_at'].observation) + 1
        BY <2>2
      <4>2. step_at' \in 1 .. Len(redacted) + 1 /\ ~payload
        BY <2>1, <3>0
      <4> QED
        BY <2>0, <2>1, <3>0, <4>1, <4>2 DEF PartsType
    <3>2. \A i \in DOMAIN redacted : \A n \in PlacesOf(i) : Past(i, n)' => Past(i, n)
      <4> SUFFICES ASSUME NEW i \in DOMAIN redacted, NEW n \in PlacesOf(i), Past(i, n)'
                   PROVE  Past(i, n)
        OBVIOUS
      <4>1. n \in Nat /\ n <= Len(redacted[i].observation) /\ Len(redacted[i].observation) \in Nat
        BY <2>2 DEF PlacesOf
      <4>2. i < step_at \/ i = step_at
        BY <2>1, <2>2, <3>0 DEF Past
      <4>3. i = step_at => n < result_at
        BY <2>1, <3>0, <4>1
      <4> QED
        BY <4>2, <4>3 DEF Past
    <3> QED
      BY <2>0, <3>0, <3>1, <3>2, PartsSkip
  <2>6. CASE Export!ReturnExport
    <3>0. /\ step_at > Len(redacted) /\ payload' = TRUE
          /\ UNCHANGED <<transcript_lines, omitted_content_parts, step_at, result_at>>
      BY <2>6 DEF Export!ReturnExport
    <3>1. PartsType'
      BY <2>0, <2>1, <3>0 DEF PartsType
    <3>2. \A i, n : Past(i, n)' <=> Past(i, n)
      BY <3>0 DEF Past
    <3> QED
      BY <2>0, <3>0, <3>1, <3>2, PartsSkip
  <2> QED
    BY <2>0, <2>3, <2>4, <2>5, <2>6 DEF Export!ExportNext
<1>4. CASE Ended
  <2>1. UNCHANGED convertVars
    BY <1>4 DEF Ended
  <2> QED
    BY <2>1, <1>2
<1> QED
  BY <1>1, <1>2, <1>3, <1>4 DEF ConvertNext

\* Nothing has been left out when the command starts.
LEMMA PartsInit == ConvertInit => PartsInv
<1> SUFFICES ASSUME ConvertInit PROVE PartsInv
  OBVIOUS
<1>1. TypeInv /\ other \in {<<>>} \cup OtherTrajectories
  BY ParserInvInit DEF ParserInv, ConvertInit
<1>2. NotBegun /\ omitted_content_parts = 0
  BY DEF ConvertInit, Export!ExportInit, NotBegun
<1> QED
  BY <1>1, <1>2, NothingLeftOut DEF PartsInv, PartsNotBegun

\* When all has been written, the promise is what is known.
LEMMA PartsAreAccounted ==
    ASSUME TypeInv, PartsInv
    PROVE  PartsAccounted
<1> SUFFICES ASSUME payload PROVE Export!PartsAccounted
  BY DEF PartsAccounted, Export!PartsAccounted
<1>1. PartsWalk /\ step_at = Len(redacted) + 1
  BY DEF PartsInv, PartsWalk, PartsType, NotBegun
<1>2. /\ Len(redacted) \in Nat /\ DOMAIN redacted = 1 .. Len(redacted)
  BY RedactedType DEF PartsInv
<1>3. \A i \in DOMAIN redacted : \A n : Past(i, n)
  BY <1>1, <1>2 DEF Past
<1>4. \A i \in DOMAIN redacted : \A n \in {0} \cup DOMAIN redacted[i].observation :
         n # 0 \/ redacted[i].source # "system" =>
             \E t \in DOMAIN transcript_lines : Export!WrittenFor(t, i, n)
  BY <1>1, <1>3 DEF PartsWalk, PlacesOf
<1>5. omitted_content_parts = Export!Cardinality(Export!Lacking)
  BY <1>1, ExportCounts DEF PartsWalk
<1> QED
  BY <1>4, <1>5 DEF Export!PartsAccounted

-----------------------------------------------------------------------------
(***************************************************************************)
(* The theorems.                                                           *)
(***************************************************************************)

\* Whatever the log: a response of the transcript, which has no call ids, follows the
\* planner line whose call it answers, with nothing but earlier responses between, so that
\* a reader of the transcript who pairs by position pairs as the file did by id.
THEOREM ResponsesPairByPosition == ConvertSpec => []ResponsesFollowTheirCall
BY ConvertInvariance, ResponsesFollow, PTL

\* Though the parser moves results to their calls, the times that convert prints never
\* fall where the log's do not: a response bears the time of the step it was moved to.
THEOREM TimesNeverFall == ConvertSpec => []TranscriptTimesInOrder
<1>1. ParserInv /\ WalkOfLog => TranscriptTimesInOrder
  BY TimesInOrder DEF ParserInv
<1> QED
  BY <1>1, ConvertInvariance, PTL

\* When convert prints, every result of the log is in the transcript once or was counted
\* as orphaned, and every turn is in it once and in order or was counted as omitted.
THEOREM NothingLostInTranscript == ConvertSpec => []TranscriptComplete
<1>1. ParserInv /\ WalkOfLog => TranscriptComplete
  BY ResultsReach, TurnsReach DEF TranscriptComplete
<1> QED
  BY <1>1, ConvertInvariance, PTL

\* Whoever made the trajectory, of a log or not: when the payload is returned, each user
\* or agent message and each result has its line, and the count of omitted parts is the
\* number of parts that these lines lack.
THEOREM OmissionsAreCounted == ConvertSpec => []PartsAccounted
<1>1. ConvertInit => ParserInv /\ PartsInv
  BY ParserInvInit, PartsInit
<1>2. ParserInv /\ PartsInv /\ [ConvertNext]_convertVars => (ParserInv /\ PartsInv)'
  BY ParserInvStep, PartsStep DEF ParserInv
<1>3. ParserInv /\ PartsInv => PartsAccounted
  BY PartsAreAccounted DEF ParserInv
<1> QED
  BY <1>1, <1>2, <1>3, PTL DEF ConvertSpec
=============================================================================
