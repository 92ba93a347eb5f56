--------------------------- MODULE AntigravityExport ---------------------------
(***************************************************************************)
(* export_with_report of src/adapters/antigravity/exporter.py: the walk    *)
(* over a trajectory that writes one transcript line per user or agent     *)
(* step and, right after its step, one per observation result.  The format *)
(* has no call id on a result and no line for a system message.            *)
(*                                                                         *)
(* A message or a result is its sequence of content parts: "text", "empty" *)
(* for a text part without text, "image" for any other.  (Content that is  *)
(* a string is one "text", or no part if it is empty.)  The step and the   *)
(* result that a line was written for are kept with it.                    *)
(***************************************************************************)
EXTENDS Naturals, Sequences, FiniteSets

VARIABLES
    trajectory,                 \* the steps to export
    step_at,                    \* the step that the loop is at
    result_at,                  \* 0: its own line is due; n: its n-th result is
    transcript_lines,           \* the lines written
    omitted_system_messages,
    omitted_content_parts,
    payload                     \* whether the export has been returned

exportVars == <<step_at, result_at, transcript_lines, omitted_system_messages,
                omitted_content_parts, payload>>

ExportInit ==
    /\ step_at = 1 /\ result_at = 0
    /\ transcript_lines = <<>>
    /\ omitted_system_messages = 0 /\ omitted_content_parts = 0
    /\ payload = FALSE

-----------------------------------------------------------------------------
step == trajectory[step_at]

LineType(source) == IF source = "user" THEN "USER_INPUT" ELSE "PLANNER_RESPONSE"

\* _extract_text_and_omissions: the parts whose texts are joined, each told by its
\* position, and how many are left out; a text part without text is one of these.
Text(content) == {p \in DOMAIN content : content[p] = "text"}

Slip_OmittedParts(content) == Cardinality({p \in DOMAIN content : content[p] = "image"})

OmittedParts(content) == Cardinality({p \in DOMAIN content : content[p] # "text"})

Slip_TranscriptLine(type, content, calls) ==
    [type |-> type,
     created_at |-> IF type = "TOOL_RESPONSE" THEN trajectory[Len(trajectory)].timestamp ELSE step.timestamp,
     content |-> Text(content), tool_calls |-> calls, step |-> step_at, result |-> result_at]

\* step_index is the position of the line.  A response has the time of the call's step.
TranscriptLine(type, content, calls) ==
    [type |-> type, created_at |-> step.timestamp, content |-> Text(content),
     tool_calls |-> calls, step |-> step_at, result |-> result_at]

\* Lines without text are skipped.
Slip_ExportStep_SkipsSilent ==
    /\ step_at <= Len(trajectory) /\ result_at = 0
    /\ result_at' = 1
    /\ IF step.source = "system"
         THEN /\ omitted_system_messages' = omitted_system_messages + 1
              /\ UNCHANGED <<transcript_lines, omitted_content_parts>>
         ELSE /\ transcript_lines' = IF Text(step.message) = {} THEN transcript_lines
                    ELSE Append(transcript_lines,
                            TranscriptLine(LineType(step.source), step.message, step.tool_calls))
              /\ omitted_content_parts' = omitted_content_parts + OmittedParts(step.message)
              /\ UNCHANGED omitted_system_messages
    /\ UNCHANGED <<step_at, payload>>

ExportStep ==
    /\ step_at <= Len(trajectory) /\ result_at = 0
    /\ result_at' = 1
    /\ IF step.source = "system"
         THEN /\ omitted_system_messages' = omitted_system_messages + 1
              /\ UNCHANGED <<transcript_lines, omitted_content_parts>>
         ELSE /\ transcript_lines' = Append(transcript_lines,
                    TranscriptLine(LineType(step.source), step.message, step.tool_calls))
              /\ omitted_content_parts' = omitted_content_parts + OmittedParts(step.message)
              /\ UNCHANGED omitted_system_messages
    /\ UNCHANGED <<step_at, payload>>

ExportResult ==
    /\ step_at <= Len(trajectory)
    /\ result_at \in DOMAIN step.observation
    /\ result_at' = result_at + 1
    /\ transcript_lines' = Append(transcript_lines, TranscriptLine("TOOL_RESPONSE", step.observation[result_at].content, <<>>))
    /\ omitted_content_parts' =
          omitted_content_parts + OmittedParts(step.observation[result_at].content)
    /\ UNCHANGED <<step_at, omitted_system_messages, payload>>

\* A step's results after the first are forgotten.
Slip_NextStep ==
    /\ step_at <= Len(trajectory) /\ result_at > (IF step.observation = <<>> THEN 0 ELSE 1)
    /\ step_at' = step_at + 1 /\ result_at' = 0
    /\ UNCHANGED <<transcript_lines, omitted_system_messages, omitted_content_parts, payload>>

NextStep ==
    /\ step_at <= Len(trajectory) /\ result_at > Len(step.observation)
    /\ step_at' = step_at + 1 /\ result_at' = 0
    /\ UNCHANGED <<transcript_lines, omitted_system_messages, omitted_content_parts, payload>>

ReturnExport ==
    /\ step_at > Len(trajectory) /\ ~payload
    /\ payload' = TRUE
    /\ UNCHANGED <<step_at, result_at, transcript_lines, omitted_system_messages,
                   omitted_content_parts>>

ExportNext == ExportStep \/ ExportResult \/ NextStep \/ ReturnExport

-----------------------------------------------------------------------------
\* The content that line t was written for.
Original(t) ==
    LET line == transcript_lines[t] IN
    IF line.type = "TOOL_RESPONSE" THEN trajectory[line.step].observation[line.result].content
                                   ELSE trajectory[line.step].message

\* The parts that a written line lacks of the content it was written for, each with
\* its line.
Lacking ==
    UNION {{<<t, p>> : p \in DOMAIN Original(t) \ transcript_lines[t].content} :
              t \in DOMAIN transcript_lines}

\* Line t is the n-th response of step i, or the line of the step itself.
WrittenFor(t, i, n) ==
    /\ transcript_lines[t].step = i
    /\ IF n = 0 THEN transcript_lines[t].type # "TOOL_RESPONSE"
                ELSE transcript_lines[t].type = "TOOL_RESPONSE" /\ transcript_lines[t].result = n

\* When the payload is returned, the count of omitted parts is what the written
\* lines lack of the content they were written for: with it and the lines, no
\* part of a user or agent message or of a result is lost without a trace.
PartsAccounted ==
    payload =>
        /\ \A i \in DOMAIN trajectory : \A n \in {0} \cup DOMAIN trajectory[i].observation :
              n # 0 \/ trajectory[i].source # "system" =>
                  \E t \in DOMAIN transcript_lines : WrittenFor(t, i, n)
        /\ omitted_content_parts = Cardinality(Lacking)
=============================================================================
