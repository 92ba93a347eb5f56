---------------------------- MODULE ConvertSession ----------------------------
(***************************************************************************)
(* `convert` of src/cli/main.py: the log is parsed, the trajectory is      *)
(* redacted, and the result is exported.  The parser of ClaudeParser runs  *)
(* to its end, and AntigravityExport walks over what it built; redaction   *)
(* rewrites texts in place, and neither adds nor removes any of what is    *)
(* modelled here.  A parser that raised ends the command before it prints. *)
(* export_with_report may also be given a trajectory of another producer.  *)
(***************************************************************************)
EXTENDS ClaudeParserProperties

CONSTANT OtherTrajectories  \* trajectories of other producers, not empty

ContentParts == {"text", "empty", "image"}

\* A step of an ATIF trajectory, as the exporter reads it.
ExportedStep ==
    [source : {"user", "agent", "system"}, timestamp : Nat, message : Seq(ContentParts),
     tool_calls : Seq(CallIds), observation : Seq([content : Seq(ContentParts)])]

ASSUME TrajectoryAssumption == OtherTrajectories \subseteq Seq(ExportedStep)

VARIABLES
    other,      \* the one that is exported instead of a log; or empty
    step_at, result_at, transcript_lines, omitted_system_messages, omitted_content_parts,
    payload     \* the state of AntigravityExport

\* A time is told by the line it was read from; 0 is no time.
Time(n) == IF log[n].timestamp = "valid" THEN n ELSE 0

\* The trajectory that is exported.  Every text the parser writes is a string.
redacted ==
  IF other # <<>> THEN other ELSE
    [i \in DOMAIN steps |->
        [source      |-> steps[i].source,
         timestamp   |-> Time(steps[i].source_line),
         message     |-> IF steps[i].message THEN <<"text">> ELSE <<>>,
         tool_calls  |-> steps[i].tool_calls,
         observation |-> [n \in DOMAIN steps[i].observation |-> [content |-> <<"text">>]]]]

Export == INSTANCE AntigravityExport WITH trajectory <- redacted

export == <<step_at, result_at, transcript_lines, omitted_system_messages,
            omitted_content_parts, payload>>

convertVars == <<vars, other, export>>

ConvertInit == Init /\ other \in {<<>>} \cup OtherTrajectories /\ Export!ExportInit

Parse == Next /\ other = <<>> /\ UNCHANGED <<other, export>>

ExportSession ==
    /\ pc = "done" \/ other # <<>>
    /\ Export!ExportNext
    /\ UNCHANGED <<vars, other>>

Ended == (payload \/ Failed) /\ UNCHANGED convertVars

ConvertNext == Parse \/ ExportSession \/ Ended

ConvertSpec == ConvertInit /\ [][ConvertNext]_convertVars

-----------------------------------------------------------------------------
IsResponse(t) == transcript_lines[t].type = "TOOL_RESPONSE"

\* The source line of a line of the transcript that is not a response.
SourceLine(t) == steps[transcript_lines[t].step].source_line

\* The result that a response was written for.
ResponseTo(t) == At(<<transcript_lines[t].step, transcript_lines[t].result>>)

\* The transcript has no call ids: a response belongs to the planner line that it
\* follows with nothing but responses between.  That line made the call of the
\* response in the file, and the responses to one line keep the file's order.
ResponsesFollowTheirCall ==
    other = <<>> => \A t \in DOMAIN transcript_lines :
        IsResponse(t) =>
            \E h \in 1 .. t - 1 :
                /\ transcript_lines[h].type = "PLANNER_RESPONSE"
                /\ \A k \in h + 1 .. t - 1 :
                      /\ IsResponse(k)
                      /\ \/ ResponseTo(k).line < ResponseTo(t).line
                         \/ ResponseTo(k).line = ResponseTo(t).line
                            /\ ResponseTo(k).item < ResponseTo(t).item
                /\ \E c \in DOMAIN transcript_lines[h].tool_calls :
                      transcript_lines[h].tool_calls[c] =
                          log[ResponseTo(t).line].blocks[ResponseTo(t).item].id

\* When the payload is printed, every tool result of the file is in it or was
\* counted as orphaned, and none is in it twice.
ResultsReachTranscript ==
    payload /\ other = <<>> =>
        LET responses == {t \in DOMAIN transcript_lines : IsResponse(t)} IN
        /\ Cardinality(Arrived) = Cardinality(responses) + fidelity["orphaned_tool_results"]
        /\ \A t, k \in responses : ResponseTo(t) = ResponseTo(k) => t = k

\* When the payload is printed, the turns of the file are in it once and in the
\* file's order, except the system messages, whose number is reported.
TurnsReachTranscript ==
    payload /\ other = <<>> =>
        LET turns == {t \in DOMAIN transcript_lines : ~IsResponse(t)}
            own   == {n \in 1 .. line_number : Converted(n) /\ ~OnlyResults(n)}
        IN  /\ {SourceLine(t) : t \in turns} = {n \in own : log[n].role # "system"}
            /\ \A t, k \in turns : t < k => SourceLine(t) < SourceLine(k)
            /\ omitted_system_messages = Cardinality({n \in own : log[n].role = "system"})

\* Nothing of the file is missing from the printed transcript but what is reported.
TranscriptComplete == ResultsReachTranscript /\ TurnsReachTranscript

\* The transcript can be read as a record in time: though results move from where they
\* were logged to their calls, the times on its lines never fall, if the log's never do.
TranscriptTimesInOrder ==
    other = <<>> => \A t, k \in DOMAIN transcript_lines :
        t < k /\ transcript_lines[k].created_at # 0 =>
            transcript_lines[t].created_at <= transcript_lines[k].created_at

\* With the count of omitted parts and the lines, no part of a user or agent message or
\* of a result is lost without a trace, whoever made the trajectory.
PartsAccounted == Export!PartsAccounted
=============================================================================
