----------------------------- MODULE ExplainSession -----------------------------
(***************************************************************************)
(* `import` and `explain` of src/cli/main.py: the log is parsed, redacted  *)
(* and written to a document; the document, which another hand may have    *)
(* changed meanwhile, is rendered to the report of src/explain/markdown.py.*)
(* The report is what it says: the outcome of each call, the results under *)
(* it and beside it, the tokens, the losses and the consistency checks.    *)
(* Texts and their layout, the rows copied from the document and the       *)
(* redaction of texts change nothing of that and are left out.             *)
(***************************************************************************)
EXTENDS ClaudeParserProperties, SequencesExt

CONSTANT Tokens     \* the prompt tokens of each usage object

ASSUME TokensAssumption == Tokens \in [Usages -> Nat]

VARIABLES
    file,       \* the file of the document: "absent", "partial" or "complete"
    document,   \* what it holds when it is complete
    edit,       \* what was changed in it after the import
    outcome,    \* of `explain`: "none", "error" or "ok"
    report      \* the report, once there is one

explanation == <<file, document, edit, outcome, report>>
explainVars == <<vars, explanation>>

-----------------------------------------------------------------------------
\* redact_trajectory, as far as it shows: the working directory is taken out.
Redacted ==
    [steps |-> steps, accounted |-> TRUE, fidelity |-> fidelity, breakdown |-> breakdown,
     meta |-> [meta EXCEPT !["cwd"] = NoMeta]]

\* The results of a step that answer call id, by their places; the report keeps their order.
ResultsOf(step, id) ==
    {r \in DOMAIN step.observation : step.observation[r].source_call_id = id}

\* _is_error: nothing but JSON true.
IsError(result) == result.is_error = "true"

\* The results of the step, whichever call they are of.
Slip_CallStatus(step, id) ==
    CASE step.observation = <<>> -> "no result"
      [] \E r \in DOMAIN step.observation : IsError(step.observation[r]) -> "error"
      [] OTHER -> "result"

CallStatus(step, id) ==
    LET results == ResultsOf(step, id) IN
    CASE results = {} -> "no result"
      [] \E r \in results : IsError(step.observation[r]) -> "error"
      [] OTHER -> "result"

Slip_Unmatched(step) == ResultsOf(step, NoCallId)

\* _render_unmatched_results.
Unmatched(step) ==
    {r \in DOMAIN step.observation :
        \A c \in DOMAIN step.tool_calls : step.tool_calls[c] # step.observation[r].source_call_id}

\* One step of the timeline, with the rows of its calls in the table.
Rendered(step) ==
    [calls |-> [c \in DOMAIN step.tool_calls |->
                   [status  |-> CallStatus(step, step.tool_calls[c]),
                    results |-> ResultsOf(step, step.tool_calls[c])]],
     unmatched |-> Unmatched(step)]

Statuses == {"result", "error", "no result"}

\* The sum of the numbers of f.
Total(f) == Cardinality(Cells(f))

\* The line of the summary that counts the calls by their status.
Summary(doc) ==
    [s \in Statuses |->
        Cardinality({p \in UNION {{i} \X DOMAIN doc.steps[i].tool_calls : i \in DOMAIN doc.steps} :
                        CallStatus(doc.steps[p[1]], doc.steps[p[1]].tool_calls[p[2]]) = s})]

\* _token_usage: the metrics of the steps, added up.
TokenUsage(doc) ==
    Total([i \in {k \in DOMAIN doc.steps : doc.steps[k].metrics # NoUsage} |->
              Tokens[doc.steps[i].metrics]])

Slip_LossCounters ==
    {"omitted_tool_result_timestamps", "invalid_source_timestamps", "orphaned_tool_results"}

LossCounters ==
    {"omitted_tool_result_timestamps", "invalid_source_timestamps",
     "orphaned_tool_results", "conflicting_usage_records"}

\* _limits: what is listed as lost or not carried.  Without a fidelity report there is
\* nothing to list, and the section says that nothing follows from that.
Lost(doc) ==
    [records |-> [category \in {k[2] : k \in DOMAIN doc.breakdown.records} |->
                     Total([k \in {r \in DOMAIN doc.breakdown.records : r[2] = category} |->
                               doc.breakdown.records[k]])],
     blocks  |-> doc.breakdown.blocks,
     fields  |-> DOMAIN doc.breakdown.fields,
     counts  |-> {c \in LossCounters : doc.fidelity[c] > 0}]

NothingLost(doc) ==
    /\ doc.accounted
    /\ Lost(doc) = [records |-> <<>>, blocks |-> <<>>, fields |-> {}, counts |-> {}]

\* _consistency: the counts of the report against the document.
ConsistentCalls(doc) ==
    doc.fidelity["tool_calls_preserved"] =
        Total([i \in DOMAIN doc.steps |-> Len(doc.steps[i].tool_calls)])

ConsistentResults(doc) ==
    doc.fidelity["observation_results_preserved"] =
        Total([i \in DOMAIN doc.steps |-> Len(doc.steps[i].observation)])

\* render_report.
Render(doc) ==
    [steps    |-> [i \in DOMAIN doc.steps |-> Rendered(doc.steps[i])],
     summary  |-> Summary(doc),
     tokens   |-> TokenUsage(doc),
     nothing_lost |-> NothingLost(doc),
     lost     |-> IF doc.accounted THEN Lost(doc) ELSE <<>>,
     mismatch |-> IF ~doc.accounted THEN {}
                  ELSE {c \in {"calls"} : ~ConsistentCalls(doc)}
                       \cup {c \in {"results"} : ~ConsistentResults(doc)}]

-----------------------------------------------------------------------------
ExplainInit ==
    /\ Init
    /\ file = "absent" /\ document = <<>> /\ edit = "none"
    /\ outcome = "none" /\ report = <<>>

ParseSource == Next /\ UNCHANGED explanation

WriteDocument ==
    /\ pc = "done" /\ file = "absent"
    /\ file' = "complete" /\ document' = Redacted
    /\ UNCHANGED <<vars, edit, outcome, report>>

\* The document is not written at one stroke.
CrashWriting ==
    /\ pc = "done" /\ file = "absent"
    /\ file' = "partial"
    /\ UNCHANGED <<vars, document, edit, outcome, report>>

Edit(kind) ==
    /\ file = "complete" /\ edit = "none" /\ outcome = "none"
    /\ edit' = kind
    /\ UNCHANGED <<vars, file, outcome, report>>

LoseCall ==
    /\ Edit("lost_call")
    /\ \E i \in DOMAIN document.steps : \E c \in DOMAIN document.steps[i].tool_calls :
          document' = [document EXCEPT !.steps[i].tool_calls = RemoveAt(@, c)]

LoseResult ==
    /\ Edit("lost_result")
    /\ \E i \in DOMAIN document.steps : \E o \in DOMAIN document.steps[i].observation :
          document' = [document EXCEPT !.steps[i].observation = RemoveAt(@, o)]

\* A document of another producer has no fidelity report.
LoseAccount ==
    /\ Edit("lost_account")
    /\ document' = [document EXCEPT !.accounted = FALSE]

Explain ==
    /\ file = "complete" /\ outcome = "none"
    /\ outcome' = "ok" /\ report' = Render(document)
    /\ UNCHANGED <<vars, file, document, edit>>

\* The document or the manifest is not usable.  What the ATIF library accepts of a
\* document that was edited is not known here.
RejectDocument ==
    /\ (pc = "done" \/ Failed) /\ outcome = "none"
    /\ outcome' = "error"
    /\ UNCHANGED <<vars, file, document, edit, report>>

Explained == outcome # "none" /\ UNCHANGED explainVars

ExplainNext ==
    \/ ParseSource \/ WriteDocument \/ CrashWriting
    \/ LoseCall \/ LoseResult \/ LoseAccount
    \/ Explain \/ RejectDocument \/ Explained

ExplainSpec == ExplainInit /\ [][ExplainNext]_explainVars

-----------------------------------------------------------------------------
\* A report of what was imported, and nothing else.
Faithful == outcome = "ok" /\ edit = "none"

BlockOf(a) == log[a[1]].blocks[a[2]]

CallsIn(n) ==
    IF Converted(n) /\ log[n].role = "assistant"
      THEN {log[n].blocks[b].id : b \in {k \in DOMAIN log[n].blocks :
                                            log[n].blocks[k].kind = "tool_use" /\ UsableCall(log[n].blocks[k])}}
      ELSE {}

\* The results in the file that answer call id of line n: they come after it, and the
\* id is not used for another call in between.
Answers(n, id) ==
    {a \in Arrived : /\ BlockOf(a).id = id
                     /\ n < a[1]
                     /\ \A k \in n + 1 .. a[1] - 1 : id \notin CallsIn(k)}

\* What the report says of a call is what the log says, through parser, document and
\* rendering: "no result" if the file has no answer to it, "error" if some answer to it
\* has is_error true and only if one has an is_error at all, and the results shown under
\* it are its answers and no others.  The summary counts the same.  What a flag that is
\* set but is not JSON true should make of a call is not decided here but in
\* ErrorFlagIsError.
OutcomesFromFile ==
    Faithful =>
        /\ \A i \in DOMAIN report.steps : \A c \in DOMAIN report.steps[i].calls :
              LET row     == report.steps[i].calls[c]
                  answers == Answers(document.steps[i].source_line, document.steps[i].tool_calls[c])
              IN  /\ row.status = "no result" <=> answers = {}
                  /\ (\E a \in answers : BlockOf(a).is_error = "true") => row.status = "error"
                  /\ row.status = "error" => \E a \in answers : BlockOf(a).is_error # "none"
                  /\ {Origin(<<i, r>>) : r \in row.results} = answers
        /\ report.summary["result"] + report.summary["error"] + report.summary["no result"] =
              fidelity["tool_calls_preserved"]
        /\ report.summary["no result"] = 0 <=>
              \A n \in DOMAIN log : \A id \in CallsIn(n) : Answers(n, id) # {}

\* The legend of the report (src/explain/markdown.py): the outcome is error when the
\* correlated result carries an is_error flag; here, one that says true.
ErrorFlagIsError ==
    Faithful =>
        \A i \in DOMAIN report.steps : \A c \in DOMAIN report.steps[i].calls :
            (\E a \in Answers(document.steps[i].source_line, document.steps[i].tool_calls[c]) :
                BlockOf(a).is_error \in {"true", "affirmed"})
                => report.steps[i].calls[c].status = "error"

\* "The fidelity report counts nothing lost" stands in the report exactly if every line
\* of the file was converted with all its fields and blocks, every time in it could be
\* used, every result had a call and no time of its own, and no usage of a response
\* contradicts another.  It says nothing of a synthetic model, nor of usage that is
\* repeated, invalid, synthetic or without a model: these are left out of the
\* trajectory, and of the judgement.
NothingLostIsTrue ==
    outcome = "ok" /\ edit # "lost_account" =>
        (report.nothing_lost <=>
            /\ \A n \in DOMAIN log :
                  /\ Converted(n) /\ log[n].ignored = {} /\ log[n].timestamp # "invalid"
                  /\ ~NonListContent(log[n])
                  /\ \A b \in DOMAIN log[n].blocks :
                        LET block_n == log[n].blocks[b] IN
                        \/ block_n.kind = "text" /\ block_n.valid
                        \/ block_n.kind = "tool_use" /\ UsableCall(block_n) /\ log[n].role = "assistant"
                        \/ /\ block_n.kind = "tool_result" /\ log[n].role = "user"
                           /\ log[n].timestamp = "absent" /\ DroppedItems(block_n.items) = 0
                           /\ \E k \in 1 .. n - 1 : block_n.id \in CallsIn(k)
            /\ \A id \in MessageIds : \A n, k \in UsageRecords(id) : log[n].usage = log[k].usage)

\* The tokens of the report are those of the API responses, each counted with its
\* first usable usage, and of every record with usage and no response id.
TokensPerResponse ==
    Faithful =>
        report.tokens =
            Total([id \in {m \in MessageIds : UsageRecords(m) # {}} |->
                      Tokens[log[Min(UsageRecords(id))].usage]])
            + Total([n \in UsageRecords(NoMessageId) |-> Tokens[log[n].usage]])

\* A call or a result that is missing from the document is noticed, by the check of its
\* kind and no other; an unchanged document passes both, and has no result that is not
\* at its call.  Whatever is missing, every result that is there is shown.
TamperingNoticed ==
    outcome = "ok" =>
        /\ report.mismatch = CASE edit = "lost_call"   -> {"calls"}
                               [] edit = "lost_result" -> {"results"}
                               [] OTHER                -> {}
        /\ \A i \in DOMAIN report.steps :
              LET shown == report.steps[i] IN
              /\ DOMAIN document.steps[i].observation =
                    shown.unmatched \cup UNION {shown.calls[c].results : c \in DOMAIN shown.calls}
              /\ edit # "lost_call" => shown.unmatched = {}

Spans == INSTANCE ObserveExport WITH
    trajectory <- steps, Trajectories <- {}, Outcomes <- {}, QueueSize <- 1, BatchSize <- 1,
    endpoint <- FALSE, command <- "loaded", step_at <- 1, call_at <- 0, ended <- <<>>,
    queue <- <<>>, batch <- <<>>, delivered <- {}, failed <- FALSE, verdict <- "none"

\* The report and the spans of `observe` judge errors each in its own way.  Where every
\* is_error is true or absent they say the same of a call that has one result at most,
\* and of a call with several the spans never report an error that the report does not.
ReportAndSpansAgree ==
    outcome = "ok" =>
        \A i \in DOMAIN report.steps : \A c \in DOMAIN report.steps[i].calls :
            LET row  == report.steps[i].calls[c]
                span == Spans!ToolStatus(document.steps[i], c)
            IN  (\A r \in row.results : document.steps[i].observation[r].is_error # "affirmed") =>
                    /\ span = "ERROR" => row.status = "error"
                    /\ (\A q, r \in row.results : q = r) => (row.status = "error" => span = "ERROR")
=============================================================================
