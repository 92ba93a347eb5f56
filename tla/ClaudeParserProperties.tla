------------------------ MODULE ClaudeParserProperties ------------------------
(***************************************************************************)
(* What parse_claude_jsonl must get right, stated against the file itself: *)
(* `log` is all that was read, and every property below relates the        *)
(* trajectory and the report to it.                                        *)
(***************************************************************************)
EXTENDS ClaudeParser, FiniteSetsExt

TypeOK ==
    /\ pc \in {"reading", "record", "done", "raised", "rejected"}
    /\ log \in Seq(FileLines) /\ Len(log) <= MaxLines
    /\ at \in 1 .. MaxBlocks + 1
    /\ content \in BOOLEAN
    /\ tool_calls \in Seq(CallIds)
    /\ tool_results \in Seq(Result)
    /\ attached \in 0 .. Len(tool_results)
    /\ steps \in Seq(Step)
    /\ tool_call_steps = [k \in DOMAIN tool_call_steps |-> tool_call_steps[k]]
    /\ DOMAIN tool_call_steps \subseteq CallIds
    /\ \A k \in DOMAIN tool_call_steps : tool_call_steps[k] \in DOMAIN steps
    /\ usage_by_message = [k \in DOMAIN usage_by_message |-> usage_by_message[k]]
    /\ DOMAIN usage_by_message \subseteq MessageIds
    /\ \A k \in DOMAIN usage_by_message : usage_by_message[k] \in Usages
    /\ meta \in [MetaFields -> MetaValues \cup {NoMeta}]
    /\ fidelity \in [Counters -> Nat]
    /\ IsBreakdown(breakdown)
    /\ normalized \in BOOLEAN
    /\ transformations \in BOOLEAN

-----------------------------------------------------------------------------
\* The file, seen from outside the parser.

Supported(n) == log[n].shape = "object" /\ log[n].type \in SupportedTypes

Converted(n) == Supported(n) /\ log[n].message /\ log[n].role \in SupportedTypes

\* The lines the loop is through with.
Finished == IF pc = "record" THEN 1 .. line_number - 1 ELSE 1 .. line_number

\* The tool results of the file that the parser has come to: <<line, item>>.
Arrived ==
    {a \in (1 .. line_number) \X (1 .. MaxBlocks) :
        /\ Converted(a[1]) /\ log[a[1]].role = "user"
        /\ a[2] <= Len(log[a[1]].blocks)
        /\ log[a[1]].blocks[a[2]].kind = "tool_result"
        /\ a[1] \in Finished \/ a[2] < at}

\* Those of them still in the hands of _attach_tool_results.
Waiting == {<<tool_results[q].line, tool_results[q].item>> : q \in attached + 1 .. Len(tool_results)}

\* The places in the trajectory that hold a result, and what they hold.
Placed == UNION {{i} \X DOMAIN steps[i].observation : i \in DOMAIN steps}

At(p) == steps[p[1]].observation[p[2]]

Origin(p) == <<At(p).line, At(p).item>>

\* The calls of the trajectory, as places <<step, position>>.
CallPlaces == UNION {{i} \X DOMAIN steps[i].tool_calls : i \in DOMAIN steps}

\* Places one after the other, as loops over lines and items come to them.
Precedes(p, q) == p[1] < q[1] \/ (p[1] = q[1] /\ p[2] < q[2])

Preceding(places, p) == {q \in places : Precedes(q, p)}

InOrder(places) ==
    [k \in 1 .. Cardinality(places) |->
        CHOOSE p \in places : Cardinality(Preceding(places, p)) = k - 1]

MakesCall(i, id) == \E c \in DOMAIN steps[i].tool_calls : steps[i].tool_calls[c] = id

\* The records of a response that carry usage, in the part of the file done.
UsageRecords(id) ==
    {n \in Finished : /\ Converted(n) /\ log[n].role = "assistant"
                      /\ log[n].model = "named" /\ log[n].usage # NoUsage
                      /\ log[n].id = id}

HasText(n) ==
    \/ log[n].content = "string" /\ log[n].text
    \/ \E b \in DOMAIN log[n].blocks :
          log[n].blocks[b].kind = "text" /\ log[n].blocks[b].valid /\ log[n].blocks[b].payload

OnlyResults(n) ==
    /\ log[n].role = "user" /\ ~HasText(n)
    /\ \E b \in DOMAIN log[n].blocks : log[n].blocks[b].kind = "tool_result"

-----------------------------------------------------------------------------
\* Every line of the file is accounted for exactly once, as preserved or as
\* unsupported, except the one being worked on.
RecordsAccounted ==
    line_number = fidelity["source_records_preserved"] + fidelity["unsupported_source_records"]
                  + (IF pc \in {"record", "raised"} THEN 1 ELSE 0)

\* Every tool result of the file that was read is in the trajectory, counted as
\* orphaned, or still waiting to be attached; the counters agree with both.
ResultsAccounted ==
    /\ fidelity["observation_results_preserved"] = Cardinality(Placed)
    /\ Cardinality(Arrived) = fidelity["observation_results_preserved"]
                              + fidelity["orphaned_tool_results"] + Len(tool_results) - attached

\* A result sits at the step that made its call: an earlier one, and the latest
\* that had made it when the result was read, however often ids are reused.
ResultAtLatestCall ==
    \A p \in Placed :
        /\ MakesCall(p[1], At(p).source_call_id)
        /\ steps[p[1]].source_line < At(p).line
        /\ \A k \in p[1] + 1 .. Len(steps) :
              MakesCall(k, At(p).source_call_id) => steps[k].source_line > At(p).line

\* A result is orphaned only if no step before it made its call.
OrphanHasNoCall ==
    \A a \in Arrived \ (Waiting \cup {Origin(p) : p \in Placed}) :
        \A k \in DOMAIN steps :
            steps[k].source_line < a[1] => ~MakesCall(k, log[a[1]].blocks[a[2]].id)

\* No result is delivered twice, what is delivered is a result of the file, and
\* a step holds its results in the order of the file.
ResultsOnceInOrder ==
    /\ \A p, q \in Placed : Origin(p) = Origin(q) => p = q
    /\ \A p \in Placed :
          /\ Origin(p) \in Arrived
          /\ At(p).source_call_id = log[At(p).line].blocks[At(p).item].id
          /\ At(p).is_error = log[At(p).line].blocks[At(p).item].is_error
    /\ \A p, q \in Placed :
          p[1] = q[1] /\ p[2] < q[2] =>
              \/ At(p).line < At(q).line
              \/ At(p).line = At(q).line /\ At(p).item < At(q).item

\* Summing the metrics of the steps counts each API response once: of the steps
\* with its id exactly the first with usable usage carries metrics, and they are
\* that record's.
UsageCountedOnce ==
    \A id \in MessageIds :
        LET charged == {i \in DOMAIN steps : steps[i].source_message_id = id
                                             /\ steps[i].metrics # NoUsage}
            first   == Min(UsageRecords(id))
        IN  IF UsageRecords(id) = {} THEN charged = {}
            ELSE \E i \in DOMAIN steps :
                    /\ charged = {i}
                    /\ steps[i].source_line = first
                    /\ steps[i].metrics = log[first].usage

\* Every further usage of an identified response is reported, as a duplicate if
\* it equals the one that was charged and as a conflict if not.
RepeatedUsageReported ==
    LET repeats == UNION {UsageRecords(id) \ {Min(UsageRecords(id))} :
                             id \in {m \in MessageIds : UsageRecords(m) # {}}}
        agrees(n) == log[n].usage = log[Min(UsageRecords(log[n].id))].usage
    IN  /\ fidelity["duplicate_usage_records"] = Cardinality({n \in repeats : agrees(n)})
        /\ fidelity["conflicting_usage_records"] = Cardinality({n \in repeats : ~agrees(n)})

\* Every converted record has exactly one step, of its role and with its text,
\* and the steps follow the file; the one exception is a record of tool results
\* and no text, which has none.
EveryTurnKept ==
    /\ \A n \in Finished :
          LET mine == {i \in DOMAIN steps : steps[i].source_line = n} IN
          IF ~Converted(n) \/ OnlyResults(n) THEN mine = {}
          ELSE \E i \in DOMAIN steps :
                  /\ mine = {i}
                  /\ steps[i].source = (IF log[n].role = "assistant" THEN "agent" ELSE log[n].role)
                  /\ steps[i].message = HasText(n)
                  /\ steps[i].timestamp = (log[n].timestamp = "valid")
    /\ \A i, j \in DOMAIN steps : i < j => steps[i].source_line < steps[j].source_line

\* The report names the transformation exactly when some result was moved, even
\* though the code decides it record by record from a running total.
NormalizationReported ==
    /\ pc # "record" => (normalized <=> fidelity["observation_results_preserved"] > 0)
    /\ pc = "done" => (transformations <=> fidelity["observation_results_preserved"] > 0)

\* Each delivered result whose record had a valid time is counted as a time
\* omitted, and each converted record with an unusable time as invalid.
TimestampsAccounted ==
    /\ fidelity["omitted_tool_result_timestamps"] =
          Cardinality({p \in Placed : log[At(p).line].timestamp = "valid"})
    /\ fidelity["invalid_source_timestamps"] =
          Cardinality({n \in 1 .. line_number : Converted(n) /\ log[n].timestamp = "invalid"})

\* The sum of the entries of a breakdown list: its entries as columns of unit cells.
Cells(list) == UNION {{k} \X (1 .. list[k]) : k \in DOMAIN list}

\* The breakdown lists say what the totals contain: their entries sum to them,
\* and no entry has more blocks with content than blocks.
BreakdownExplainsTotals ==
    /\ fidelity["unsupported_source_records"] = Cardinality(Cells(breakdown.records))
    /\ fidelity["unsupported_source_blocks"] = Cardinality(Cells(breakdown.blocks))
    /\ \A k \in DOMAIN breakdown.blocks :
          breakdown.blocks[k] > 0 /\ breakdown.with_content[k] <= breakdown.blocks[k]
    /\ \A f \in DOMAIN breakdown.fields :
          breakdown.fields[f] = Cardinality({n \in Finished : Converted(n) /\ f \in log[n].ignored})

\* The tool calls counted as preserved are those in the trajectory, and those are
\* the usable ones of the file's assistant records.
CallsAccounted ==
    /\ fidelity["tool_calls_preserved"] =
          Len(tool_calls) + Cardinality(CallPlaces)
    /\ fidelity["tool_calls_preserved"] =
          Cardinality({a \in (1 .. line_number) \X (1 .. MaxBlocks) :
                          /\ Converted(a[1]) /\ log[a[1]].role = "assistant"
                          /\ a[2] <= Len(log[a[1]].blocks)
                          /\ log[a[1]].blocks[a[2]].kind = "tool_use" /\ UsableCall(log[a[1]].blocks[a[2]])
                          /\ a[1] \in Finished \/ a[2] < at})

\* The trajectory's session id, version and workspace are those of the first
\* record of a supported type that carries each, converted or not.
SessionIsFirst ==
    \A f \in MetaFields :
        LET carriers == {n \in 1 .. line_number : Supported(n) /\ log[n].meta[f] # NoMeta}
        IN  meta[f] = IF carriers = {} THEN NoMeta ELSE log[Min(carriers)].meta[f]

\* No call and no result of the file goes missing: each is in the trajectory, or counted
\* as lost, and a result is lost only for want of its call.
ToolTrafficAccounted == CallsAccounted /\ ResultsAccounted /\ OrphanHasNoCall

\* Of the usages that a response repeats one is charged and every other is reported.
UsageAccounted == UsageCountedOnce /\ RepeatedUsageReported

\* What the report says was lost, in its lists and in its counters of times, is what the
\* file has and the trajectory has not.
LossesAccounted == BreakdownExplainsTotals /\ TimestampsAccounted

\* The trajectory follows the file, in its session metadata and turn by turn.
TrajectoryFollowsFile == SessionIsFirst /\ EveryTurnKept

\* A step, once in the trajectory, never changes but by gaining a result at the
\* end of its observations, at most one per step of the parser.
StepsOnlyGrow ==
    [][ /\ Len(steps) <= Len(steps')
        /\ \A i \in DOMAIN steps :
              \/ steps'[i] = steps[i]
              \/ \E r \in Result :
                    steps'[i] = [steps[i] EXCEPT !.observation = Append(@, r)]
      ]_steps

-----------------------------------------------------------------------------
\* docs/SECURITY.md: malformed input and unsupported records are counted in the
\* report rather than reaching field access, so no input ends the conversion.
MalformedInputCounted == pc # "raised"

-----------------------------------------------------------------------------
\* The parser implements the correlation it promises.
Correlation == INSTANCE ToolCorrelation WITH
    Results   <- Result,
    calls     <- [i \in DOMAIN steps |-> {steps[i].tool_calls[c] : c \in DOMAIN steps[i].tool_calls}],
    delivered <- [i \in DOMAIN steps |-> steps[i].observation],
    lost      <- fidelity["orphaned_tool_results"]

\* Every behaviour of the parser delivers results as ToolCorrelation does.
ImplementsCorrelation == Correlation!Spec
=============================================================================
