------------------------ MODULE ObserveExportProperties ------------------------
(***************************************************************************)
(* What `observe` must get right: its verdict against what the collector   *)
(* has, and the trace against the trajectory.                              *)
(***************************************************************************)
EXTENDS ObserveExport

Span == [kind : {"CHAIN", "AGENT", "TOOL"}, step : Nat, call : Nat,
         start : Int, end : Int, status : {"UNSET", "OK", "ERROR"}]

TypeOK ==
    /\ trajectory \in Trajectories
    /\ endpoint \in BOOLEAN
    /\ command \in {"loaded", "configured", "projecting", "flushing", "exited"}
    /\ step_at \in 1 .. Len(trajectory) + 1
    /\ call_at \in Nat
    /\ ended \in Seq(Span)
    /\ queue \in Seq(Span) /\ Len(queue) <= QueueSize
    /\ batch \in Seq(Span) /\ Len(batch) <= BatchSize
    /\ delivered \subseteq Span
    /\ failed \in BOOLEAN
    /\ verdict \in {"none", "success", "error"}

\* <<kind, step, call>> of every span that the trace of the trajectory consists of.
Expected ==
    {<<"CHAIN", 0, 0>>}
    \cup {<<"AGENT", i, 0>> : i \in Steps}
    \cup UNION {{<<"TOOL", i, c>> : c \in DOMAIN trajectory[i].tool_calls} : i \in Steps}

Name(span) == <<span.kind, span.step, span.call>>

\* A success is reported only when the collector has the whole trace, whatever the
\* worker did meanwhile and whichever of its batches failed.
SuccessMeansDelivered ==
    verdict = "success" /\ endpoint => {Name(s) : s \in delivered} = Expected

\* A trajectory without steps, or with a step whose time cannot be used, is reported
\* as an error, and not one span of it is ever handed over.
RejectedTraceSendsNothing ==
    trajectory = <<>> \/ ~(\A i \in Steps : trajectory[i].valid) =>
        /\ ended = <<>> /\ delivered = {}
        /\ verdict # "success"

\* No span ends twice, none ends before a span inside it, and none is left open
\* when the command goes on to the flush.
ParentsEndLast ==
    /\ \A i, j \in DOMAIN ended :
          i < j =>
              /\ ended[i].kind # "CHAIN"
              /\ ended[i].step <= ended[j].step \/ ended[j].kind = "CHAIN"
              /\ ended[i].step = ended[j].step => ended[i].kind = "TOOL"
                                                  /\ ended[i].call # ended[j].call
    /\ command = "flushing" => {Name(ended[i]) : i \in DOMAIN ended} = Expected

\* The trace spans all of its spans, though the times of the steps need not rise.
RootCoversSteps ==
    \A i, j \in DOMAIN ended :
        ended[j].kind = "CHAIN" => ended[j].start <= ended[i].start /\ ended[i].end <= ended[j].end

\* The spans nest: a parent ends last, once, and the root covers them all in time.
SpansNest == ParentsEndLast /\ RootCoversSteps

\* A tool span is in error only if a result of that very call is, and it is in
\* error whenever the call has results and all of them are.
ErrorsAtTheirCall ==
    \A i \in DOMAIN ended :
        ended[i].kind = "TOOL" =>
            LET step    == trajectory[ended[i].step]
                results == {r \in DOMAIN step.observation :
                               step.observation[r].source_call_id = step.tool_calls[ended[i].call]}
            IN  /\ ended[i].status = "ERROR" => \E r \in results : SaysError(step.observation[r])
                /\ ended[i].status = "OK" =>
                       results = {} \/ \E r \in results : ~SaysError(step.observation[r])

\* docs/OBSERVABILITY.md, Trace Topology: one AGENT span per recorded step.  A trace
\* that was exported with success has it.
OneAgentSpanPerStep ==
    verdict = "success" /\ endpoint =>
        \A i \in Steps : \E s \in delivered : s.kind = "AGENT" /\ s.step = i

\* The command ends, also when the collector never answers.
CommandEnds == <>(verdict # "none")
=============================================================================
