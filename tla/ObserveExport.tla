---------------------------- MODULE ObserveExport ----------------------------
(***************************************************************************)
(* `observe` of src/cli/main.py: the steps of a trajectory are projected   *)
(* to OpenTelemetry spans (src/observability/spans.py), which the          *)
(* exporter of src/observability/exporter.py sends to a collector, and the *)
(* command reports whether all went well.                                  *)
(*                                                                         *)
(* Two threads run.  The command starts and ends the spans, then flushes,  *)
(* reads the failure flag and exits.  The worker of the SDK's              *)
(* BatchSpanProcessor, which is not part of this repository, takes spans   *)
(* from a bounded queue that drops the oldest when it is full, and hands   *)
(* them in batches to TrackingSpanExporter; at the exit of the process it  *)
(* goes on until the queue is empty.  Its flush reports TRUE once nothing  *)
(* is queued or under way, or FALSE when its time has run out.  The        *)
(* delegate that posts a batch answers SUCCESS or FAILURE, or raises, which*)
(* the worker logs; a batch not answered with SUCCESS may have arrived.    *)
(***************************************************************************)
EXTENDS Integers, Sequences, FiniteSets, FiniteSetsExt, SequencesExt

CONSTANTS
    CallIds,        \* the ids of the calls, and those that results name
    Trajectories,   \* the trajectories that the command may have loaded
    Outcomes,       \* what an export by the delegate may come to
    QueueSize,      \* capacity of the span queue
    BatchSize       \* most spans in one export

(***************************************************************************)
(* A step: when it was observed, whether that is an ISO-8601 time with an  *)
(* offset, the ids of its calls, and its results.                          *)
(***************************************************************************)
Step == [time : Int, valid : BOOLEAN, tool_calls : Seq(CallIds),
         observation : Seq([source_call_id : CallIds, is_error : STRING])]

ASSUME ExporterAssumption ==
    /\ \A t \in Trajectories : t \in Seq(Step)
    /\ Outcomes \subseteq {"success", "failure", "raise"}
    /\ QueueSize \in Nat \ {0} /\ BatchSize \in Nat \ {0}

VARIABLES
    trajectory,     \* the steps
    endpoint,       \* whether the endpoint option is not empty
    command,        \* where the command is
    step_at,        \* the step being projected
    call_at,        \* 0: its span is to be started; n: its n-th call is next
    ended,          \* the spans ended so far, in order
    queue,          \* the spans waiting for the worker
    batch,          \* the spans being exported
    delivered,      \* the spans the collector has
    failed,         \* TrackingSpanExporter.failed
    verdict         \* what the command reported

projection == <<step_at, call_at, ended>>
exporting == <<batch, delivered, failed>>
vars == <<trajectory, endpoint, command, projection, queue, exporting, verdict>>

Steps == DOMAIN trajectory

Init ==
    /\ trajectory \in Trajectories
    /\ endpoint \in BOOLEAN
    /\ command = "loaded"
    /\ step_at = 1 /\ call_at = 0
    /\ ended = <<>> /\ queue = <<>> /\ batch = <<>>
    /\ delivered = {}
    /\ failed = FALSE
    /\ verdict = "none"

-----------------------------------------------------------------------------
\* The command: observe_session and project_trajectory.

Exit(reported) == command' = "exited" /\ verdict' = reported

\* No exporter has been set up yet.
RejectEmpty ==
    /\ command = "loaded"
    /\ trajectory = <<>>
    /\ Exit("error")
    /\ UNCHANGED <<trajectory, endpoint, projection, queue, exporting>>

SetupExporter ==
    /\ command = "loaded"
    /\ trajectory # <<>>
    /\ command' = "configured"
    /\ UNCHANGED <<trajectory, endpoint, projection, queue, exporting, verdict>>

Slip_TimesUsable == trajectory[1].valid

\* Every time is parsed before the first span is started.
TimesUsable == \A i \in Steps : trajectory[i].valid

RejectTimes ==
    /\ command = "configured"
    /\ ~TimesUsable
    /\ Exit("error")
    /\ UNCHANGED <<trajectory, endpoint, projection, queue, exporting>>

StartRoot ==
    /\ command = "configured"
    /\ TimesUsable
    /\ command' = "projecting"
    /\ UNCHANGED <<trajectory, endpoint, projection, queue, exporting, verdict>>

\* A span that ends is queued for the worker, if there is one.  A full queue loses
\* its oldest span.
End(span) ==
    /\ ended' = Append(ended, span)
    /\ queue' = IF ~endpoint THEN queue
                ELSE IF Len(queue) < QueueSize THEN Append(queue, span)
                ELSE Append(Tail(queue), span)

AtStep == command = "projecting" /\ step_at <= Len(trajectory) /\ trajectory[step_at].valid

StartStep ==
    /\ AtStep
    /\ call_at = 0
    /\ call_at' = 1
    /\ UNCHANGED <<trajectory, endpoint, command, step_at, ended, queue, exporting, verdict>>

\* An is_error of true, "true", "1" or 1.
SaysError(result) == result.is_error \in {"true", "affirmed"}

Slip_ToolStatus(step, call) ==
    IF \E r \in DOMAIN step.observation : SaysError(step.observation[r]) THEN "ERROR" ELSE "OK"

\* The first result with the id of the call decides; a call without one is OK.
ToolStatus(step, call) ==
    LET results == {r \in DOMAIN step.observation :
                       step.observation[r].source_call_id = step.tool_calls[call]}
    IN  IF \E first \in results : /\ \A r \in results : first <= r
                                 /\ SaysError(step.observation[first])
          THEN "ERROR" ELSE "OK"

ToolSpan ==
    /\ AtStep
    /\ call_at \in DOMAIN trajectory[step_at].tool_calls
    /\ End([kind |-> "TOOL", step |-> step_at, call |-> call_at,
            start |-> trajectory[step_at].time, end |-> trajectory[step_at].time,
            status |-> ToolStatus(trajectory[step_at], call_at)])
    /\ call_at' = call_at + 1
    /\ UNCHANGED <<trajectory, endpoint, command, step_at, exporting, verdict>>

Slip_EndStep ==
    /\ AtStep
    /\ call_at > 0 /\ call_at >= Len(trajectory[step_at].tool_calls)
    /\ End([kind |-> "AGENT", step |-> step_at, call |-> 0,
            start |-> trajectory[step_at].time, end |-> trajectory[step_at].time,
            status |-> "UNSET"])
    /\ step_at' = step_at + 1 /\ call_at' = 0
    /\ UNCHANGED <<trajectory, endpoint, command, exporting, verdict>>

EndStep ==
    /\ AtStep
    /\ call_at > Len(trajectory[step_at].tool_calls)
    /\ End([kind |-> "AGENT", step |-> step_at, call |-> 0,
            start |-> trajectory[step_at].time, end |-> trajectory[step_at].time,
            status |-> "UNSET"])
    /\ step_at' = step_at + 1 /\ call_at' = 0
    /\ UNCHANGED <<trajectory, endpoint, command, exporting, verdict>>

\* The boundaries of the trace.
TraceStart == Min({trajectory[i].time : i \in Steps})

TraceEnd == Max({trajectory[i].time : i \in Steps})

\* The root span ends when the loop does, also when a step's time makes it raise.
EndRoot ==
    /\ command = "projecting"
    /\ step_at <= Len(trajectory) => ~trajectory[step_at].valid
    /\ End([kind |-> "CHAIN", step |-> 0, call |-> 0,
            start |-> TraceStart, end |-> TraceEnd, status |-> "UNSET"])
    /\ IF step_at > Len(trajectory)
         THEN command' = "flushing" /\ UNCHANGED verdict
         ELSE Exit("error")
    /\ UNCHANGED <<trajectory, endpoint, step_at, call_at, exporting>>

Flushed ==
    /\ command = "flushing"
    /\ queue = <<>> /\ batch = <<>>
    /\ Exit(IF failed THEN "error" ELSE "success")
    /\ UNCHANGED <<trajectory, endpoint, projection, queue, exporting>>

Slip_FlushTimeout == FALSE /\ UNCHANGED vars

FlushTimeout ==
    /\ command = "flushing"
    /\ Exit("error")
    /\ UNCHANGED <<trajectory, endpoint, projection, queue, exporting>>

Command ==
    \/ RejectEmpty \/ SetupExporter \/ RejectTimes \/ StartRoot
    \/ StartStep \/ ToolSpan \/ EndStep \/ EndRoot
    \/ Flushed \/ FlushTimeout

-----------------------------------------------------------------------------
\* The worker.  It runs once there is an exporter, to the end of the process.

Slip_TakeBatch ==
    /\ batch = <<>> /\ queue # <<>>
    /\ batch' = queue
    /\ queue' = <<>>
    /\ UNCHANGED <<trajectory, endpoint, command, projection, delivered, failed, verdict>>

TakeBatch ==
    /\ batch = <<>> /\ queue # <<>>
    /\ batch' = SubSeq(queue, 1, Min({BatchSize, Len(queue)}))
    /\ queue' = SubSeq(queue, Len(batch') + 1, Len(queue))
    /\ UNCHANGED <<trajectory, endpoint, command, projection, delivered, failed, verdict>>

Slip_Track(outcome) == failed' = (outcome = "failure")

\* TrackingSpanExporter.export: the failure of one batch is kept for good.
Track(outcome) == failed' = (failed \/ outcome = "failure")

ExportBatch(outcome) ==
    /\ batch # <<>>
    /\ Track(outcome)
    /\ \/ delivered' = delivered \cup ToSet(batch)
       \/ outcome # "success" /\ delivered' = delivered
    /\ batch' = <<>>
    /\ UNCHANGED <<trajectory, endpoint, command, projection, queue, verdict>>

Worker == TakeBatch \/ \E outcome \in Outcomes : ExportBatch(outcome)

Terminated == command = "exited" /\ queue = <<>> /\ batch = <<>> /\ UNCHANGED vars

Next == Command \/ Worker \/ Terminated

\* The command is never stopped for good: its only wait is the flush, and that is
\* bounded.  Nothing is assumed of the worker, which waits on the collector.
Fairness == WF_vars(Command)

Spec == Init /\ [][Next]_vars /\ Fairness
=============================================================================
