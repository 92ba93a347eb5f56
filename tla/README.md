# Trajectory Fidelity Bridge: TLA+ verification

This directory holds TLA+ models of the Trajectory Fidelity Bridge (TFB, package
`agent-session-bridge`), the TLC configurations that check them on small instances,
and proofs, checked by TLAPS, of what matters most for every instance. Paths are
those of the repository.

## The system

TFB reads the session log of a coding agent (Claude Code JSONL), normalizes it into
an ATIF v1.7 trajectory with a report of everything that could not be carried over,
and projects the trajectory to other forms: a transcript in the shape of
Antigravity's derived log, OpenTelemetry spans, a Markdown report. It runs as a
command line program; each command reads a file, works, writes, and ends. Nothing is
persisted between commands.

| component | state | operations | interacts with |
| --- | --- | --- | --- |
| Fidelity report, `src/bridge/models.py` | eleven counters, three breakdown lists | count a record, a block, a field | called by the parser |
| Parser, `src/adapters/claude/parser.py` | steps, call table, usage table, session metadata, report | one pass over the lines | reads the file; its trajectory goes to every other component |
| Antigravity export, `src/adapters/antigravity/exporter.py` | transcript, two omission counts | one walk over the steps | after the parser and the redaction, in `convert` and `handoff` |
| Redaction, `src/security/redact.py` | none | rewrites texts of a trajectory | between parser and outputs |
| Span projection and exporter, `src/observability/` | open spans; failure flag; queue of the SDK | start and end spans; export a batch; flush | two threads: the command, and the worker of the SDK's `BatchSpanProcessor` |
| Commands, `src/cli/main.py` | verdict | `import`, `explain`, `convert`, `handoff`, `observe` | compose all of the above |
| Report, `src/explain/markdown.py` | none | renders a trajectory | reads the fidelity report |
| Verifier, `src/interoperability/` | list of findings | compares a source, an output and an oracle | re-derives the parser's losses from the source |
| Sanitizer, `tools/trace_sanitizer.py` | two pseudonym tables | one pass over the records, keeping what the parser needs | its output is parsed like the log |
| Private demo, `tools/private_demo.py` | a run directory, its staging directory, the raw log | hash, read, stage, scan, publish or delete, checksum | the agent that writes the log; other runs |
| LangGraph experiment, `experiments/` | checkpoints and events | cancel a graph at a chosen point | an external library |

What is hard here, and what would make each part wrong:

* **Parser.** Results lie in later records than their calls, in any order, for ids
  that may be unknown, unusable or used again. Correct means: every result is at the
  latest earlier step that made its call, once and in the file's order, or is counted
  as orphaned. The accounting is spread over many early exits of the loop; correct
  means that it balances against the file. Claude Code repeats the token usage of a
  response on all of its records; correct means that sums are not inflated.
* **Export.** The transcript has no call ids, so that a response is tied to its call by
  position only, and no system messages. Correct means: adjacency names the right call
  and what is missing is what is reported.
* **Observe.** Spans are exported by another thread, in batches that may fail, through a
  bounded queue, while the command goes on; the flush may run out of time. Correct
  means: a reported success is true, a rejected trajectory sends nothing, and the
  command ends.
* **Verifier.** It decides again, with code of its own, what the parser decided. Correct means:
  it rejects a document that lost or altered something, and the parser's output only for a reason.
* **Report.** It draws conclusions (an outcome, a sum of tokens, "nothing lost") from a document, without
  the log. Correct means: the conclusions are true of the log, and a document that was edited is noticed.
* **Sanitizer.** It decides what to keep before the parser has decided what to count. Correct means: what is
  counted is the same before and after, and ids are equal exactly where they were.
* **Private demo.** It reads a file that grows, may start twice in a second, may end anywhere, and must
  never publish what was not scanned. Correct means: a candidate is one run's whole, scanned output, and the
  exit status and the manifest can be trusted.

Every hazard is listed with its line and the properties about it in `PROJECT.json`.

## The modules

| module | models |
| --- | --- |
| `FidelityReport` | the counters and breakdown lists of the report, as functions from key to count |
| `ClaudeParser` | `parse_claude_jsonl`: one action for each way through its loop body and its two inner loops |
| `ToolCorrelation` | the abstract promise about calls and results, without the parser |
| `ClaudeParserProperties` | the properties of the parser, and the refinement mapping to `ToolCorrelation` |
| `ClaudeParserProofs` | types, records and the correlation of calls and results; the refinement of `ToolCorrelation` |
| `AccountingProofs` | nothing of the file goes missing: calls, results, moves, losses, turns, metadata, token usage; and in which order places are listed |
| `AntigravityExport` | `export_with_report` over any trajectory |
| `ConvertSession` | the `convert` command: parser, redaction and export composed, with end-to-end properties; or the export alone on trajectories of other producers |
| `ConvertSessionProofs` | the theorems about the transcript |
| `ExplainSession` | `import` and `explain`: parser, document and report composed |
| `ExplainSessionProofs` | the theorems about the report |
| `ObserveExport`, `ObserveExportProperties`, `ObserveExportProofs` | the `observe` command, the span projection, the tracking exporter, and the SDK's worker |
| `Verifier` | the interoperability verifier, composed with the parser, on documents that are altered or not |
| `VerifierProofs` | the theorems about what the verifier rejects |
| `TraceSanitizer` | the sanitizer, between two runs of the parser |
| `TraceSanitizerProofs` | the theorems about the sanitized log |
| `CandidatePublication` | the abstract promise of the private demo: what passed is published, once, for good |
| `PrivateDemo`, `PrivateDemoProperties`, `PrivateDemoProofs` | the private demo, as several runs at once |
| `MCClaudeParser`, `MCConvertSession`, `MCExplainSession`, `MCObserveExport`, `MCVerifier`, `MCTraceSanitizer`, `MCPrivateDemo` | the small instances for TLC |

`ClaudeParser` extends `FidelityReport`, and `ConvertSession`, `ExplainSession`, `TraceSanitizer` and
`Verifier` build on it. `ExplainSession` also instantiates `ObserveExport` with the parser's steps, to compare the report with
the spans.

### The parser

`log` is the file as far as it was read; any line of the constant set `Lines` may come
next, so a run covers every file over that set up to `MaxLines` lines. A line that is
not converted is one step (`MalformedLine`, `NonObjectLine`, `UnsupportedType`,
`NoMessage`, `UnsupportedRole`). A converted record takes one step to read it
(`ReadRecord`: timestamp, metadata, content that is no list), one per content block
(`TextBlock` to `UnknownBlock`), one per tool result (`AttachResult`, `OrphanResult`),
and one to finish it (`ConvertAssistant`, `ConvertUserOrSystem`), which does all that the
code does at the end of the body: the step, the call table, the usage table, the
counters and the ignored fields. `steps`, `tool_call_steps`, `usage_by_message`,
`fidelity` and `normalized` are the code's variables; `breakdown` holds the lists of the
report. `tool_call_steps` holds the index of the step where the code holds the object.
`UnhashableType` and `UnhashableRole` model `x not in {...}` applied to a JSON list or
object, which raises. A run of the parser is over in one of three ways: `done`, `raised`, or `rejected`, when the ATIF library
refuses a trajectory whose session id is no string (`EndOfFile`).

A text is abstracted to whether it is empty, a result to the place it was read from, its
id and its error flag, a usage object to a value that can be equal to another or not, a
record type to its class. A call id is one of `CallIds`, a string of blanks (`BlankIds`), or absent, empty or no string
(`NoCallId`); the parser knows calls by the first only (`UsableCall`, `ResultId`). `NotStrings` are metadata that are no strings.
The types of a dropped item of a result share one label in the breakdown. A record that names its version `unknown`, the code's
mark for none, is one without a version. Blank lines change nothing and do not appear.

### Conversion to the transcript

`AntigravityExport` walks over `trajectory`: `ExportStep` writes the line of a step or counts a
system message, `ExportResult` writes one response, `NextStep` moves on. In `ConvertSession` it is instantiated
with the parser's steps in the place of `trajectory`, and starts when the parser is done, or with a small
trajectory of another producer (`OtherTrajectories`), which has content parts the parser never builds. A line holds the
positions of the parts whose texts it joins. Redaction in between rewrites texts and takes the working directory out of the metadata (`redacted`). Then the transcript is
printed.

### Import and explain

`WriteDocument` writes what the parser made, redacted; `CrashWriting` leaves the file half written, which is why
`RejectDocument` is always possible. Between the commands the document may be edited (`LoseCall`, `LoseResult`,
`LoseAccount`). `Explain` renders it: `Render` is the content of the report, each part of it one definition
(`CallStatus`, `Unmatched`, `Summary`, `TokenUsage`, `Lost`, `NothingLost`, `ConsistentCalls`, `ConsistentResults`) of the part
of `markdown.py` that works it out. Layout, truncation and rows copied from the document are left out.

### Observe

The command goes through `command` = loaded, configured, projecting, flushing, exited.
A span appears in the model when it ends, since that is when the SDK's processor gets
it; `StartStep` opens the span of a step and `EndStep` ends it after its tool spans. The
in-loop check of a step's time is in the guards of `AtStep` and `EndRoot`; `TimesUsable` in front of
it makes it unreachable, which `RejectedTraceSendsNothing` shows to be necessary. The worker
is external and modelled from how `exporter.py` uses it: `TakeBatch` and `ExportBatch`
may run at any time, before and after the verdict (the SDK drains the queue when the
process exits). `TrackingSpanExporter.export` is `Track`. The constant `Outcomes` says what the
delegate may come to; the declared dependency range (`opentelemetry >= 1.20`) includes
exporters whose `export` raises on a refused connection. `CallIds` only gives the steps a type. `delivered` is what the collector has;
a batch that was not answered with success may or may not be in it.

### The verifier

`Verifier` runs the parser to its end, writes its output to a candidate document (`Reproduce`, as
`reproduce.py` does), may alter the document once in one of the ways of the negative controls in
`tests/test_interoperability_verifier.py` (and by losing a result, which they lack), and verifies it.
`VerifyDocument` is the part of `_verify_document` that relates the source, the output and the report. It reads
`log` with definitions of its own, translated from the verifier and not from the parser: that the two agree is
what the run checks. The lists of calls and results, of the source and of the document, are sets of places
(`SourceBlocks`, `CallPlaces`, `Placed`) listed in their order (`InOrder`), which is the order of the nested loops of the code. The oracle is taken to be true to the source, so that the findings that
compare the two cannot fail and are left out; so are those that compare it with the output's step roles, step timestamps, texts
and session id, which no alteration of the model touches.

### The sanitizer

`TraceSanitizer` runs the parser over a log, keeps the result in `raw`, replaces `log` by `SanitizeRecords(log)` and runs
the parser again. `Skeleton`, `SanitizedMessage`, `SanitizedBlock` and `SanitizedItem` are the functions of `trace_sanitizer.py` on the parser's
abstraction of a line. The code numbers the ids as it meets them (`_pseudonym`): the number of an id is how many ids, itself
included, have been met when it is (`NamedWith`), over the places of all records, calls and results of the file. Pseudonyms
are ids like others, and there are enough of them (`PseudonymAssumption`): as many as a log has room for, or as
there are ids at all. An id of blanks gets one too. `EquivalenceOk` is what the demo compares.

### The private demo

Each run in `Runs` goes through `main`, one action for each effect on the disk: the hash of the raw log, its reading,
the directory, each file staged, the scan, the second hash, the result files, the renaming or the deletion, the
checksums. `raw` is the content of the raw log, a number that `Grow` raises at any point; a hash is the content
it is of. The clock gives any second of `Seconds` to a run that starts, so that two may get the same. `Abort` ends a run at any
point. What the scan finds and whether the comparison is equal are chosen: that these answers are right is the question
of the patterns, and of `TraceSanitizer`. `Proceed(r)` is everything a run does of its own accord.

## The runs

A property in this table that stands for several is their conjunction, each of them a definition of
its own, named in brackets.

| run | bounds | shows |
| --- | --- | --- |
| `explain` | 4 lines, 2 call ids, 2 responses, 2 usage values, one edit of the document | `UsageAccounted` (`UsageCountedOnce`, `RepeatedUsageReported`), and of the report: `OutcomesFromFile`, `NothingLostIsTrue`, `TokensPerResponse`, `TamperingNoticed`, `ReportAndSpansAgree` |
| `sanitizer` | 3 lines, parsed before and after | `RecordsAccounted`, `LossesAccounted` (`BreakdownExplainsTotals`, `TimestampsAccounted`), `TrajectoryFollowsFile` (`SessionIsFirst`, `EveryTurnKept`), `EquivalenceExplained`, `CorrelationSurvives`, `SanitizingIsIdempotent` |
| `convert` | 6 kinds of line in files of up to 5 lines, and with 11 kinds of line that are not converted, or not whole, in files of up to 3; 3 blocks, 2 call ids; or any trajectory of up to 2 steps over 4 contents and 2 results | the correlation of calls and results: `ToolTrafficAccounted` (`CallsAccounted`, `ResultsAccounted`, `OrphanHasNoCall`), `ResultAtLatestCall`, `ResultsOnceInOrder`, `NormalizationReported`, `StepsOnlyGrow`, and that the parser implements `ToolCorrelation`; from the file to the transcript: `ResponsesFollowTheirCall`, `TranscriptComplete` (`ResultsReachTranscript`, `TurnsReachTranscript`), `TranscriptTimesInOrder`, `PartsAccounted` |
| `observe` | 6 trajectories of up to 3 steps, batches of 2, with and without an endpoint | `SuccessMeansDelivered`, `RejectedTraceSendsNothing`, `SpansNest` (`ParentsEndLast`, `RootCoversSteps`), `ErrorsAtTheirCall`, `CommandEnds` |
| `verifier` | 11 kinds of line, 4 lines, 2 call ids, one alteration | `UnsupportedCountsAgree`, `RejectionsHaveAReason`, `MutationsRejected` |
| `private_demo` | 2 runs, 2 seconds, 2 result files; the raw log grows once | `CandidateScanned`, `OneRunPerDirectory`, `HashNamesContent`, `SuccessIsComplete`, `NothingLeftStaged`, `FailedScanDeleted`, and that the demo implements `CandidatePublication` |
| `malformed_input`, `observe_raise`, `observe_overflow`, `verifier_lost_result`, `sanitizer_counters`, `explain_flag` | as above, or less | the disagreements below, one each |

Why the bounds are enough. A violation of the correlation needs at most two calls with
the same id around two results: four lines; five leave one line of anything else between
them. A line or block that is not converted changes counters only; it is read in every
position of a file of three lines (`SkippedInShortFiles`). A usage mistake needs an unusable first record, a charged one, and two
repetitions. The loss counters are sums over lines, so that pairs of lines show a
mistake, and the third shows that an entry of a breakdown list is found again. The sanitizer treats a line by
itself but for its pseudonyms, whose order takes a call, a result and one more id. The
files of `verifier` hold two calls, two records of results and one line besides. The
trajectories of `observe` make five or six spans, so that batches of two can fail at the
start, in the middle and at the end, with the flush at any point. Two runs of the demo are enough for one to
take the other's directory, and the proofs cover any number.

`MaxLines` and `MaxBlocks` bound the file and its records, `MaxVersion` the growth of the raw log, and
`ResultFiles` is the number of files the demo writes beside a candidate (two stand for the code's list);
`QueueSize` and `BatchSize` are parameters of the SDK. There is no other bound.

Every property of a passing run is sensitive to the code: beside the definition it depends on stands a
definition `Slip_...` with a mistake one could make there, and with the mistake in its
place TLC finds the property violated. `PROJECT.json` lists the pairs under "mutants".

### Fairness

The parser and the commands are sequential programs that nothing stops, so `WF_vars(Next)` is
justified for the parser; its files end because `EndOfFile` is always possible and `MaxLines`
bounds them. None of its properties needs it but the refinement is stated for all of
`Spec`. In `ObserveExport` fairness is assumed of the command only: its one wait is the flush,
which has a limit of five seconds, and `FlushTimeout` models its end. Nothing is assumed of the worker, which
waits on the network; `CommandEnds` therefore holds also when the collector never answers. It rests on the SDK
honouring the limit it is given. In `PrivateDemo` it is assumed of each run by itself, `WF_vars(Proceed(r))`: a run is a
sequential program that waits for nobody, and the raw log need not grow nor another run go on. A run may
be aborted at any point, so that `FailedScanDeleted` promises the deletion of what failed only to a run that is not.

## What the code does otherwise than its documents say

1. `malformed_input`. `docs/SECURITY.md` says that malformed input is counted. A record
   whose `type`, or message whose `role`, is a JSON list or object raises `TypeError` in
   `parser.py` (lines 87 and 103), and the whole conversion is lost.
2. `observe_raise`. `TrackingSpanExporter` exists so that a failed export is never
   reported as successful. It looks at what the delegate returns; a delegate that raises
   leaves the flag unset, the SDK logs the exception, and the command reports success.
3. `observe_overflow`. The trace is documented to have one span per step. The SDK's
   queue is bounded and drops its oldest spans; a long session whose spans end faster
   than they are sent loses some, and the command reports success.
4. `verifier_lost_result`. `docs/INTEROPERABILITY.md` says that an output that contradicts a
   source fact is a CONFLICT. When a call has two results in the source, the verifier
   expects the last one only: a document that lost the first passes, and the complete one is rejected.
   With each id answered once, `MutationsRejected` shows that none of the alterations passes.
   What else makes the verifier reject an unaltered document is listed in
   `RejectionsHaveAReason`: a call the parser could not use, and a result or a time that it
   accounts for as orphaned or invalid, each of them a loss that the report names.
5. `sanitizer_counters`. `tools/trace_sanitizer.py` and `docs/DEMO_REAL_SESSION.md` say that the sanitized file is
   converted with the same accounting as the raw one. Content that is neither string nor list, a
   result item without a type and a thinking text that is no string are counted otherwise afterwards. The demo
   notices it, and fails. The sanitizer also gives a call id of blanks a pseudonym, though the parser knows no call by such
   an id: a call it had to count as malformed, and a result it had to count as orphaned, can be converted afterwards.
   `EquivalenceExplained` says that in the model nothing else makes a difference; `CorrelationSurvives` says what such a
   call changes, and that a result with a blank id changes nothing by itself.
6. `explain_flag`. The legend of the report says that the outcome of a call is `error` when its result carries an
   `is_error` flag. The parser keeps any flag that is truthy, `markdown.py` (line 191) looks for JSON true only: a
   flag like `"true"` or `1`, which the spans of `observe` take for an error, is reported as `result`.
   `OutcomesFromFile` leaves open what such a flag makes of a call.

`docs/FORMAT.md` also contradicts itself: line 18 says that the adapter does not populate
source metrics, line 88 describes how it does. The model follows the code, which does.

## What is proved

Everything about the parser and the commands that contain it is proved for all constants that satisfy the assumptions
of `ClaudeParser` (the sentinels are not ids, the bounds are naturals, and the lines are of the type `Line`), that is, for every set of lines and files of every length. The modules build on each other in the
order of the table: each invariant below is inductive together with those before it. The steps are proved not for `Next`
but for `AnyNext`, which may read any line of that type (`FileLines`): so they hold as well of the second pass over a
sanitized log, whose lines need not be in `Lines`.

`ClaudeParserProofs`:

* `TypeCorrect`: `Spec => []TypeOK`. The inductive invariant `TypeInv` adds what holds of the local variables
  between records (`LocalsOK`): outside a record they are as `ResetLocals` leaves them, inside one the current block is
  within the record. Without it `at` could run out of its range.
* `AllRecordsAccounted`: `Spec => []RecordsAccounted`. The sum of the two counters grows by one exactly in the steps that
  end a line; lemmas say which counters the block, timestamp and usage accounting can touch.
* `ResultsAtLatestCall`: `Spec => []ResultAtLatestCall`. The property is not inductive: that a result goes to the latest call
  depends on the call table. The invariant `CorrelationInv` says that the table maps an id to the latest step with a call of
  that id, and only ids without a call are missing (`CallTable`); that the steps are in the order of the lines
  they were read from, all at or before the current one (`LineOrder`); and that what is delivered was
  delivered so (`Delivered`).
* `TrajectoryOnlyGrows`: `Spec => StepsOnlyGrow`, an action property, from `TypeInv`: the call table points into the
  trajectory, so that an attachment rewrites one existing step and no other.
* `ParserImplementsCorrelation`: `Spec => ImplementsCorrelation`. Reading, counting and the end of
  the file map to stuttering, a new step to `AddStep`, `AttachResult` to `Deliver`, `OrphanResult` to
  `Lose`. The guard of `Deliver` (no later caller) is `CallTable`.

`AccountingProofs`. The properties compare a counter with the size of a set or with a sum, and no induction over a file is
at hand; instead every sum is the number of elements of a set of places, `<<line, block>>` or `<<step, result>>`, and each step
of the parser adds at most one place, or one column of places, to it. Sets that must be equally large are related by a
bijection (`SameSize`).

* `NoToolTrafficLost`: `Spec => []ToolTrafficAccounted`. `TrafficInv` counts the calls and results of the blocks come to so far,
  so that it holds in the middle of a record, where the property alone says nothing that could be carried on.
* `ResultsDeliveredOnce`: `Spec => []ResultsOnceInOrder`. `DeliveryInv` follows a result on its way: the collected results are
  in the order of their blocks, the delivered ones come before them, and no two places of the trajectory have one origin.
* `MovesReported`: `Spec => []NormalizationReported`, from an invariant (`MovedInv`) that ties the running flag to the results moved so far: within a record
  the total may be ahead of it.
* `LossesReported`: `Spec => []LossesAccounted`. Each breakdown list has as many cells as its total says; the
  counters of times are related to the turns of the file and the steps that have none.

* `FileIsFollowed`: `Spec => []TrajectoryFollowsFile`. `TurnsInv` relates the converted records that are finished to the steps one
  to one; `RecordRead` says what has become of the current record up to its current block.
* `UsageChargedOnce`: `Spec => []UsageAccounted`. The usage table is the first usable usage of each response (`TableOK`), the steps that
  are charged are those records (`ChargedOK`), and the two counters are the numbers of its repetitions (`RepeatsOK`).

`ConvertSessionProofs`, about the whole command: the parser's invariants hold of it as they stand, since every step is one of the
parser or leaves it alone. `WalkInv` says what the exporter has written at each point of its walk: a line for every place it is past,
in the order of the places, each true to its place; TLC checked it before it was proved.

* `ResponsesPairByPosition`, `TimesNeverFall` and `NothingLostInTranscript` prove `ResponsesFollowTheirCall`, `TranscriptTimesInOrder` and
  `TranscriptComplete` from `WalkInv` and the order, delivery and accounting invariants of the parser. That only agents make calls
  (`CallsByAgent`) is what makes the line in front of a response a planner line.
* `OmissionsAreCounted` proves `PartsAccounted` for any trajectory, of the parser or of another producer, that has the shape of ATIF
  (`TrajectoryAssumption`). What the written lines lack is a set of parts to which each line adds a column (`PartsWalk`).

`ExplainSessionProofs`, about import, one edit of the document, and the report:

* `ReportedOutcomesAreTrue`: `OutcomesFromFile`. The calls of the document are those of the log, and the results shown under one are the log's
  answers to it (`CallsInv`, with `DeliveryInv` and `CallTable`).
* `NothingIsLostSilently`: `NothingLostIsTrue`. The judgement is about lines, fields, blocks, times, results and contradictory
  usage; usage that is repeated, invalid, synthetic or without a model is dropped without it. `NothingMissed` says of the lists that they are empty exactly if the file up to here
  holds nothing they name; the counters of results, times and usage are those of `AccountingProofs`.
* `EachResponseIsPaidOnce`: `TokensPerResponse`. A sum of tokens is the number of cells of a table, one row for each step or record;
  rows are matched through `ChargedOK`, and `UnidentifiedOK` for usage without a response id.
* `EditsAreNoticed`: `TamperingNoticed`, and `BothReportTheSameErrors`: `ReportAndSpansAgree`, from the same invariants and
  `DocumentOK`, which says how a document differs from the trajectory after its edit.

`VerifierProofs`, about the parser, one alteration of its document, and the verifier's findings:

* `BothCountTheSameRecords`: `UnsupportedCountsAgree`. The records that the parser has rejected so far are, of the lines read, those
  that the verifier's definition names (`RejectedOK`).
* `RejectionsExplained`: `RejectionsHaveAReason`, each equivalence by itself. The candidate is the trajectory, or the trajectory
  altered in one of the ways of the model (`CandidateOK`). A usable call of the source stands at the step of its turn, after the calls before it in its
  message (`CallsInOrder`); the map from source places to trajectory places keeps the order, so that the lists agree exactly
  if every call is usable (`CallsFound`). A result is found under its id exactly if it was delivered (`CorrelationFound`), and the times are a count of
  places (`TimesFound`).
* `AlterationsRejected`: `MutationsRejected`. One lemma for each alteration says which finding notices it. For a lost result it needs that
  no other result answers the same id, which is where the finding of `verifier_lost_result` would break the proof.

`TraceSanitizerProofs`, for every raw log:

* `ReductionIsStable`: `SanitizerSpec => []SanitizingIsIdempotent`. Numbering ids gives different ids different numbers (`Renamed`), and numbering the
  numbered ids again gives the same numbers (`Renumbered`); a block, a message and a record are each shown to be left as they are the second time.
* `CorrelationPreserved`: `SanitizerSpec => []CorrelationSurvives`. Two runs of the parser cannot be compared step by step, because one comes
  after the other. Instead `ParserInv`, which collects what the proofs above say of the parser, implies at the end of either run
  that the trajectory follows its file (`FollowsTurns`, `FollowsIds`, `FollowsResults`), and these three determine steps, calls and
  results from the file: a list in order is known from what is in it (`SameList`). The reduced log has the same turns and results
  (`SameTurn`), and the same usable calls with those that had a blank id (`CallsRevived`); renaming is one to one, so that without such a
  call every result has the same latest caller in both. `ComparisonInv` carries the first trajectory
  through the second run, and says that the second run reads the reduction of what the first one read.

`PrivateDemoProofs` proves for any number of runs, seconds, result files and contents of the raw log: `TypeCorrect`,
`CandidatesAreScanned`, `DirectoriesAreExclusive`, `HashesNameContents`, `SuccessMeansComplete`, `NothingStaysStaged` and
`DemoImplementsPublication`. The argument is one of ownership: `mkdir` gives a directory to one run, and the others touch
neither it nor that run's variables (`Noninterference`), so that what holds of a run and its directory needs to be
shown for that run's own steps only. `DemoInv` says for each run what it has staged, read, scanned and written where it
stands; none of the properties is inductive, because each is about what was decided some steps before. The deletion of what
failed the scan, a liveness property, stays with TLC.

`ObserveExportProofs` proves for every set of trajectories, every queue and batch size and every timing of worker and flush:

* `TypeCorrect` and `RejectionIsSilent`, without further assumption. `Progress` says which spans have ended where the command
  stands; a trajectory whose times cannot be used never gets as far as the first.
* `SpansAreNested`: the order in which spans end is an invariant over all of them (`Ordered`). That the root covers
  them needs that finitely many times have an earliest and a latest one, which is proved from the well-foundedness of
  the numbers.
* `StatusAtItsCall`: the first result of a call exists if one does, for the same reason.
* `SuccessIsTrue`: `SuccessMeansDelivered` under two assumptions, each with a run above that shows what happens without it: the
  delegate does not raise (`"raise" \notin Outcomes`), and the queue holds as many spans as end (`[]Fits`). The invariant is
  conservation: until a batch fails, each span that ended is in the queue, in the batch or at the collector (`Conserved`).

Model-checked only:

* `EquivalenceExplained` of `TraceSanitizer`: it says that the whole report of the second run is that of the first. The theorems say what each
  counter counts, but not of every list of the breakdown how often each of its entries is in it, and the converse needs for each of the five
  distortions a count that differs.
* Liveness (`CommandEnds`, `FailedScanDeleted`): the prover has no reasoning about fairness.

## Not modelled

* Texts: the patterns of the redaction and of the privacy scan. They are regular expressions over strings; the models
  say what is done with their answers.
* The layout of the report and of the transcript, reports on documents of older converters, provenance and drop reports,
  span attributes, the order of the breakdown lists.
* The console exporter, a second queue of the same kind, and `--run-claude` of the demo, an external program.
* Of the verifier, the rules for other implementations, and the findings that compare the oracle with the source, or with the
  output's step roles, step timestamps, texts and session id.
* JSON strings on lines of their own, which the demo writes back without their quotes.
* The LangGraph experiment: it prints what an external runtime does when a task is cancelled at fixed points, and has no
  decisions of its own to be wrong about.
* Continuous integration and publishing: configuration of a service.

## Plan

1. `EquivalenceExplained`: the report as a function of the file, list by list, from the invariants of `AccountingProofs`; then, as for
   `CorrelationSurvives`, what the reduction does to it.
2. The model of the verifier: the oracle and the rules for other implementations.
3. The redaction: sensitive keys and nesting as a recursive function, with the shape preserved.
