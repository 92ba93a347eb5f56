----------------------------- MODULE ClaudeParser -----------------------------
(***************************************************************************)
(* parse_claude_jsonl of src/adapters/claude/parser.py: one pass over the  *)
(* lines of a Claude Code log that builds the steps of an ATIF trajectory, *)
(* moves each tool result to the step that made the call, attaches token   *)
(* usage once per API response, and accounts for all it does not convert.  *)
(*                                                                         *)
(* One action is one way through the loop body of the code: a line that is *)
(* not converted takes one step; a converted record takes one step to read *)
(* it, one per content block, one per tool result it delivers, and one to  *)
(* finish it.  The file is read as it comes: `log` is the file up to the   *)
(* current line, and any line of Lines may come next.  Blank lines change  *)
(* nothing (not even the line number) and do not appear in it.             *)
(*                                                                         *)
(* Definitions named Slip_X are X with a plausible mistake in it, which    *)
(* the properties must be able to tell from X; nothing else uses them.     *)
(***************************************************************************)
EXTENDS FidelityReport, Integers, Sequences, FiniteSets

CONSTANTS
    CallIds,        \* usable tool-call ids
    BlankIds,       \* tool-call ids that are strings of blanks: no calls are known by them
    NoCallId,       \* a tool-call id that is absent, empty or not a string
    MessageIds,     \* ids of API responses
    NoMessageId,    \* an absent or unusable response id
    Usages,         \* valid token-usage objects, compared by value
    NoUsage,        \* an absent or invalid usage object; also: no metrics
    MetaValues,     \* values of the session metadata of a record
    NotStrings,     \* those of them that are no strings
    NoMeta,         \* metadata a record does not carry, and the version "unknown"
    Fields,         \* record fields that ATIF has no place for
    Lines,          \* the lines that the file may hold
    MaxLines,       \* bound on the length of the file
    MaxBlocks       \* bound on the content blocks of one record

MetaFields == {"sessionId", "version", "cwd", "gitBranch"}

SupportedTypes == {"user", "assistant", "system"}

(***************************************************************************)
(* A content block.  valid: a text block holds a string, a tool_use block  *)
(* a usable name and input.  payload: the text is not empty (a thinking    *)
(* text: not blank); a thinking block is valid if its text is a string.    *)
(* items: the inner items of a tool result whose content is a list; an     *)
(* image is bare without a source object, and an item that is no object or *)
(* has no type is untyped.                                                 *)
(***************************************************************************)
BlockKinds == {"text", "tool_use", "tool_result", "thinking", "other", "untyped", "non_object"}

ItemKinds == {"text", "image", "bare_image", "other", "untyped"}

\* The is_error of a tool result: absent or falsy, JSON true, another value that says
\* true ("true", "1" or the number 1), or any other.
ErrorFlags == {"none", "true", "affirmed", "other"}

Block == [kind : BlockKinds, valid : BOOLEAN, payload : BOOLEAN,
          id : CallIds \cup BlankIds \cup {NoCallId}, is_error : ErrorFlags,
          items : Seq(ItemKinds)]

(***************************************************************************)
(* A line.  type and subtype stand for a class of record types each; role  *)
(* is the role of the message, or the record type when the message has     *)
(* none; "unhashable" is a JSON list or object in the place of a name.     *)
(* text: content that is a string is not the empty one.                    *)
(***************************************************************************)
RecordTypes ==
    SupportedTypes \cup {"mode", "attachment", "progress", "unknown", "untyped", "unhashable"}

Line == [shape   : {"malformed", "value", "object"},
         type    : RecordTypes,
         subtype : {"none", "turn_duration", "compact_boundary", "other"},
         message : BOOLEAN,
         role    : SupportedTypes \cup {"other", "unhashable"},
         timestamp : {"absent", "valid", "invalid"},
         content : {"string", "list", "empty", "other"},
         text    : BOOLEAN,
         blocks  : Seq(Block),
         model   : {"absent", "synthetic", "named"},
         usage   : Usages \cup {NoUsage},
         id      : MessageIds \cup {NoMessageId},
         ignored : SUBSET Fields,
         meta    : [MetaFields -> MetaValues \cup {NoMeta}]]

ASSUME SentinelAssumption ==
    /\ NoCallId \notin CallIds \cup BlankIds
    /\ BlankIds \cap CallIds = {}
    /\ NoMessageId \notin MessageIds
    /\ NoUsage \notin Usages
    /\ NoMeta \notin MetaValues

ASSUME BoundAssumption == MaxLines \in Nat /\ MaxBlocks \in Nat

\* The lines that a file can hold at all: blocks come in a list.
FileLines ==
    {l \in Line :
        /\ Len(l.blocks) <= MaxBlocks
        /\ l.content # "list" => l.blocks = <<>>}

ASSUME LinesAssumption == Lines \subseteq FileLines

VARIABLES
    pc,                 \* where the loop is: between lines, in a record, or over in one of three ways
    log,                \* the lines read so far
    at,                 \* position of the block of the record to parse next
    content,            \* whether the record's joined text parts are not empty
    tool_calls,         \* call ids of the record's tool_use blocks
    tool_results,       \* results of the record's tool_result blocks
    attached,           \* how many of them _attach_tool_results has treated
    steps,              \* the trajectory
    tool_call_steps,    \* call id -> index of the step that made the call
    usage_by_message,   \* response id -> the metrics stored for it
    meta,               \* session_id, version, cwd and git_branch
    fidelity,           \* the counters of the report
    breakdown,          \* its breakdown lists
    normalized,         \* normalized_tool_results
    transformations     \* whether the transformation is recorded in the report

local == <<at, content, tool_calls, tool_results, attached>>
output == <<steps, tool_call_steps, usage_by_message>>
vars == <<pc, log, local, output, meta, fidelity, breakdown, normalized, transformations>>

-----------------------------------------------------------------------------
line_number == Len(log)

record == log[line_number]

\* One result on its way to a step: what its text is, is told by where it was
\* read (line, item); the rest of it is as in the code.
Result == [source_call_id : CallIds \cup {NoCallId}, is_error : ErrorFlags,
           line : 1 .. MaxLines, item : 1 .. MaxBlocks]

Step == [source : {"agent", "user", "system"}, source_line : 1 .. MaxLines,
         timestamp : BOOLEAN, message : BOOLEAN, model_name : BOOLEAN,
         source_message_id : MessageIds \cup {NoMessageId},
         metrics : Usages \cup {NoUsage},
         tool_calls : Seq(CallIds), observation : Seq(Result)]

\* _classify_record(record) -> (label, category).  A label is a pair: what was not
\* converted, and a qualifier.
Label(l) ==
    CASE l.type = "system" -> <<"system", l.subtype>>
      [] l.type \in {"user", "assistant"} -> <<l.type, "no message object">>
      [] OTHER -> <<l.type, "">>

Category(l) ==
    CASE l.type = "mode" \/ (l.type = "system" /\ l.subtype = "turn_duration") -> "bookkeeping"
      [] l.type = "attachment" \/ (l.type = "system" /\ l.subtype = "compact_boundary") -> "text_bearing"
      [] OTHER -> "unrecognized"

\* The session metadata keep the first value that a record carries.
FirstWins(l) == [f \in MetaFields |-> IF meta[f] = NoMeta THEN l.meta[f] ELSE meta[f]]

-----------------------------------------------------------------------------
Init ==
    /\ pc = "reading"
    /\ log = <<>>
    /\ at = 1 /\ content = FALSE /\ tool_calls = <<>> /\ tool_results = <<>> /\ attached = 0
    /\ steps = <<>>
    /\ tool_call_steps = <<>>
    /\ usage_by_message = <<>>
    /\ meta = [f \in MetaFields |-> NoMeta]
    /\ fidelity = ZeroCounters
    /\ breakdown = EmptyBreakdown
    /\ normalized = FALSE
    /\ transformations = FALSE

ReadLine(l) ==
    /\ pc = "reading"
    /\ line_number < MaxLines
    /\ log' = Append(log, l)
    /\ UNCHANGED <<local, output, normalized, transformations>>

Slip_CountUnsupportedRecord(label, category) ==
    /\ fidelity' = IF <<label, category>> \in DOMAIN breakdown.records THEN fidelity
                   ELSE Count(fidelity, {"unsupported_source_records"})
    /\ breakdown' = TallyRecord(breakdown, label, category)

CountUnsupportedRecord(label, category) ==
    /\ fidelity' = Count(fidelity, {"unsupported_source_records"})
    /\ breakdown' = TallyRecord(breakdown, label, category)

MalformedLine(l) ==
    /\ ReadLine(l)
    /\ l.shape = "malformed"
    /\ CountUnsupportedRecord(<<"line", "malformed JSON">>, "unrecognized")
    /\ UNCHANGED <<pc, meta>>

NonObjectLine(l) ==
    /\ ReadLine(l)
    /\ l.shape = "value"
    /\ CountUnsupportedRecord(<<"line", "non-object JSON value">>, "unrecognized")
    /\ UNCHANGED <<pc, meta>>

UnsupportedType(l) ==
    /\ ReadLine(l)
    /\ l.shape = "object"
    /\ l.type \notin SupportedTypes \cup {"unhashable"}
    /\ CountUnsupportedRecord(Label(l), Category(l))
    /\ UNCHANGED <<pc, meta>>

\* The session metadata of a record are taken before its message is looked at.
SupportedRecord(l) ==
    /\ ReadLine(l)
    /\ l.shape = "object"
    /\ l.type \in SupportedTypes
    /\ meta' = FirstWins(l)

NoMessage(l) ==
    /\ SupportedRecord(l)
    /\ ~l.message
    /\ CountUnsupportedRecord(Label(l), Category(l))
    /\ UNCHANGED pc

UnsupportedRole(l) ==
    /\ SupportedRecord(l)
    /\ l.message
    /\ l.role = "other"
    /\ CountUnsupportedRecord(<<l.type, "unsupported role">>, "unrecognized")
    /\ UNCHANGED pc

\* `x not in {...}` hashes x: a list or an object raises TypeError, which
\* nothing between here and the command line catches.
UnhashableType(l) ==
    /\ ReadLine(l)
    /\ l.shape = "object"
    /\ l.type = "unhashable"
    /\ pc' = "raised"
    /\ UNCHANGED <<meta, fidelity, breakdown>>

UnhashableRole(l) ==
    /\ SupportedRecord(l)
    /\ l.message
    /\ l.role = "unhashable"
    /\ pc' = "raised"
    /\ UNCHANGED <<fidelity, breakdown>>

\* _step_timestamp: absent is no loss, present and unusable is counted.
TimestampCounters(l) == {c \in {"invalid_source_timestamps"} : l.timestamp = "invalid"}

\* Content that is neither a string nor a list counts as one block, with content
\* unless it is an empty value.
NonListContent(l) == l.content \in {"empty", "other"}

ContentCounters(l) == {c \in {"unsupported_source_blocks"} : NonListContent(l)}

\* The timestamp is judged, and content that is a string or no list is settled.
ReadRecord(l) ==
    /\ pc = "reading"
    /\ line_number < MaxLines
    /\ l.shape = "object" /\ l.type \in SupportedTypes /\ l.message /\ l.role \in SupportedTypes
    /\ log' = Append(log, l)
    /\ meta' = FirstWins(l)
    /\ pc' = "record"
    /\ content' = (l.content = "string" /\ l.text)
    /\ fidelity' = Count(fidelity, TimestampCounters(l) \cup ContentCounters(l))
    /\ breakdown' = IF NonListContent(l)
                      THEN TallyBlocks(breakdown, <<"content", "non-list">>, l.content = "other", 1)
                      ELSE breakdown
    /\ UNCHANGED <<at, tool_calls, tool_results, attached, output, normalized, transformations>>

-----------------------------------------------------------------------------
\* The loop of _parse_content_blocks: one action per kind of block.
block == record.blocks[at]

ParseBlock ==
    /\ pc = "record"
    /\ at <= Len(record.blocks)
    /\ at' = at + 1
    /\ UNCHANGED <<pc, log, attached, output, meta, normalized, transformations>>

CountUnsupportedBlock(label, with_content) ==
    /\ fidelity' = Count(fidelity, {"unsupported_source_blocks"})
    /\ breakdown' = TallyBlocks(breakdown, label, with_content, 1)
    /\ UNCHANGED <<content, tool_calls, tool_results>>

TextBlock ==
    /\ ParseBlock
    /\ block.kind = "text" /\ block.valid
    /\ content' = (content \/ block.payload)
    /\ UNCHANGED <<tool_calls, tool_results, fidelity, breakdown>>

\* The id of a call has a character that is not blank, and its name and input are usable.
UsableCall(b) == b.valid /\ b.id \in CallIds

ToolUseBlock ==
    /\ ParseBlock
    /\ block.kind = "tool_use" /\ record.role = "assistant" /\ UsableCall(block)
    /\ tool_calls' = Append(tool_calls, block.id)
    /\ fidelity' = Count(fidelity, {"tool_calls_preserved"})
    /\ UNCHANGED <<content, tool_results, breakdown>>

\* _tool_result_text: a list of typed items with a text or an image among them is
\* read item by item, and counts what is not text; any other list is kept whole.
\* One entry of the breakdown stands for those of all types of items.
ClaudeContent(items) ==
    /\ \A i \in DOMAIN items : items[i] # "untyped"
    /\ \E i \in DOMAIN items : items[i] \in {"text", "image"}

DroppedItems(items) ==
    IF ClaudeContent(items) THEN Cardinality({i \in DOMAIN items : items[i] # "text"}) ELSE 0

CountDroppedItems(n) ==
    /\ fidelity' = CountMany(fidelity, "unsupported_source_blocks", n)
    /\ breakdown' = IF n > 0 THEN TallyBlocks(breakdown, <<"tool_result", "item">>, TRUE, n)
                             ELSE breakdown

\* A result is known by its call's id if that is usable.
ResultId(b) == IF b.id \in CallIds THEN b.id ELSE NoCallId

ToolResultBlock ==
    /\ ParseBlock
    /\ block.kind = "tool_result" /\ record.role = "user"
    /\ tool_results' = Append(tool_results,
                          [source_call_id |-> ResultId(block), is_error |-> block.is_error,
                           line |-> line_number, item |-> at])
    /\ CountDroppedItems(DroppedItems(block.items))
    /\ UNCHANGED <<content, tool_calls>>

MisplacedToolBlock ==
    /\ ParseBlock
    /\ \/ block.kind = "tool_use" /\ record.role # "assistant"
       \/ block.kind = "tool_result" /\ record.role # "user"
    /\ CountUnsupportedBlock(<<block.kind, "wrong role">>, TRUE)

MalformedBlock ==
    /\ ParseBlock
    /\ \/ block.kind = "text" /\ ~block.valid
       \/ block.kind = "tool_use" /\ record.role = "assistant" /\ ~UsableCall(block)
    /\ CountUnsupportedBlock(<<block.kind, "malformed">>, TRUE)

\* A thinking block without text holds a signature only; any other unknown
\* block is taken to carry content.
BlockHasPayload(b) == b.kind = "thinking" => b.payload

UnknownBlock ==
    /\ ParseBlock
    /\ block.kind \in {"thinking", "other", "untyped", "non_object"}
    /\ CountUnsupportedBlock(<<block.kind, "">>, BlockHasPayload(block))

-----------------------------------------------------------------------------
BlocksParsed == pc = "record" /\ at > Len(record.blocks)

Slip_Extend_FirstCall(f, keys, v) ==
    [k \in DOMAIN f \cup keys |-> IF k \in DOMAIN f THEN f[k] ELSE v]

Slip_Extend_Forgets(f, keys, v) == [k \in keys |-> v]

Extend(f, keys, v) == [k \in DOMAIN f \cup keys |-> IF k \in keys THEN v ELSE f[k]]

NewStep(source, id, metrics) ==
    [source |-> source, source_line |-> line_number,
     timestamp |-> record.timestamp = "valid", message |-> content,
     model_name |-> source = "agent" /\ record.model = "named",
     source_message_id |-> id, metrics |-> metrics,
     tool_calls |-> tool_calls, observation |-> <<>>]

Slip_ResetLocals_KeepsAttached ==
    /\ at' = 1 /\ content' = FALSE /\ tool_calls' = <<>> /\ tool_results' = <<>>
    /\ UNCHANGED attached

\* The next record starts with empty lists.
ResetLocals ==
    /\ at' = 1 /\ content' = FALSE /\ tool_calls' = <<>> /\ tool_results' = <<>> /\ attached' = 0

\* source_records_preserved, the ignored fields, and on to the next line.
EndRecord(counters) ==
    /\ pc' = "reading"
    /\ ResetLocals
    /\ fidelity' = Count(fidelity, counters \cup {"source_records_preserved"})
    /\ breakdown' = TallyFields(breakdown, record.ignored)
    /\ UNCHANGED <<log, meta, transformations>>

\* _model_and_metrics: usage counts for a response with a real model, and only
\* the first such usage of an identified response becomes metrics.
UsageGiven == record.model = "named" /\ record.usage # NoUsage

Slip_UsageStored == FALSE

UsageStored == record.id \in DOMAIN usage_by_message

Slip_UsageCounters ==
    {c \in {"synthetic_agent_records"} : record.model = "synthetic"}
    \cup {c \in {"duplicate_usage_records"} : UsageGiven /\ UsageStored}

UsageCounters ==
    {c \in {"synthetic_agent_records"} : record.model = "synthetic"}
    \cup {c \in {"duplicate_usage_records"} :
            UsageGiven /\ UsageStored /\ usage_by_message[record.id] = record.usage}
    \cup {c \in {"conflicting_usage_records"} :
            UsageGiven /\ UsageStored /\ usage_by_message[record.id] # record.usage}

ConvertAssistant ==
    /\ BlocksParsed
    /\ record.role = "assistant"
    /\ steps' = Append(steps, NewStep("agent", record.id,
                                IF UsageGiven /\ ~UsageStored THEN record.usage ELSE NoUsage))
    /\ tool_call_steps' = Extend(tool_call_steps, {tool_calls[c] : c \in DOMAIN tool_calls},
                                 Len(steps) + 1)
    /\ usage_by_message' = IF UsageGiven /\ ~UsageStored /\ record.id # NoMessageId
                             THEN Extend(usage_by_message, {record.id}, record.usage)
                             ELSE usage_by_message
    /\ EndRecord(UsageCounters)
    /\ UNCHANGED normalized

\* The loop of _attach_tool_results.
Slip_NextResult == tool_results[Len(tool_results) - attached]

NextResult == tool_results[attached + 1]

TreatResult ==
    /\ BlocksParsed
    /\ record.role # "assistant"
    /\ attached < Len(tool_results)
    /\ attached' = attached + 1
    /\ UNCHANGED <<pc, log, at, content, tool_calls, tool_results, tool_call_steps,
                   usage_by_message, meta, breakdown, normalized, transformations>>

Slip_Observe(i) == [steps EXCEPT ![i].observation = <<NextResult>>]

Observe(i) == [steps EXCEPT ![i].observation = Append(@, NextResult)]

AttachResult ==
    /\ TreatResult
    /\ NextResult.source_call_id \in DOMAIN tool_call_steps
    /\ steps' = Observe(tool_call_steps[NextResult.source_call_id])
    /\ fidelity' = Count(fidelity, {"observation_results_preserved"}
                      \cup {c \in {"omitted_tool_result_timestamps"} : record.timestamp = "valid"})

OrphanResult ==
    /\ TreatResult
    /\ NextResult.source_call_id \notin DOMAIN tool_call_steps
    /\ fidelity' = Count(fidelity, {"orphaned_tool_results"})
    /\ UNCHANGED steps

Slip_OwnStep == content

\* A user or system record gets a step of its own unless it held results only.
OwnStep == content \/ tool_results = <<>>

Slip_ResultsMoved == tool_results # <<>>

ResultsMoved == tool_results # <<>> /\ fidelity["observation_results_preserved"] > 0

ConvertUserOrSystem ==
    /\ BlocksParsed
    /\ record.role # "assistant"
    /\ attached = Len(tool_results)
    /\ steps' = IF OwnStep
                  THEN Append(steps, NewStep(record.role, NoMessageId, NoUsage))
                  ELSE steps
    /\ normalized' = (normalized \/ ResultsMoved)
    /\ EndRecord({})
    /\ UNCHANGED <<tool_call_steps, usage_by_message>>

\* A trajectory with a session id that is no string is refused by the ATIF library.
EndOfFile ==
    /\ pc = "reading"
    /\ pc' = IF meta["sessionId"] \in NotStrings THEN "rejected" ELSE "done"
    /\ transformations' = normalized
    /\ UNCHANGED <<log, local, output, meta, fidelity, breakdown, normalized>>

\* No trajectory comes of it.
Failed == pc \in {"raised", "rejected"}

-----------------------------------------------------------------------------
SkipLine(l) ==
    \/ MalformedLine(l) \/ NonObjectLine(l) \/ UnsupportedType(l)
    \/ NoMessage(l) \/ UnsupportedRole(l)

Raise(l) == UnhashableType(l) \/ UnhashableRole(l)

NextBlock ==
    \/ TextBlock \/ ToolUseBlock \/ ToolResultBlock
    \/ MisplacedToolBlock \/ MalformedBlock \/ UnknownBlock

Next ==
    \/ \E l \in Lines : SkipLine(l) \/ Raise(l) \/ ReadRecord(l)
    \/ NextBlock
    \/ AttachResult \/ OrphanResult
    \/ ConvertAssistant \/ ConvertUserOrSystem
    \/ EndOfFile

Fairness == WF_vars(Next)

Spec == Init /\ [][Next]_vars /\ Fairness
=============================================================================
