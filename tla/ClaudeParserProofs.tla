-------------------------- MODULE ClaudeParserProofs --------------------------
(***************************************************************************)
(* Proofs about the parser for any set of lines, ids and usages, and for   *)
(* any bounds: its types, that every line is accounted for, and that every *)
(* tool result goes to the latest step that made its call, as an invariant *)
(* of the trajectory and as the refinement of ToolCorrelation.             *)
(***************************************************************************)
EXTENDS ClaudeParserProperties, FiniteSetTheorems, SequenceTheorems, TLAPS

-----------------------------------------------------------------------------
\* Lemmas about the operators of FidelityReport.

\* Count keeps a report a function from the counters to Nat.
LEMMA CountType ==
    ASSUME NEW r \in [Counters -> Nat], NEW S
    PROVE  Count(r, S) \in [Counters -> Nat]
BY DEF Count

\* So does CountMany.
LEMMA CountManyType ==
    ASSUME NEW r \in [Counters -> Nat], NEW c \in Counters, NEW n \in Nat
    PROVE  CountMany(r, c, n) \in [Counters -> Nat]
BY DEF CountMany

\* The items that a tool result loses can be counted.
LEMMA DroppedItemsType ==
    ASSUME NEW items \in Seq(ItemKinds)
    PROVE  DroppedItems(items) \in Nat
<1>1. Len(items) \in Nat /\ DOMAIN items = 1 .. Len(items)
  OBVIOUS
<1>2. IsFiniteSet(1 .. Len(items))
  BY <1>1, FS_Interval
<1>3. IsFiniteSet({i \in DOMAIN items : items[i] # "text"})
  BY <1>1, <1>2, FS_Subset
<1> QED
  BY <1>3, FS_CardinalityType DEF DroppedItems

\* Tally keeps a list a function to Nat.
LEMMA TallyType ==
    ASSUME NEW list, IsTally(list), NEW S, NEW n \in Nat
    PROVE  IsTally(Tally(list, S, n))
BY DEF Tally, IsTally

\* The three ways to enter something in the breakdown keep it well-formed.
LEMMA TallyRecordType ==
    ASSUME NEW bd, IsBreakdown(bd), NEW l, NEW c
    PROVE  IsBreakdown(TallyRecord(bd, l, c))
<1>1. IsTally(Tally(bd.records, {<<l, c>>}, 1))
  BY TallyType DEF IsBreakdown
<1> QED
  BY <1>1 DEF TallyRecord, IsBreakdown

\* A list of blocks stays one when it grows.
LEMMA TallyBlocksType ==
    ASSUME NEW bd, IsBreakdown(bd), NEW l, NEW w \in BOOLEAN, NEW n \in Nat
    PROVE  IsBreakdown(TallyBlocks(bd, l, w, n))
<1>1. IsTally(Tally(bd.blocks, {l}, n))
  BY TallyType DEF IsBreakdown
<1>2. IsTally(Tally(bd.with_content, {l}, IF w THEN n ELSE 0))
  BY TallyType DEF IsBreakdown
<1> QED
  BY <1>1, <1>2 DEF TallyBlocks, IsBreakdown

\* A list of fields stays one when it grows.
LEMMA TallyFieldsType ==
    ASSUME NEW bd, IsBreakdown(bd), NEW S
    PROVE  IsBreakdown(TallyFields(bd, S))
<1>1. IsTally(Tally(bd.fields, S, 1))
  BY TallyType DEF IsBreakdown
<1> QED
  BY <1>1 DEF TallyFields, IsBreakdown

-----------------------------------------------------------------------------
(***************************************************************************)
(* What the local variables of the loop hold: between records they are as  *)
(* the loop starts them; in a record, it is one that is converted, only an *)
(* assistant's makes calls and only a user's brings results.               *)
(***************************************************************************)
LocalsOK ==
    /\ pc = "record" =>
          /\ log # <<>>
          /\ Converted(line_number)
          /\ record.role # "assistant" => tool_calls = <<>>
          /\ record.role # "user" => tool_results = <<>>
    /\ pc # "record" =>
          at = 1 /\ content = FALSE /\ tool_calls = <<>> /\ tool_results = <<>> /\ attached = 0

TypeInv == TypeOK /\ LocalsOK

(***************************************************************************)
(* The parser on any file.  What follows is proved of its steps whatever   *)
(* lines the file holds, so that it holds for files that other components  *)
(* write as well as for those of Spec.                                     *)
(***************************************************************************)
AnyNext ==
    \/ \E l \in FileLines : SkipLine(l) \/ Raise(l) \/ ReadRecord(l)
    \/ NextBlock
    \/ AttachResult \/ OrphanResult
    \/ ConvertAssistant \/ ConvertUserOrSystem
    \/ EndOfFile

\* A step on a file of Lines is one on some file.
LEMMA NextIsAny == [Next]_vars => [AnyNext]_vars
BY LinesAssumption DEF Next, AnyNext

\* The parser does nothing once it has ended, in whatever way.
LEMMA NextWorks == Next => pc \in {"reading", "record"}
BY DEF Next, SkipLine, MalformedLine, NonObjectLine, UnsupportedType, NoMessage, UnsupportedRole,
   SupportedRecord, Raise, UnhashableType, UnhashableRole, ReadLine, ReadRecord, NextBlock,
   TextBlock, ToolUseBlock, ToolResultBlock, MisplacedToolBlock, MalformedBlock, UnknownBlock,
   ParseBlock, AttachResult, OrphanResult, TreatResult, ConvertAssistant, ConvertUserOrSystem,
   BlocksParsed, EndOfFile

LEMMA AnyFile == Spec => Init /\ [][AnyNext]_vars
BY NextIsAny, PTL DEF Spec

\* The fields of a line of the file.
LEMMA LineFields ==
    ASSUME NEW l \in FileLines
    PROVE  /\ l \in Line
           /\ l.role \in SupportedTypes \cup {"other", "unhashable"}
           /\ l.id \in MessageIds \cup {NoMessageId}
           /\ l.usage \in Usages \cup {NoUsage}
           /\ l.meta \in [MetaFields -> MetaValues \cup {NoMeta}]
           /\ l.blocks \in Seq(Block)
           /\ Len(l.blocks) \in 0 .. MaxBlocks
<1>1. l \in Line
  BY DEF FileLines
<1>2. Len(l.blocks) <= MaxBlocks
  BY DEF FileLines
<1>3. l.blocks \in Seq(Block)
  BY <1>1 DEF Line
<1>4. Len(l.blocks) \in 0 .. MaxBlocks
  BY <1>2, <1>3, BoundAssumption
<1> QED
  BY <1>1, <1>3, <1>4 DEF Line

\* The record at hand, and its block at hand, are of their types.
LEMMA RecordFields ==
    ASSUME TypeInv, pc = "record"
    PROVE  /\ line_number \in 1 .. MaxLines
           /\ record \in FileLines
           /\ record.role \in SupportedTypes
           /\ at <= Len(record.blocks) =>
                 /\ at \in 1 .. MaxBlocks
                 /\ block \in Block
<1>1. log # <<>> /\ log \in Seq(FileLines) /\ Len(log) <= MaxLines /\ at \in 1 .. MaxBlocks + 1
  BY DEF TypeInv, TypeOK, LocalsOK
<1>2. line_number \in 1 .. MaxLines /\ record \in FileLines
  BY <1>1, BoundAssumption DEF line_number, record
<1>3. record.role \in SupportedTypes
  BY DEF TypeInv, LocalsOK, Converted, record
<1>4. record.blocks \in Seq(Block) /\ Len(record.blocks) \in 0 .. MaxBlocks
  BY <1>2, LineFields
<1>5. ASSUME at <= Len(record.blocks)
      PROVE  /\ at \in 1 .. MaxBlocks
             /\ block \in Block
  <2>1. at \in 1 .. MaxBlocks /\ at \in DOMAIN record.blocks
    BY <1>1, <1>4, <1>5, BoundAssumption
  <2> QED
    BY <2>1, <1>2, <1>4 DEF FileLines, block
<1> QED
  BY <1>2, <1>3, <1>5

-----------------------------------------------------------------------------
\* The types hold at the start.
LEMMA TypeInvInit == Init => TypeInv
<1> SUFFICES ASSUME Init PROVE TypeInv
  OBVIOUS
<1>1. fidelity \in [Counters -> Nat]
  BY DEF Init, ZeroCounters
<1>2. IsBreakdown(breakdown)
  BY DEF Init, EmptyBreakdown, IsBreakdown, IsTally
<1>3. meta \in [MetaFields -> MetaValues \cup {NoMeta}]
  BY DEF Init
<1>4. LocalsOK
  BY DEF Init, LocalsOK
<1>5. log \in Seq(FileLines) /\ Len(log) <= MaxLines
  BY BoundAssumption DEF Init
<1>6. at \in 1 .. MaxBlocks + 1 /\ attached \in 0 .. Len(tool_results)
  BY BoundAssumption DEF Init
<1>7. /\ tool_calls \in Seq(CallIds) /\ tool_results \in Seq(Result) /\ steps \in Seq(Step)
      /\ DOMAIN tool_call_steps = {} /\ DOMAIN usage_by_message = {}
      /\ tool_call_steps = [k \in DOMAIN tool_call_steps |-> tool_call_steps[k]]
      /\ usage_by_message = [k \in DOMAIN usage_by_message |-> usage_by_message[k]]
  BY DEF Init
<1>8. pc = "reading" /\ content = FALSE /\ normalized = FALSE /\ transformations = FALSE
  BY DEF Init
<1> QED
  BY <1>1, <1>2, <1>3, <1>4, <1>5, <1>6, <1>7, <1>8 DEF TypeInv, TypeOK

\* A line that is not converted, or that raises, moves only the file, the
\* metadata and the report.
LEMMA TypeInvLine ==
    ASSUME TypeInv, NEW l \in FileLines, SkipLine(l) \/ Raise(l)
    PROVE  TypeInv'
<1>1. /\ ReadLine(l)
      /\ pc' = pc \/ pc' = "raised"
      /\ meta' = meta \/ meta' = FirstWins(l)
      /\ \/ UNCHANGED <<fidelity, breakdown>>
         \/ \E label, category : CountUnsupportedRecord(label, category)
  BY DEF SkipLine, Raise, MalformedLine, NonObjectLine, UnsupportedType, NoMessage,
         UnsupportedRole, UnhashableType, UnhashableRole, SupportedRecord
<1>2. log' \in Seq(FileLines) /\ Len(log') <= MaxLines
  <2>1. log \in Seq(FileLines) /\ log' = Append(log, l) /\ Len(log) < MaxLines
    BY <1>1 DEF TypeInv, TypeOK, ReadLine, line_number
  <2> QED
    BY <2>1, BoundAssumption
<1>3. pc' \in {"reading", "raised"} /\ pc = "reading"
  BY <1>1 DEF ReadLine
<1>4. meta' \in [MetaFields -> MetaValues \cup {NoMeta}]
  BY <1>1, LineFields DEF TypeInv, TypeOK, FirstWins
<1>5. fidelity' \in [Counters -> Nat]
  <2>1. fidelity \in [Counters -> Nat]
    BY DEF TypeInv, TypeOK
  <2>2. Count(fidelity, {"unsupported_source_records"}) \in [Counters -> Nat]
    BY <2>1, CountType
  <2> QED
    BY <1>1, <2>1, <2>2 DEF CountUnsupportedRecord
<1>6. IsBreakdown(breakdown')
  BY <1>1, TallyRecordType DEF TypeInv, TypeOK, CountUnsupportedRecord
<1>7. UNCHANGED <<local, output, normalized, transformations>>
  BY <1>1 DEF ReadLine
<1>8. TypeOK'
  BY <1>2, <1>3, <1>4, <1>5, <1>6, <1>7 DEF TypeInv, TypeOK, local, output
<1>9. LocalsOK'
  BY <1>3, <1>7 DEF TypeInv, LocalsOK, local
<1> QED
  BY <1>8, <1>9 DEF TypeInv

\* Reading a record keeps the types.
LEMMA TypeInvRead ==
    ASSUME TypeInv, NEW l \in FileLines, ReadRecord(l)
    PROVE  TypeInv'
<1>1. log' \in Seq(FileLines) /\ Len(log') <= MaxLines /\ log' # <<>> /\ log'[Len(log')] = l
  BY BoundAssumption DEF TypeInv, TypeOK, ReadRecord, line_number
<1>2. content' \in BOOLEAN /\ pc' = "record"
  BY DEF ReadRecord
<1>3. meta' \in [MetaFields -> MetaValues \cup {NoMeta}]
  BY LineFields DEF TypeInv, TypeOK, ReadRecord, FirstWins
<1>4. fidelity' \in [Counters -> Nat]
  BY CountType DEF TypeInv, TypeOK, ReadRecord
<1>5. IsBreakdown(breakdown)'
  BY TallyBlocksType DEF TypeInv, TypeOK, ReadRecord
<1>6. UNCHANGED <<at, tool_calls, tool_results, attached, output, normalized, transformations>>
  BY DEF ReadRecord
<1>7. TypeOK'
  BY <1>1, <1>2, <1>3, <1>4, <1>5, <1>6 DEF TypeInv, TypeOK, output
<1>8. LocalsOK'
  <2>1. tool_calls' = <<>> /\ tool_results' = <<>>
    BY <1>6 DEF TypeInv, LocalsOK, ReadRecord
  <2>2. Converted(line_number)'
    BY <1>1 DEF Converted, Supported, line_number, ReadRecord
  <2> QED
    BY <1>1, <1>2, <2>1, <2>2 DEF LocalsOK
<1> QED
  BY <1>7, <1>8 DEF TypeInv

\* A block moves `at` on and leaves its mark on the record's local variables.
LEMMA TypeInvBlock ==
    ASSUME TypeInv, NextBlock
    PROVE  TypeInv'
<1>1. /\ ParseBlock
      /\ pc = "record" /\ at <= Len(record.blocks)
  BY DEF NextBlock, TextBlock, ToolUseBlock, ToolResultBlock, MisplacedToolBlock,
         MalformedBlock, UnknownBlock, ParseBlock
<1>2. /\ line_number \in 1 .. MaxLines
      /\ at \in 1 .. MaxBlocks
      /\ block \in Block
  BY <1>1, RecordFields
<1>3. /\ at' = at + 1
      /\ UNCHANGED <<pc, log, attached, output, meta, normalized, transformations>>
  BY <1>1 DEF ParseBlock
<1>4. fidelity \in [Counters -> Nat] /\ IsBreakdown(breakdown)
  BY DEF TypeInv, TypeOK
<1>5. /\ Count(fidelity, {"unsupported_source_blocks"}) \in [Counters -> Nat]
      /\ Count(fidelity, {"tool_calls_preserved"}) \in [Counters -> Nat]
      /\ CountMany(fidelity, "unsupported_source_blocks", DroppedItems(block.items)) \in [Counters -> Nat]
  <2>1. DroppedItems(block.items) \in Nat /\ "unsupported_source_blocks" \in Counters
    BY <1>2, DroppedItemsType DEF Block, Counters
  <2> QED
    BY <1>4, <2>1, CountType, CountManyType
<1>6. \A label : \A with_content \in BOOLEAN :
         CountUnsupportedBlock(label, with_content) =>
             /\ fidelity' \in [Counters -> Nat] /\ IsBreakdown(breakdown')
             /\ UNCHANGED <<content, tool_calls, tool_results>>
  BY <1>4, <1>5, TallyBlocksType DEF CountUnsupportedBlock
<1>7. /\ fidelity' \in [Counters -> Nat] /\ IsBreakdown(breakdown')
      /\ content' \in BOOLEAN
      /\ \/ tool_calls' = tool_calls
         \/ record.role = "assistant" /\ block.id \in CallIds /\ tool_calls' = Append(tool_calls, block.id)
      /\ \/ tool_results' = tool_results
         \/ \E r \in Result : record.role = "user" /\ tool_results' = Append(tool_results, r)
  <2>0. content \in BOOLEAN /\ block.payload \in BOOLEAN
        /\ block.is_error \in ErrorFlags /\ DroppedItems(block.items) \in Nat
    BY <1>2, DroppedItemsType DEF TypeInv, TypeOK, Block
  <2>1. CASE TextBlock
    BY <2>0, <2>1, <1>4 DEF TextBlock
  <2>2. CASE ToolUseBlock
    BY <2>0, <2>2, <1>4, <1>5 DEF ToolUseBlock, UsableCall
  <2>3. CASE ToolResultBlock
    <3>1. IsBreakdown(TallyBlocks(breakdown, <<"tool_result", "item">>, TRUE, DroppedItems(block.items)))
      BY <2>0, <1>4, TallyBlocksType
    <3>2. [source_call_id |-> ResultId(block), is_error |-> block.is_error,
           line |-> line_number, item |-> at] \in Result
      BY <2>0, <1>2 DEF Result, ResultId
    <3> QED
      BY <2>0, <2>3, <3>1, <3>2, <1>4, <1>5 DEF ToolResultBlock, CountDroppedItems
  <2>4. CASE MisplacedToolBlock
    <3>1. CountUnsupportedBlock(<<block.kind, "wrong role">>, TRUE)
      BY <2>4 DEF MisplacedToolBlock
    <3> QED
      BY <2>0, <3>1, <1>6
  <2>5. CASE MalformedBlock
    <3>1. CountUnsupportedBlock(<<block.kind, "malformed">>, TRUE)
      BY <2>5 DEF MalformedBlock
    <3> QED
      BY <2>0, <3>1, <1>6
  <2>6. CASE UnknownBlock
    <3>1. CountUnsupportedBlock(<<block.kind, "">>, BlockHasPayload(block))
      BY <2>6 DEF UnknownBlock
    <3>2. BlockHasPayload(block) \in BOOLEAN
      BY <2>0 DEF BlockHasPayload
    <3> QED
      BY <2>0, <3>1, <3>2, <1>6
  <2> QED
    BY <2>1, <2>2, <2>3, <2>4, <2>5, <2>6 DEF NextBlock
<1>8. /\ at' \in 1 .. MaxBlocks + 1
      /\ tool_calls' \in Seq(CallIds)
      /\ tool_results' \in Seq(Result)
      /\ attached' \in 0 .. Len(tool_results')
  <2>1. /\ tool_calls \in Seq(CallIds) /\ tool_results \in Seq(Result)
        /\ attached' = attached /\ attached \in 0 .. Len(tool_results)
    BY <1>3 DEF TypeInv, TypeOK
  <2>2. at' \in 1 .. MaxBlocks + 1
    BY <1>2, <1>3, BoundAssumption
  <2>3. tool_calls' \in Seq(CallIds)
    BY <2>1, <1>7, SMTT(30)
  <2>4. tool_results' \in Seq(Result) /\ Len(tool_results) <= Len(tool_results')
    BY <2>1, <1>7
  <2> QED
    BY <2>1, <2>2, <2>3, <2>4
<1>9. TypeOK'
  BY <1>3, <1>7, <1>8 DEF TypeInv, TypeOK, output
<1>10. LocalsOK'
  <2>1. record' = record /\ line_number' = line_number
    BY <1>3 DEF record, line_number
  <2>2. Converted(line_number)'
    BY <1>1, <1>3, <2>1 DEF TypeInv, LocalsOK, Converted, Supported
  <2>3. /\ record.role # "assistant" => tool_calls' = <<>>
        /\ record.role # "user" => tool_results' = <<>>
    BY <1>1, <1>7 DEF TypeInv, LocalsOK
  <2> QED
    BY <1>1, <1>3, <2>1, <2>2, <2>3 DEF TypeInv, LocalsOK
<1> QED
  BY <1>9, <1>10 DEF TypeInv

\* A new step is a step, whichever branch makes it.
LEMMA NewStepType ==
    ASSUME TypeInv, pc = "record", NEW source \in {"agent", "user", "system"},
           NEW id \in MessageIds \cup {NoMessageId}, NEW metrics \in Usages \cup {NoUsage}
    PROVE  NewStep(source, id, metrics) \in Step
<1>1. line_number \in 1 .. MaxLines
  BY RecordFields
<1>2. content \in BOOLEAN /\ tool_calls \in Seq(CallIds) /\ <<>> \in Seq(Result)
  BY DEF TypeInv, TypeOK
<1>3. (record.timestamp = "valid") \in BOOLEAN
      /\ (source = "agent" /\ record.model = "named") \in BOOLEAN
  OBVIOUS
<1> QED
  BY <1>1, <1>2, <1>3 DEF NewStep, Step

\* EndRecord leaves the local variables and the report in order.
LEMMA EndRecordType ==
    ASSUME TypeInv, NEW counters, EndRecord(counters)
    PROVE  /\ pc' = "reading"
           /\ at' \in 1 .. MaxBlocks + 1 /\ content' \in BOOLEAN
           /\ tool_calls' \in Seq(CallIds) /\ tool_results' \in Seq(Result)
           /\ attached' \in 0 .. Len(tool_results')
           /\ fidelity' \in [Counters -> Nat] /\ IsBreakdown(breakdown')
           /\ UNCHANGED <<log, meta, transformations>>
           /\ LocalsOK'
<1>1. fidelity \in [Counters -> Nat] /\ IsBreakdown(breakdown)
  BY DEF TypeInv, TypeOK
<1>2. Count(fidelity, counters \cup {"source_records_preserved"}) \in [Counters -> Nat]
      /\ IsBreakdown(TallyFields(breakdown, record.ignored))
  BY <1>1, CountType, TallyFieldsType
<1>3. at' = 1 /\ tool_calls' = <<>> /\ tool_results' = <<>> /\ attached' = 0
  BY DEF EndRecord, ResetLocals
<1>4. LocalsOK'
  BY DEF EndRecord, ResetLocals, LocalsOK
<1>5. /\ at' \in 1 .. MaxBlocks + 1 /\ tool_calls' \in Seq(CallIds)
      /\ tool_results' \in Seq(Result) /\ attached' \in 0 .. Len(tool_results')
  BY <1>3, BoundAssumption
<1>6. pc' = "reading" /\ content' \in BOOLEAN /\ UNCHANGED <<log, meta, transformations>>
  BY DEF EndRecord, ResetLocals
<1> QED
  BY <1>2, <1>4, <1>5, <1>6 DEF EndRecord, ResetLocals

\* So does the end of an assistant record,
LEMMA TypeInvAssistant ==
    ASSUME TypeInv, ConvertAssistant
    PROVE  TypeInv'
<1>1. pc = "record" /\ EndRecord(UsageCounters)
  BY DEF ConvertAssistant, BlocksParsed
<1>2. record.usage \in Usages \cup {NoUsage} /\ record.id \in MessageIds \cup {NoMessageId}
  BY <1>1, RecordFields, LineFields
<1> DEFINE metrics == IF UsageGiven /\ ~UsageStored THEN record.usage ELSE NoUsage
           made == {tool_calls[c] : c \in DOMAIN tool_calls}
<1>3. NewStep("agent", record.id, metrics) \in Step
  BY <1>1, <1>2, NewStepType
<1>4. /\ steps \in Seq(Step)
      /\ steps' = Append(steps, NewStep("agent", record.id, metrics))
      /\ tool_call_steps' = Extend(tool_call_steps, made, Len(steps) + 1)
  BY DEF ConvertAssistant, TypeInv, TypeOK
<1>5. /\ steps' \in Seq(Step)
      /\ DOMAIN steps' = 1 .. Len(steps) + 1 /\ DOMAIN steps = 1 .. Len(steps) /\ Len(steps) \in Nat
  BY <1>3, <1>4
<1>6. made \subseteq CallIds
  BY DEF TypeInv, TypeOK
<1>7. /\ tool_call_steps' = [k \in DOMAIN tool_call_steps' |-> tool_call_steps'[k]]
      /\ DOMAIN tool_call_steps' \subseteq CallIds
      /\ \A k \in DOMAIN tool_call_steps' : tool_call_steps'[k] \in DOMAIN steps'
  <2>1. /\ DOMAIN tool_call_steps \subseteq CallIds
        /\ \A k \in DOMAIN tool_call_steps : tool_call_steps[k] \in 1 .. Len(steps)
    BY <1>5 DEF TypeInv, TypeOK
  <2> QED
    BY <1>4, <1>5, <1>6, <2>1 DEF Extend
<1>8. /\ usage_by_message' = [k \in DOMAIN usage_by_message' |-> usage_by_message'[k]]
      /\ DOMAIN usage_by_message' \subseteq MessageIds
      /\ \A k \in DOMAIN usage_by_message' : usage_by_message'[k] \in Usages
  <2>1. \/ usage_by_message' = usage_by_message
        \/ /\ record.id \in MessageIds /\ record.usage \in Usages
           /\ usage_by_message' = Extend(usage_by_message, {record.id}, record.usage)
    BY <1>2 DEF ConvertAssistant, UsageGiven
  <2> QED
    BY <2>1, SMTT(30) DEF TypeInv, TypeOK, Extend
<1>9. normalized' = normalized
  BY DEF ConvertAssistant
<1> QED
  BY <1>1, <1>5, <1>7, <1>8, <1>9, EndRecordType DEF TypeInv, TypeOK

\* a result that is attached or orphaned,
LEMMA TypeInvResult ==
    ASSUME TypeInv, AttachResult \/ OrphanResult
    PROVE  TypeInv'
<1>1. /\ pc = "record" /\ attached < Len(tool_results) /\ attached' = attached + 1
      /\ UNCHANGED <<pc, log, at, content, tool_calls, tool_results, tool_call_steps,
                     usage_by_message, meta, breakdown, normalized, transformations>>
  BY DEF AttachResult, OrphanResult, TreatResult, BlocksParsed
<1>2. tool_results \in Seq(Result) /\ attached \in 0 .. Len(tool_results) /\ steps \in Seq(Step)
      /\ fidelity \in [Counters -> Nat]
  BY DEF TypeInv, TypeOK
<1>3. NextResult \in Result /\ attached' \in 0 .. Len(tool_results')
  BY <1>1, <1>2 DEF NextResult
<1>4. fidelity' \in [Counters -> Nat]
  <2>1. CASE AttachResult
    BY <2>1, <1>2, CountType DEF AttachResult
  <2>2. CASE OrphanResult
    BY <2>2, <1>2, CountType DEF OrphanResult
  <2> QED
    BY <2>1, <2>2
<1>5. steps' \in Seq(Step) /\ DOMAIN steps' = DOMAIN steps
  <2>1. CASE AttachResult
    <3> DEFINE s == tool_call_steps[NextResult.source_call_id]
    <3>1. s \in DOMAIN steps /\ steps[s] \in Step
      BY <2>1, <1>2 DEF AttachResult, TypeInv, TypeOK
    <3>2. [steps[s] EXCEPT !.observation = Append(@, NextResult)] \in Step
      <4>1. Append(steps[s].observation, NextResult) \in Seq(Result)
        BY <3>1, <1>3 DEF Step
      <4> QED
        BY <3>1, <4>1 DEF Step
    <3>3. steps' = [steps EXCEPT ![s] = [steps[s] EXCEPT !.observation = Append(@, NextResult)]]
      BY <2>1, <3>1 DEF AttachResult, Observe
    <3> QED
      BY <3>1, <3>2, <3>3, <1>2
  <2>2. CASE OrphanResult
    BY <2>2, <1>2 DEF OrphanResult
  <2> QED
    BY <2>1, <2>2
<1>6. TypeOK'
  BY <1>1, <1>3, <1>4, <1>5 DEF TypeInv, TypeOK
<1>7. LocalsOK'
  BY <1>1 DEF TypeInv, LocalsOK, Converted, Supported, record, line_number
<1> QED
  BY <1>6, <1>7 DEF TypeInv

\* and the end of any other record.
LEMMA TypeInvTurn ==
    ASSUME TypeInv, ConvertUserOrSystem
    PROVE  TypeInv'
<1>1. /\ pc = "record" /\ record.role # "assistant" /\ EndRecord({})
      /\ UNCHANGED <<tool_call_steps, usage_by_message>>
  BY DEF ConvertUserOrSystem, BlocksParsed
<1>2. NewStep(record.role, NoMessageId, NoUsage) \in Step
  BY <1>1, RecordFields, NewStepType DEF SupportedTypes
<1>3. steps' \in Seq(Step) /\ DOMAIN steps \subseteq DOMAIN steps'
  <2>1. steps \in Seq(Step)
    BY DEF TypeInv, TypeOK
  <2>2. steps' = steps \/ steps' = Append(steps, NewStep(record.role, NoMessageId, NoUsage))
    BY DEF ConvertUserOrSystem
  <2> QED
    BY <2>1, <2>2, <1>2
<1>4. normalized' \in BOOLEAN
  BY DEF ConvertUserOrSystem, ResultsMoved, TypeInv, TypeOK
<1> QED
  BY <1>1, <1>3, <1>4, EndRecordType DEF TypeInv, TypeOK

\* The type invariant is inductive.
LEMMA TypeInvStep == TypeInv /\ [AnyNext]_vars => TypeInv'
<1> SUFFICES ASSUME TypeInv, [AnyNext]_vars PROVE TypeInv'
  OBVIOUS
<1>1. ASSUME NEW l \in FileLines, SkipLine(l) \/ Raise(l) PROVE TypeInv'
  BY <1>1, TypeInvLine
<1>2. ASSUME NEW l \in FileLines, ReadRecord(l) PROVE TypeInv'
  BY <1>2, TypeInvRead
<1>3. CASE NextBlock
  BY <1>3, TypeInvBlock
<1>4. CASE AttachResult \/ OrphanResult
  BY <1>4, TypeInvResult
<1>5. CASE ConvertAssistant
  BY <1>5, TypeInvAssistant
<1>6. CASE ConvertUserOrSystem
  BY <1>6, TypeInvTurn
<1>7. CASE EndOfFile
  <2>1. /\ pc = "reading" /\ pc' \in {"done", "rejected"} /\ transformations' = normalized
        /\ UNCHANGED <<log, local, output, meta, fidelity, breakdown, normalized>>
    BY <1>7 DEF EndOfFile
  <2> QED
    BY <2>1 DEF TypeInv, TypeOK, LocalsOK, local, output
<1>8. CASE UNCHANGED vars
  BY <1>8 DEF vars, local, output, TypeInv, TypeOK, LocalsOK, Converted, Supported, record, line_number
<1> QED
  BY <1>1, <1>2, <1>3, <1>4, <1>5, <1>6, <1>7, <1>8 DEF AnyNext

\* The types hold always.
LEMMA TypeInvariance == Spec => []TypeInv
  BY TypeInvInit, TypeInvStep, AnyFile, PTL

\* Every reachable state of the parser is well-typed.
THEOREM TypeCorrect == Spec => []TypeOK
<1>1. TypeInv => TypeOK
  BY DEF TypeInv
<1> QED
  BY <1>1, TypeInvariance, PTL

-----------------------------------------------------------------------------
(***************************************************************************)
(* The report: what each action does to a counter.                         *)
(***************************************************************************)

\* Count adds one to the counters it is given and leaves the others alone.
LEMMA CountEffect ==
    ASSUME NEW r \in [Counters -> Nat], NEW S, NEW c \in Counters
    PROVE  Count(r, S)[c] = IF c \in S THEN r[c] + 1 ELSE r[c]
BY DEF Count

\* Parsing a block moves only the counters of blocks and of calls.
LEMMA BlockCounters ==
    ASSUME TypeInv, NextBlock,
           NEW c \in Counters \ {"unsupported_source_blocks", "tool_calls_preserved"}
    PROVE  fidelity'[c] = fidelity[c]
<1>1. fidelity \in [Counters -> Nat]
  BY DEF TypeInv, TypeOK
<1>2. \/ fidelity' = fidelity
      \/ fidelity' = Count(fidelity, {"unsupported_source_blocks"})
      \/ fidelity' = Count(fidelity, {"tool_calls_preserved"})
      \/ fidelity' = CountMany(fidelity, "unsupported_source_blocks", DroppedItems(block.items))
  BY DEF NextBlock, TextBlock, ToolUseBlock, ToolResultBlock, MisplacedToolBlock,
         MalformedBlock, UnknownBlock, CountUnsupportedBlock, CountDroppedItems
<1> QED
  BY <1>1, <1>2, CountEffect DEF CountMany

\* The same counter is never moved by a line that is not converted, except the
\* one for such lines, which goes up by one unless the line raises.
LEMMA LineCounters ==
    ASSUME TypeInv, NEW l \in FileLines, SkipLine(l) \/ Raise(l), NEW c \in Counters
    PROVE  fidelity'[c] = IF SkipLine(l) /\ c = "unsupported_source_records"
                            THEN fidelity[c] + 1 ELSE fidelity[c]
<1>1. fidelity \in [Counters -> Nat]
  BY DEF TypeInv, TypeOK
<1>2. CASE SkipLine(l)
  <2>1. fidelity' = Count(fidelity, {"unsupported_source_records"})
    BY <1>2 DEF SkipLine, MalformedLine, NonObjectLine, UnsupportedType, NoMessage,
                UnsupportedRole, CountUnsupportedRecord
  <2> QED
    BY <2>1, <1>1, <1>2, CountEffect
<1>3. CASE Raise(l) /\ ~SkipLine(l)
  BY <1>3 DEF Raise, UnhashableType, UnhashableRole
<1> QED
  BY <1>2, <1>3

\* Every step accounts for the line it reads or finishes.
LEMMA RecordsAccountedStep ==
    ASSUME TypeInv, RecordsAccounted, [AnyNext]_vars
    PROVE  RecordsAccounted'
<1> DEFINE p == "source_records_preserved"
           u == "unsupported_source_records"
<1>0. /\ fidelity \in [Counters -> Nat]
      /\ p \in Counters /\ u \in Counters /\ p # u
      /\ fidelity[p] \in Nat /\ fidelity[u] \in Nat
      /\ log \in Seq(FileLines) /\ line_number \in Nat
  BY DEF TypeInv, TypeOK, Counters, line_number
<1>1. ASSUME NEW l \in FileLines, SkipLine(l) \/ Raise(l) PROVE RecordsAccounted'
  <2>1. pc = "reading" /\ log' = Append(log, l)
    BY <1>1 DEF SkipLine, Raise, MalformedLine, NonObjectLine, UnsupportedType, NoMessage,
                UnsupportedRole, UnhashableType, UnhashableRole, SupportedRecord, ReadLine
  <2>2. line_number' = line_number + 1
    BY <2>1, <1>0 DEF line_number
  <2>3. CASE SkipLine(l)
    <3>1. pc' = "reading"
      BY <2>1, <2>3 DEF SkipLine, MalformedLine, NonObjectLine, UnsupportedType, NoMessage,
                        UnsupportedRole
    <3> QED
      BY <2>1, <2>2, <2>3, <3>1, <1>0, LineCounters DEF RecordsAccounted
  <2>4. CASE ~SkipLine(l)
    <3>1. pc' = "raised"
      BY <1>1, <2>4 DEF Raise, UnhashableType, UnhashableRole
    <3> QED
      BY <1>1, <2>1, <2>2, <2>4, <3>1, <1>0, LineCounters DEF RecordsAccounted
  <2> QED
    BY <2>3, <2>4
<1>2. ASSUME NEW l \in FileLines, ReadRecord(l) PROVE RecordsAccounted'
  <2>1. line_number' = line_number + 1 /\ pc = "reading" /\ pc' = "record"
    BY <1>2, <1>0 DEF ReadRecord, line_number
  <2>2. fidelity'[p] = fidelity[p] /\ fidelity'[u] = fidelity[u]
    <3>1. PICK S : fidelity' = Count(fidelity, S) /\ p \notin S /\ u \notin S
      BY <1>2 DEF ReadRecord, TimestampCounters, ContentCounters
    <3> QED
      BY <1>0, <3>1, CountEffect
  <2> QED
    BY <2>1, <2>2, <1>0 DEF RecordsAccounted
<1>3. CASE NextBlock
  <2>1. pc = "record" /\ pc' = pc /\ line_number' = line_number
    BY <1>3 DEF NextBlock, TextBlock, ToolUseBlock, ToolResultBlock, MisplacedToolBlock,
                MalformedBlock, UnknownBlock, ParseBlock, line_number
  <2>2. fidelity'[p] = fidelity[p] /\ fidelity'[u] = fidelity[u]
    BY <1>0, <1>3, BlockCounters
  <2> QED
    BY <2>1, <2>2 DEF RecordsAccounted
<1>4. CASE AttachResult \/ OrphanResult
  <2>1. pc = "record" /\ pc' = pc /\ line_number' = line_number
    BY <1>4 DEF AttachResult, OrphanResult, TreatResult, BlocksParsed, line_number
  <2>2. fidelity'[p] = fidelity[p] /\ fidelity'[u] = fidelity[u]
    <3>1. PICK S : fidelity' = Count(fidelity, S) /\ p \notin S /\ u \notin S
      BY <1>4 DEF AttachResult, OrphanResult
    <3> QED
      BY <1>0, <3>1, CountEffect
  <2> QED
    BY <2>1, <2>2 DEF RecordsAccounted
<1>5. CASE ConvertAssistant \/ ConvertUserOrSystem
  <2>1. PICK counters : EndRecord(counters) /\ p \notin counters /\ u \notin counters
    BY <1>5 DEF ConvertAssistant, ConvertUserOrSystem, UsageCounters
  <2>2. pc = "record" /\ pc' = "reading" /\ line_number' = line_number
    BY <1>5, <2>1 DEF ConvertAssistant, ConvertUserOrSystem, BlocksParsed, EndRecord, line_number
  <2>3. fidelity'[p] = fidelity[p] + 1 /\ fidelity'[u] = fidelity[u]
    BY <1>0, <2>1, CountEffect DEF EndRecord
  <2> QED
    BY <2>2, <2>3, <1>0 DEF RecordsAccounted
<1>6. CASE EndOfFile \/ UNCHANGED vars
  BY <1>6 DEF EndOfFile, vars, RecordsAccounted, line_number
<1> QED
  BY <1>1, <1>2, <1>3, <1>4, <1>5, <1>6 DEF AnyNext

\* Every line of the file is counted exactly once, as preserved or as unsupported.
THEOREM AllRecordsAccounted == Spec => []RecordsAccounted
<1>1. Init => RecordsAccounted
  BY DEF Init, RecordsAccounted, ZeroCounters, Counters, line_number
<1>2. TypeInv /\ RecordsAccounted /\ [AnyNext]_vars => RecordsAccounted'
  BY RecordsAccountedStep
<1> QED
  BY <1>1, <1>2, TypeInvariance, AnyFile, PTL

-----------------------------------------------------------------------------
(***************************************************************************)
(* The delivery of tool results.  It rests on what tool_call_steps means   *)
(* (CallTable) and on the order of source lines (LineOrder).               *)
(***************************************************************************)

\* tool_call_steps names the latest caller of every id that was ever called.
CallTable ==
    /\ \A id \in DOMAIN tool_call_steps : MakesCall(tool_call_steps[id], id)
    /\ \A i \in DOMAIN steps : \A id \in CallIds :
          MakesCall(i, id) => id \in DOMAIN tool_call_steps /\ i <= tool_call_steps[id]

\* The record at hand comes after every step, and after every result delivered
\* unless it is itself the user record that brought it.
LineOrder ==
    /\ \A i \in DOMAIN steps :
          /\ steps[i].source_line <= line_number
          /\ pc = "record" => steps[i].source_line < line_number
          /\ \A j \in DOMAIN steps[i].observation :
                /\ steps[i].observation[j].line <= line_number
                /\ pc = "record" /\ record.role # "user" =>
                      steps[i].observation[j].line < line_number
    /\ pc = "record" => \A q \in DOMAIN tool_results : tool_results[q].line = line_number

\* ResultAtLatestCall for one place of the trajectory.
LatestAt(i, j) ==
    LET r == steps[i].observation[j] IN
    /\ MakesCall(i, r.source_call_id)
    /\ steps[i].source_line < r.line
    /\ \A k \in i + 1 .. Len(steps) :
          MakesCall(k, r.source_call_id) => steps[k].source_line > r.line

Delivered == \A i \in DOMAIN steps : \A j \in DOMAIN steps[i].observation : LatestAt(i, j)

CorrelationInv == CallTable /\ LineOrder /\ Delivered

\* The invariant says what is to be shown of each place.
LEMMA DeliveredIsLatest == Delivered => ResultAtLatestCall
BY DEF Delivered, ResultAtLatestCall, LatestAt, Placed, At

\* It holds of an empty trajectory.
LEMMA CorrelationInit == Init => CorrelationInv
BY DEF Init, CorrelationInv, CallTable, LineOrder, Delivered

-----------------------------------------------------------------------------
\* The steps of the trajectory, typed.
LEMMA StepFields ==
    ASSUME TypeInv
    PROVE  /\ steps \in Seq(Step) /\ Len(steps) \in Nat /\ DOMAIN steps = 1 .. Len(steps)
           /\ line_number \in Nat
           /\ \A i \in DOMAIN steps :
                 /\ steps[i] \in Step
                 /\ steps[i].source_line \in Nat
                 /\ steps[i].observation \in Seq(Result)
                 /\ \A j \in DOMAIN steps[i].observation :
                       steps[i].observation[j] \in Result /\ steps[i].observation[j].line \in Nat
<1>1. steps \in Seq(Step) /\ log \in Seq(FileLines)
  BY DEF TypeInv, TypeOK
<1>2. ASSUME NEW i \in DOMAIN steps
      PROVE  /\ steps[i] \in Step
             /\ steps[i].source_line \in Nat
             /\ steps[i].observation \in Seq(Result)
  <2>1. steps[i] \in Step
    BY <1>1
  <2> QED
    BY <2>1, BoundAssumption DEF Step
<1>3. ASSUME NEW i \in DOMAIN steps, NEW j \in DOMAIN steps[i].observation
      PROVE  steps[i].observation[j] \in Result /\ steps[i].observation[j].line \in Nat
  <2>1. steps[i].observation[j] \in Result
    BY <1>2
  <2> QED
    BY <2>1, BoundAssumption DEF Result
<1> QED
  BY <1>1, <1>2, <1>3 DEF line_number

\* An action that leaves the trajectory and the call table alone keeps all but
\* LineOrder as it is.
LEMMA TrajectoryUnchanged ==
    ASSUME CallTable, Delivered, UNCHANGED <<steps, tool_call_steps>>
    PROVE  CallTable' /\ Delivered'
BY DEF CallTable, Delivered, LatestAt, MakesCall

\* Reading a line leaves the trajectory behind it.
LEMMA CorrelationLine ==
    ASSUME TypeInv, CorrelationInv, NEW l \in FileLines, SkipLine(l) \/ Raise(l) \/ ReadRecord(l)
    PROVE  CorrelationInv'
<1>1. /\ pc = "reading" /\ log' = Append(log, l)
      /\ UNCHANGED <<steps, tool_call_steps, tool_results>>
  BY DEF SkipLine, Raise, MalformedLine, NonObjectLine, UnsupportedType, NoMessage,
         UnsupportedRole, UnhashableType, UnhashableRole, SupportedRecord, ReadLine, ReadRecord,
         local, output
<1>2. line_number' = line_number + 1
  BY <1>1 DEF TypeInv, TypeOK, line_number
<1>3. tool_results' = <<>>
  BY <1>1 DEF TypeInv, LocalsOK
<1>4. LineOrder'
  BY <1>1, <1>2, <1>3, StepFields DEF CorrelationInv, LineOrder
<1> QED
  BY <1>1, <1>4, TrajectoryUnchanged DEF CorrelationInv

\* A block that is parsed leaves the trajectory as it is.
LEMMA CorrelationBlock ==
    ASSUME TypeInv, CorrelationInv, NextBlock
    PROVE  CorrelationInv'
<1>1. /\ pc = "record" /\ pc' = pc /\ log' = log
      /\ UNCHANGED <<steps, tool_call_steps>>
  BY DEF NextBlock, TextBlock, ToolUseBlock, ToolResultBlock, MisplacedToolBlock,
         MalformedBlock, UnknownBlock, ParseBlock, output
<1>2. line_number' = line_number /\ record' = record
  BY <1>1 DEF line_number, record
<1>3. \/ tool_results' = tool_results
      \/ \E r : r.line = line_number /\ tool_results' = Append(tool_results, r)
  BY DEF NextBlock, TextBlock, ToolUseBlock, ToolResultBlock, MisplacedToolBlock,
         MalformedBlock, UnknownBlock, CountUnsupportedBlock
<1>4. \A q \in DOMAIN tool_results' : tool_results'[q].line = line_number
  <2>1. tool_results \in Seq(Result)
    BY DEF TypeInv, TypeOK
  <2>2. \A q \in DOMAIN tool_results : tool_results[q].line = line_number
    BY <1>1 DEF CorrelationInv, LineOrder
  <2>3. CASE tool_results' = tool_results
    BY <2>2, <2>3
  <2>4. ASSUME NEW r, r.line = line_number, tool_results' = Append(tool_results, r)
        PROVE  \A q \in DOMAIN tool_results' : tool_results'[q].line = line_number
    <3>1. \A q \in DOMAIN tool_results' : tool_results'[q] = r \/ (q \in DOMAIN tool_results /\ tool_results'[q] = tool_results[q])
      BY <2>1, <2>4
    <3> QED
      BY <2>2, <2>4, <3>1
  <2> QED
    BY <1>3, <2>3, <2>4
<1>5. LineOrder'
  BY <1>1, <1>2, <1>4 DEF CorrelationInv, LineOrder
<1> QED
  BY <1>1, <1>5, TrajectoryUnchanged DEF CorrelationInv

-----------------------------------------------------------------------------
\* Appending a step leaves every other where it is.
LEMMA AppendStep ==
    ASSUME TypeInv, NEW s, steps' = Append(steps, s)
    PROVE  /\ Len(steps') = Len(steps) + 1 /\ DOMAIN steps' = 1 .. Len(steps) + 1
           /\ steps'[Len(steps) + 1] = s
           /\ \A i \in DOMAIN steps : i \in DOMAIN steps' /\ i # Len(steps) + 1 /\ steps'[i] = steps[i]
BY StepFields

\* A step without results, of the line at hand, keeps Delivered whatever calls it
\* makes, if the results already delivered are from lines before it.
LEMMA DeliveredAppend ==
    ASSUME TypeInv, Delivered, NEW s, steps' = Append(steps, s),
           s.observation = <<>>,
           \A i \in DOMAIN steps : \A j \in DOMAIN steps[i].observation :
              s.source_line > steps[i].observation[j].line \/ s.tool_calls = <<>>
    PROVE  Delivered'
<1> SUFFICES ASSUME NEW i \in DOMAIN steps', NEW j \in DOMAIN steps'[i].observation
             PROVE  LatestAt(i, j)'
  BY DEF Delivered
<1>1. i \in DOMAIN steps /\ steps'[i] = steps[i] /\ j \in DOMAIN steps[i].observation
  BY AppendStep, StepFields
<1>2. LatestAt(i, j)
  BY <1>1 DEF Delivered
<1> DEFINE r == steps[i].observation[j]
<1>3. ASSUME NEW k \in i + 1 .. Len(steps'), MakesCall(k, r.source_call_id)'
      PROVE  steps'[k].source_line > r.line
  <2>1. CASE k \in DOMAIN steps
    BY <1>1, <1>2, <1>3, <2>1, AppendStep, StepFields, SMTT(30) DEF LatestAt, MakesCall
  <2>2. CASE k = Len(steps) + 1
    BY <1>1, <1>3, <2>2, AppendStep DEF MakesCall
  <2> QED
    BY <1>1, <1>3, <2>1, <2>2, AppendStep, StepFields
<1> QED
  BY <1>1, <1>2, <1>3 DEF LatestAt, MakesCall

\* The step of an assistant record becomes the latest caller of its ids.
LEMMA CorrelationAssistant ==
    ASSUME TypeInv, CorrelationInv, ConvertAssistant
    PROVE  CorrelationInv'
<1>1. /\ pc = "record" /\ record.role = "assistant" /\ pc' = "reading" /\ log' = log
      /\ line_number' = line_number /\ tool_results' = <<>>
  BY DEF ConvertAssistant, BlocksParsed, EndRecord, ResetLocals, line_number
<1>2. PICK metrics : steps' = Append(steps, NewStep("agent", record.id, metrics))
  BY DEF ConvertAssistant
<1> DEFINE s == NewStep("agent", record.id, metrics)
<1> PICK n : n = Len(steps) + 1
  OBVIOUS
<1>3. s.observation = <<>> /\ s.source_line = line_number /\ s.tool_calls = tool_calls
  BY DEF NewStep
<1>4. tool_call_steps' = Extend(tool_call_steps, {tool_calls[c] : c \in DOMAIN tool_calls}, n)
  BY DEF ConvertAssistant
<1>5. /\ steps'[n] = s /\ DOMAIN steps' = 1 .. n /\ Len(steps') = n
      /\ \A i \in DOMAIN steps : i \in DOMAIN steps' /\ i # n /\ steps'[i] = steps[i]
      /\ n \in Nat /\ DOMAIN steps = 1 .. n - 1
  <2>1. steps' = Append(steps, s)
    BY <1>2
  <2> HIDE DEF s
  <2> QED
    BY <2>1, AppendStep, StepFields
<1> HIDE DEF s
<1>6. ASSUME NEW id
      PROVE  MakesCall(n, id)' <=> id \in {tool_calls[c] : c \in DOMAIN tool_calls}
  BY <1>3, <1>5 DEF MakesCall
<1>7. \A i \in DOMAIN steps : \A id : MakesCall(i, id)' <=> MakesCall(i, id)
  BY <1>5 DEF MakesCall
<1>8. CallTable'
  <2>1. ASSUME NEW id \in DOMAIN tool_call_steps'
        PROVE  MakesCall(tool_call_steps[id], id)'
    <3> DEFINE made == {tool_calls[c] : c \in DOMAIN tool_calls}
    <3>1. CASE id \in made
      <4>1. tool_call_steps'[id] = n
        BY <1>4, <2>1, <3>1 DEF Extend
      <4> QED
        BY <1>3, <1>5, <3>1, <4>1 DEF MakesCall
    <3>2. CASE id \notin made
      <4>1. id \in DOMAIN tool_call_steps /\ tool_call_steps'[id] = tool_call_steps[id]
        BY <1>4, <2>1, <3>2 DEF Extend
      <4>2. MakesCall(tool_call_steps[id], id) /\ tool_call_steps[id] \in DOMAIN steps
        BY <4>1 DEF CorrelationInv, CallTable, TypeInv, TypeOK
      <4> QED
        BY <1>5, <4>1, <4>2 DEF MakesCall
    <3> QED
      BY <3>1, <3>2
  <2>2. ASSUME NEW i \in DOMAIN steps', NEW id \in CallIds, MakesCall(i, id)'
        PROVE  id \in DOMAIN tool_call_steps' /\ i <= tool_call_steps'[id]
    <3>1. CASE i = n
      <4>1. id \in {tool_calls[c] : c \in DOMAIN tool_calls}
        BY <1>6, <2>2, <3>1
      <4> QED
        BY <1>4, <1>5, <3>1, <4>1 DEF Extend
    <3>2. CASE i # n
      <4>1. i \in DOMAIN steps /\ MakesCall(i, id)
        BY <1>5, <1>7, <2>2, <3>2
      <4>2. id \in DOMAIN tool_call_steps /\ i <= tool_call_steps[id]
        BY <4>1 DEF CorrelationInv, CallTable
      <4>3. id \in DOMAIN tool_call_steps' /\ tool_call_steps'[id] \in {n, tool_call_steps[id]}
        BY <4>2, <1>4 DEF Extend
      <4>4. i \in 1 .. n - 1
        BY <4>1, <1>5
      <4> QED
        BY <4>2, <4>3, <4>4, <1>5
    <3> QED
      BY <3>1, <3>2
  <2> QED
    BY <2>1, <2>2 DEF CallTable
<1>9. LineOrder'
  BY <1>1, <1>3, <1>5, StepFields DEF CorrelationInv, LineOrder
<1>10. Delivered'
  <2>1. \A i \in DOMAIN steps : \A j \in DOMAIN steps[i].observation :
           s.source_line > steps[i].observation[j].line
    BY <1>1, <1>3, StepFields DEF CorrelationInv, LineOrder
  <2>2. steps' = Append(steps, s)
    BY <1>2 DEF s
  <2> QED
    BY <1>3, <2>1, <2>2, DeliveredAppend DEF CorrelationInv
<1> QED
  BY <1>8, <1>9, <1>10 DEF CorrelationInv

\* The step of any other record makes no call.
LEMMA CorrelationTurn ==
    ASSUME TypeInv, CorrelationInv, ConvertUserOrSystem
    PROVE  CorrelationInv'
<1>1. /\ pc = "record" /\ record.role # "assistant" /\ pc' = "reading" /\ log' = log
      /\ line_number' = line_number /\ tool_results' = <<>> /\ tool_call_steps' = tool_call_steps
  BY DEF ConvertUserOrSystem, BlocksParsed, EndRecord, ResetLocals, line_number
<1> DEFINE s == NewStep(record.role, NoMessageId, NoUsage)
<1>2. s.observation = <<>> /\ s.source_line = line_number /\ s.tool_calls = <<>>
  BY <1>1 DEF NewStep, TypeInv, LocalsOK
<1>3. steps' = steps \/ steps' = Append(steps, s)
  BY DEF ConvertUserOrSystem
<1> HIDE DEF s
<1>4. CASE steps' = steps
  <2>1. LineOrder'
    BY <1>1, <1>4, StepFields DEF CorrelationInv, LineOrder
  <2> QED
    BY <1>1, <1>4, <2>1, TrajectoryUnchanged DEF CorrelationInv
<1>5. CASE steps' = Append(steps, s)
  <2> PICK n : n = Len(steps) + 1
    OBVIOUS
  <2>1. /\ steps'[n] = s /\ DOMAIN steps' = 1 .. n
        /\ \A i \in DOMAIN steps : i \in DOMAIN steps' /\ i # n /\ steps'[i] = steps[i]
        /\ n \in Nat /\ DOMAIN steps = 1 .. n - 1
    BY <1>5, AppendStep, StepFields
  <2>2. ASSUME NEW i \in DOMAIN steps', NEW id, MakesCall(i, id)'
        PROVE  i \in DOMAIN steps /\ MakesCall(i, id)
    BY <1>2, <2>1, <2>2 DEF MakesCall
  <2>3. ASSUME NEW i \in DOMAIN steps, NEW id, MakesCall(i, id)
        PROVE  MakesCall(i, id)'
    BY <2>1, <2>3 DEF MakesCall
  <2>4. CallTable'
    <3>1. ASSUME NEW id \in DOMAIN tool_call_steps'
          PROVE  MakesCall(tool_call_steps[id], id)'
      <4>1. MakesCall(tool_call_steps[id], id) /\ tool_call_steps[id] \in DOMAIN steps
        BY <1>1 DEF CorrelationInv, CallTable, TypeInv, TypeOK
      <4> QED
        BY <1>1, <2>1, <4>1 DEF MakesCall
    <3>2. ASSUME NEW i \in DOMAIN steps', NEW id \in CallIds, MakesCall(i, id)'
          PROVE  id \in DOMAIN tool_call_steps' /\ i <= tool_call_steps'[id]
      BY <1>1, <2>2, <3>2 DEF CorrelationInv, CallTable
    <3> QED
      BY <3>1, <3>2 DEF CallTable
  <2>5. LineOrder'
    BY <1>1, <1>2, <2>1, StepFields DEF CorrelationInv, LineOrder
  <2>6. Delivered'
    BY <1>2, <1>5, DeliveredAppend DEF CorrelationInv
  <2> QED
    BY <2>4, <2>5, <2>6 DEF CorrelationInv
<1> QED
  BY <1>3, <1>4, <1>5

\* What AttachResult does to the trajectory.
LEMMA AttachEffect ==
    ASSUME TypeInv, AttachResult,
           NEW s, s = tool_call_steps[NextResult.source_call_id]
    PROVE  /\ NextResult \in Result /\ NextResult.source_call_id \in CallIds
           /\ attached + 1 \in DOMAIN tool_results
           /\ s \in DOMAIN steps /\ DOMAIN steps' = DOMAIN steps /\ Len(steps') = Len(steps)
           /\ steps' \in Seq(Step)
           /\ \A i \in DOMAIN steps : i # s => steps'[i] = steps[i]
           /\ steps'[s] = [steps[s] EXCEPT !.observation = Append(@, NextResult)]
           /\ steps'[s].observation = Append(steps[s].observation, NextResult)
           /\ \A i \in DOMAIN steps : /\ steps'[i].tool_calls = steps[i].tool_calls
                                     /\ steps'[i].source_line = steps[i].source_line
<1>1. /\ attached < Len(tool_results) /\ NextResult.source_call_id \in DOMAIN tool_call_steps
      /\ steps' = [steps EXCEPT ![s].observation = Append(@, NextResult)]
  BY DEF AttachResult, TreatResult, Observe
<1>2. tool_results \in Seq(Result) /\ attached \in 0 .. Len(tool_results)
  BY DEF TypeInv, TypeOK
<1>3. NextResult \in Result /\ attached + 1 \in DOMAIN tool_results
  BY <1>1, <1>2 DEF NextResult
<1>4. NextResult.source_call_id \in CallIds /\ s \in DOMAIN steps
  BY <1>1 DEF TypeInv, TypeOK
<1>5. steps[s] \in Step
  BY <1>4, StepFields
<1>6. steps' = [steps EXCEPT ![s] = [steps[s] EXCEPT !.observation = Append(@, NextResult)]]
  BY <1>1, <1>4
<1>7. /\ steps'[s] = [steps[s] EXCEPT !.observation = Append(@, NextResult)]
      /\ DOMAIN steps' = DOMAIN steps
      /\ \A i \in DOMAIN steps : i # s => steps'[i] = steps[i]
  BY <1>4, <1>6
<1>8. /\ steps'[s].observation = Append(steps[s].observation, NextResult)
      /\ steps'[s].tool_calls = steps[s].tool_calls
      /\ steps'[s].source_line = steps[s].source_line
  BY <1>5, <1>7 DEF Step
<1>9. steps' \in Seq(Step) /\ Len(steps') = Len(steps)
  <2>1. TypeInv'
    BY TypeInvResult
  <2>2. steps' \in Seq(Step) /\ steps \in Seq(Step)
    BY <2>1 DEF TypeInv, TypeOK
  <2> QED
    BY <2>2, <1>7
<1> QED
  BY <1>3, <1>4, <1>7, <1>8, <1>9

\* A result goes to the step that the table names.
LEMMA CorrelationAttach ==
    ASSUME TypeInv, CorrelationInv, AttachResult
    PROVE  CorrelationInv'
<1>1. /\ pc = "record" /\ record.role # "assistant" /\ UNCHANGED <<pc, log, tool_results, tool_call_steps>>
  BY DEF AttachResult, TreatResult, BlocksParsed
<1>2. line_number' = line_number /\ record' = record
  BY <1>1 DEF line_number, record
<1> PICK s : s = tool_call_steps[NextResult.source_call_id]
  OBVIOUS
<1> PICK r : r = NextResult
  OBVIOUS
<1>3. /\ r \in Result /\ r.source_call_id \in CallIds /\ attached + 1 \in DOMAIN tool_results
      /\ s \in DOMAIN steps /\ DOMAIN steps' = DOMAIN steps /\ Len(steps') = Len(steps)
      /\ \A i \in DOMAIN steps : i # s => steps'[i] = steps[i]
      /\ steps'[s].observation = Append(steps[s].observation, r)
      /\ \A i \in DOMAIN steps : /\ steps'[i].tool_calls = steps[i].tool_calls
                                /\ steps'[i].source_line = steps[i].source_line
  <2>1. /\ NextResult \in Result /\ NextResult.source_call_id \in CallIds
        /\ attached + 1 \in DOMAIN tool_results
        /\ s \in DOMAIN steps /\ DOMAIN steps' = DOMAIN steps /\ Len(steps') = Len(steps)
    BY AttachEffect
  <2>2. \A i \in DOMAIN steps : i # s => steps'[i] = steps[i]
    <3>1. steps' = [steps EXCEPT ![s].observation = Append(@, NextResult)]
      BY DEF AttachResult, Observe
    <3> QED
      BY <3>1
  <2>4. steps'[s].observation = Append(steps[s].observation, NextResult)
    BY AttachEffect
  <2>3. \A i \in DOMAIN steps : /\ steps'[i].tool_calls = steps[i].tool_calls
                              /\ steps'[i].source_line = steps[i].source_line
    BY AttachEffect
  <2> QED
    BY <2>1, <2>2, <2>3, <2>4
<1>4. r.source_call_id \in DOMAIN tool_call_steps /\ s = tool_call_steps[r.source_call_id]
  BY DEF AttachResult
<1>5. r.line = line_number /\ record.role = "user"
  <2>1. r = tool_results[attached + 1]
    BY DEF NextResult
  <2>2. tool_results # <<>>
    BY <1>3
  <2> QED
    BY <1>1, <1>3, <2>1, <2>2 DEF CorrelationInv, LineOrder, TypeInv, LocalsOK
<1>6. ASSUME NEW i, NEW j \in DOMAIN steps'[i].observation, i \in DOMAIN steps
      PROVE  \/ j \in DOMAIN steps[i].observation /\ steps'[i].observation[j] = steps[i].observation[j]
             \/ i = s /\ steps'[i].observation[j] = r
  <2>1. CASE i # s
    BY <1>3, <1>6, <2>1
  <2>2. CASE i = s
    <3>1. steps[s].observation \in Seq(Result)
      BY <1>3, StepFields
    <3> QED
      BY <1>3, <1>6, <2>2, <3>1, SMTT(30)
  <2> QED
    BY <2>1, <2>2
<1>7. ASSUME NEW i \in DOMAIN steps, NEW id
      PROVE  MakesCall(i, id)' <=> MakesCall(i, id)
  BY <1>3 DEF MakesCall
<1>8. CallTable'
  <2>1. ASSUME NEW id \in DOMAIN tool_call_steps'
        PROVE  MakesCall(tool_call_steps[id], id)'
    <3>1. MakesCall(tool_call_steps[id], id) /\ tool_call_steps[id] \in DOMAIN steps
      BY <1>1 DEF CorrelationInv, CallTable, TypeInv, TypeOK
    <3> QED
      BY <1>1, <1>3, <3>1 DEF MakesCall
  <2>2. ASSUME NEW i \in DOMAIN steps', NEW id \in CallIds, MakesCall(i, id)'
        PROVE  id \in DOMAIN tool_call_steps' /\ i <= tool_call_steps'[id]
    BY <1>1, <1>3, <1>7, <2>2 DEF CorrelationInv, CallTable
  <2> QED
    BY <2>1, <2>2 DEF CallTable
<1>9. LineOrder'
  <2>1. ASSUME NEW i \in DOMAIN steps'
        PROVE  steps'[i].source_line <= line_number /\ steps'[i].source_line < line_number
    BY <1>1, <1>3, StepFields DEF CorrelationInv, LineOrder
  <2>2. ASSUME NEW i \in DOMAIN steps', NEW j \in DOMAIN steps'[i].observation
        PROVE  steps'[i].observation[j].line <= line_number
    <3>1. CASE j \in DOMAIN steps[i].observation /\ steps'[i].observation[j] = steps[i].observation[j]
      BY <1>3, <2>2, <3>1 DEF CorrelationInv, LineOrder
    <3>2. CASE steps'[i].observation[j] = r
      BY <1>5, <3>2, StepFields
    <3> QED
      BY <1>3, <1>6, <2>2, <3>1, <3>2
  <2>3. \A q \in DOMAIN tool_results' : tool_results'[q].line = line_number
    BY <1>1 DEF CorrelationInv, LineOrder
  <2> QED
    BY <1>1, <1>2, <1>5, <2>1, <2>2, <2>3 DEF LineOrder
<1>10. Delivered'
  <2> SUFFICES ASSUME NEW i \in DOMAIN steps', NEW j \in DOMAIN steps'[i].observation
               PROVE  LatestAt(i, j)'
    BY DEF Delivered
  <2>1. i \in DOMAIN steps
    BY <1>3
  <2>2. CASE j \in DOMAIN steps[i].observation /\ steps'[i].observation[j] = steps[i].observation[j]
    <3>1. LatestAt(i, j)
      BY <2>1, <2>2 DEF CorrelationInv, Delivered
    <3> PICK q : q = steps[i].observation[j]
      OBVIOUS
    <3>2. /\ MakesCall(i, q.source_call_id) /\ steps[i].source_line < q.line
          /\ \A k \in i + 1 .. Len(steps) : MakesCall(k, q.source_call_id) => steps[k].source_line > q.line
      BY <3>1 DEF LatestAt
    <3>3. \A k \in i + 1 .. Len(steps) : k \in DOMAIN steps
      BY <2>1, StepFields
    <3>4. /\ MakesCall(i, q.source_call_id)' /\ steps'[i].source_line < q.line
          /\ \A k \in i + 1 .. Len(steps') : MakesCall(k, q.source_call_id)' => steps'[k].source_line > q.line
      BY <1>3, <2>1, <3>2, <3>3 DEF MakesCall
    <3> QED
      BY <2>2, <3>4 DEF LatestAt, MakesCall
  <2>3. CASE i = s /\ steps'[i].observation[j] = r
    <3>1. MakesCall(s, r.source_call_id) /\ steps[s].source_line < r.line
      BY <1>1, <1>3, <1>4, <1>5 DEF CorrelationInv, CallTable, LineOrder
    <3>2. ASSUME NEW k \in s + 1 .. Len(steps) PROVE ~MakesCall(k, r.source_call_id)
      <4>1. k \in DOMAIN steps /\ ~(k <= s)
        BY <1>3, StepFields
      <4> QED
        BY <1>3, <1>4, <4>1 DEF CorrelationInv, CallTable
    <3>3. \A k \in s + 1 .. Len(steps) : k \in DOMAIN steps
      BY <1>3, StepFields
    <3>4. /\ MakesCall(s, r.source_call_id)' /\ steps'[s].source_line < r.line
          /\ \A k \in s + 1 .. Len(steps') : ~MakesCall(k, r.source_call_id)'
      <4>1. s \in DOMAIN steps /\ Len(steps') = Len(steps)
        BY <1>3
      <4>2. MakesCall(s, r.source_call_id)'
        BY <1>3, <3>1, <4>1 DEF MakesCall
      <4>3. steps'[s].source_line < r.line
        BY <1>3, <3>1, <4>1
      <4>4. ASSUME NEW k \in s + 1 .. Len(steps') PROVE ~MakesCall(k, r.source_call_id)'
        <5>1. k \in s + 1 .. Len(steps) /\ k \in DOMAIN steps
          BY <3>3, <4>1, <4>4
        <5>2. ~MakesCall(k, r.source_call_id) /\ steps'[k].tool_calls = steps[k].tool_calls
          BY <1>3, <3>2, <5>1
        <5> QED
          BY <5>2 DEF MakesCall
      <4> QED
        BY <4>2, <4>3, <4>4
    <3> QED
      BY <2>3, <3>4 DEF LatestAt, MakesCall
  <2> QED
    BY <1>6, <2>1, <2>2, <2>3
<1> QED
  BY <1>8, <1>9, <1>10 DEF CorrelationInv

\* So every step of the parser keeps the correlation.
LEMMA CorrelationStep ==
    TypeInv /\ CorrelationInv /\ [AnyNext]_vars => CorrelationInv'
<1> SUFFICES ASSUME TypeInv, CorrelationInv, [AnyNext]_vars PROVE CorrelationInv'
  OBVIOUS
<1>1. ASSUME NEW l \in FileLines, SkipLine(l) \/ Raise(l) \/ ReadRecord(l) PROVE CorrelationInv'
  BY <1>1, CorrelationLine
<1>2. CASE NextBlock
  BY <1>2, CorrelationBlock
<1>3. CASE AttachResult
  BY <1>3, CorrelationAttach
<1>4. CASE ConvertAssistant
  BY <1>4, CorrelationAssistant
<1>5. CASE ConvertUserOrSystem
  BY <1>5, CorrelationTurn
<1>6. CASE OrphanResult \/ EndOfFile \/ UNCHANGED vars
  <2>1. /\ UNCHANGED <<log, steps, tool_call_steps, tool_results>>
        /\ pc' = pc \/ (pc = "reading" /\ pc' \in {"done", "rejected"})
    BY <1>6 DEF OrphanResult, EndOfFile, TreatResult, vars, local, output
  <2>2. LineOrder'
    BY <2>1 DEF CorrelationInv, LineOrder, line_number, record
  <2> QED
    BY <2>1, <2>2, TrajectoryUnchanged DEF CorrelationInv
<1> QED
  BY <1>1, <1>2, <1>3, <1>4, <1>5, <1>6 DEF AnyNext

\* The correlation holds always.
LEMMA CorrelationInvariance == Spec => []CorrelationInv
  BY CorrelationInit, CorrelationStep, TypeInvariance, AnyFile, PTL

\* Every delivered result sits at an earlier step that made its call, the latest
\* that had when the result was read.
THEOREM ResultsAtLatestCall == Spec => []ResultAtLatestCall
<1>1. CorrelationInv => ResultAtLatestCall
  BY DeliveredIsLatest DEF CorrelationInv
<1> QED
  BY <1>1, CorrelationInvariance, PTL

-----------------------------------------------------------------------------
\* What a step of the parser may do to the trajectory.
GrowStep ==
    /\ Len(steps) <= Len(steps')
    /\ \A i \in DOMAIN steps :
          \/ steps'[i] = steps[i]
          \/ \E r \in Result : steps'[i] = [steps[i] EXCEPT !.observation = Append(@, r)]

\* A step at the end leaves the others as they are.
LEMMA AppendGrows ==
    ASSUME TypeInv, NEW s, steps' = Append(steps, s)
    PROVE  GrowStep
BY AppendStep, StepFields DEF GrowStep

\* A result at the end of a step leaves the rest as it is.
LEMMA AttachGrows ==
    ASSUME TypeInv, AttachResult
    PROVE  GrowStep
<1> PICK s : s = tool_call_steps[NextResult.source_call_id]
  OBVIOUS
<1>1. /\ NextResult \in Result /\ Len(steps') = Len(steps)
      /\ \A i \in DOMAIN steps : i # s => steps'[i] = steps[i]
      /\ steps'[s] = [steps[s] EXCEPT !.observation = Append(@, NextResult)]
  BY AttachEffect
<1>2. ASSUME NEW i \in DOMAIN steps
      PROVE  \/ steps'[i] = steps[i]
             \/ \E r \in Result : steps'[i] = [steps[i] EXCEPT !.observation = Append(@, r)]
  <2>1. CASE i = s
    <3>1. steps'[i] = [steps[i] EXCEPT !.observation = Append(@, NextResult)]
      BY <1>1, <2>1
    <3> QED
      BY <1>1, <3>1, Zenon
  <2> QED
    BY <1>1, <2>1
<1>3. Len(steps) <= Len(steps')
  BY <1>1, StepFields
<1> QED
  BY <1>2, <1>3, Zenon DEF GrowStep

\* So every step of the parser lets the trajectory grow only.
LEMMA StepGrows ==
    ASSUME TypeInv, [AnyNext]_vars
    PROVE  GrowStep \/ UNCHANGED steps
<1>1. ASSUME NEW l \in FileLines, SkipLine(l) \/ Raise(l) \/ ReadRecord(l) PROVE UNCHANGED steps
  BY <1>1 DEF SkipLine, Raise, MalformedLine, NonObjectLine, UnsupportedType, NoMessage,
              UnsupportedRole, UnhashableType, UnhashableRole, SupportedRecord, ReadLine,
              ReadRecord, output
<1>2. CASE NextBlock
  BY <1>2 DEF NextBlock, TextBlock, ToolUseBlock, ToolResultBlock, MisplacedToolBlock,
              MalformedBlock, UnknownBlock, ParseBlock, output
<1>3. CASE AttachResult
  BY <1>3, AttachGrows
<1>4. CASE OrphanResult
  BY <1>4 DEF OrphanResult
<1>5. CASE ConvertAssistant
  <2>1. PICK s : steps' = Append(steps, s)
    BY <1>5 DEF ConvertAssistant
  <2> QED
    BY <2>1, AppendGrows
<1>6. CASE ConvertUserOrSystem
  <2>1. steps' = steps \/ \E s : steps' = Append(steps, s)
    BY <1>6 DEF ConvertUserOrSystem
  <2> QED
    BY <2>1, AppendGrows
<1>7. CASE EndOfFile \/ UNCHANGED vars
  BY <1>7 DEF EndOfFile, vars, output
<1> QED
  BY <1>1, <1>2, <1>3, <1>4, <1>5, <1>6, <1>7 DEF AnyNext

\* A step of the trajectory only ever gains results, at the end and one at a time;
\* nothing in it is changed, moved or withdrawn.
THEOREM TrajectoryOnlyGrows == Spec => StepsOnlyGrow
<1>1. TypeInv /\ [AnyNext]_vars => [GrowStep]_steps
  BY StepGrows
<1> QED
  BY <1>1, TypeInvariance, AnyFile, PTL DEF StepsOnlyGrow, GrowStep

-----------------------------------------------------------------------------
\* The abstract state, as functions of the trajectory.
MadeBy(step) == {step.tool_calls[c] : c \in DOMAIN step.tool_calls}

Made(i) == {steps[i].tool_calls[c] : c \in DOMAIN steps[i].tool_calls}

Calls == [i \in DOMAIN steps |-> Made(i)]

Held == [i \in DOMAIN steps |-> steps[i].observation]

LostCount == fidelity["orphaned_tool_results"]

\* Counters that an action does not name keep the number of the lost.
LEMMA LostUnchanged ==
    ASSUME TypeInv, NEW S, fidelity' = Count(fidelity, S), "orphaned_tool_results" \notin S
    PROVE  LostCount' = LostCount
<1>1. fidelity \in [Counters -> Nat] /\ "orphaned_tool_results" \in Counters
  BY DEF TypeInv, TypeOK, Counters
<1> QED
  BY <1>1, CountEffect DEF LostCount

\* Append, as a function on an interval.
LEMMA AppendIsFunction ==
    ASSUME NEW n \in Nat, NEW S, NEW q \in Seq(S), Len(q) = n, NEW x
    PROVE  Append(q, x) = [i \in 1 .. n + 1 |-> IF i = n + 1 THEN x ELSE q[i]]
<1>1. q \in Seq(S \cup {x})
  OBVIOUS
<1>2. /\ Append(q, x) \in Seq(S \cup {x}) /\ Len(Append(q, x)) = n + 1
      /\ Append(q, x)[n + 1] = x
      /\ \A i \in 1 .. n : Append(q, x)[i] = q[i]
  BY <1>1
<1>3. Append(q, x) = [i \in 1 .. n + 1 |-> Append(q, x)[i]]
  <2>1. Append(q, x) \in [1 .. n + 1 -> S \cup {x}]
    BY <1>2, LenProperties
  <2> QED
    BY <2>1
<1> QED
  BY <1>2, <1>3

\* Appending a step appends its calls, and a step that has no results yet.
LEMMA AppendMapped ==
    ASSUME TypeInv, NEW s, steps' = Append(steps, s), s.observation = <<>>,
           NEW ids, ids = MadeBy(s)
    PROVE  Calls' = Append(Calls, ids) /\ Held' = Append(Held, <<>>)
<1> PICK n : n = Len(steps)
  OBVIOUS
<1>1. /\ n \in Nat /\ DOMAIN steps = 1 .. n /\ DOMAIN steps' = 1 .. n + 1
      /\ steps'[n + 1] = s
      /\ \A i \in 1 .. n : steps'[i] = steps[i]
  BY AppendStep, StepFields
<1>2. Calls \in Seq({Calls[i] : i \in 1 .. n}) /\ Len(Calls) = n
  BY <1>1 DEF Calls
<1>3. Held \in Seq({Held[i] : i \in 1 .. n}) /\ Len(Held) = n
  BY <1>1 DEF Held
<1>4. Append(Calls, ids) = [i \in 1 .. n + 1 |-> IF i = n + 1 THEN ids ELSE Calls[i]]
  BY <1>1, <1>2, AppendIsFunction
<1>5. Append(Held, <<>>) = [i \in 1 .. n + 1 |-> IF i = n + 1 THEN <<>> ELSE Held[i]]
  BY <1>1, <1>3, AppendIsFunction
<1>6. Calls' = [i \in 1 .. n + 1 |-> IF i = n + 1 THEN ids ELSE Calls[i]]
  BY <1>1 DEF Calls, Made, MadeBy
<1>7. Held' = [i \in 1 .. n + 1 |-> IF i = n + 1 THEN <<>> ELSE Held[i]]
  BY <1>1 DEF Held
<1> QED
  BY <1>4, <1>5, <1>6, <1>7

\* The callers of an id are the steps that made the call.
LEMMA CallersMapped ==
    ASSUME NEW id
    PROVE  Correlation!Callers(id) = {i \in DOMAIN steps : MakesCall(i, id)}
BY DEF Correlation!Callers, MakesCall

\* The parser starts where ToolCorrelation starts.
LEMMA RefineInit == Init => Correlation!Init
BY DEF Init, Correlation!Init, ZeroCounters, Counters

\* The end of an assistant record makes calls,
LEMMA RefineAssistant ==
    ASSUME TypeInv, ConvertAssistant
    PROVE  Correlation!Next
<1> PICK metrics : steps' = Append(steps, NewStep("agent", record.id, metrics))
  BY DEF ConvertAssistant
<1> PICK s : s = NewStep("agent", record.id, metrics)
  OBVIOUS
<1>1. steps' = Append(steps, s)
  OBVIOUS
<1> PICK ids : ids = {tool_calls[c] : c \in DOMAIN tool_calls}
  OBVIOUS
<1>2. s.observation = <<>> /\ ids = MadeBy(s)
  BY DEF NewStep, MadeBy
<1>3. ids \in SUBSET CallIds
  BY DEF TypeInv, TypeOK
<1>4. Calls' = Append(Calls, ids) /\ Held' = Append(Held, <<>>)
  BY <1>1, <1>2, AppendMapped
<1>5. LostCount' = LostCount
  <2>1. PICK S : fidelity' = Count(fidelity, S) /\ "orphaned_tool_results" \notin S
    BY DEF ConvertAssistant, EndRecord, UsageCounters
  <2> QED
    BY <2>1, LostUnchanged
<1>6. Correlation!AddStep(ids)
  BY <1>4, <1>5 DEF Correlation!AddStep, Calls, Made, Held, LostCount
<1> QED
  BY <1>3, <1>6 DEF Correlation!Next

\* that of any other record adds a step without calls or nothing,
LEMMA RefineTurn ==
    ASSUME TypeInv, ConvertUserOrSystem
    PROVE  Correlation!Next \/ UNCHANGED <<Calls, Held, LostCount>>
<1> DEFINE s == NewStep(record.role, NoMessageId, NoUsage)
<1>1. s.observation = <<>> /\ s.tool_calls = <<>>
  BY DEF ConvertUserOrSystem, BlocksParsed, NewStep, TypeInv, LocalsOK
<1>2. LostCount' = LostCount
  <2>1. PICK S : fidelity' = Count(fidelity, S) /\ "orphaned_tool_results" \notin S
    BY DEF ConvertUserOrSystem, EndRecord
  <2> QED
    BY <2>1, LostUnchanged
<1>3. CASE steps' = steps
  BY <1>2, <1>3 DEF Calls, Made, Held
<1>4. CASE steps' = Append(steps, s)
  <2>1. {} = MadeBy(s)
    BY <1>1 DEF MadeBy
  <2> HIDE DEF s
  <2>2. Calls' = Append(Calls, {}) /\ Held' = Append(Held, <<>>)
    BY <1>1, <1>4, <2>1, AppendMapped
  <2>3. Correlation!AddStep({})
    BY <1>2, <2>2 DEF Correlation!AddStep, Calls, Made, Held, LostCount
  <2> QED
    BY <2>3 DEF Correlation!Next
<1> QED
  BY <1>3, <1>4 DEF ConvertUserOrSystem

\* an attached result is delivered
LEMMA RefineAttach ==
    ASSUME TypeInv, CallTable, AttachResult
    PROVE  Correlation!Next
<1> PICK s : s = tool_call_steps[NextResult.source_call_id]
  OBVIOUS
<1> PICK r : r = NextResult
  OBVIOUS
<1>1. r \in Result /\ r.source_call_id \in CallIds /\ s \in DOMAIN steps
      /\ DOMAIN steps' = DOMAIN steps
  BY AttachEffect
<1>2. steps'[s].observation = Append(steps[s].observation, r)
  BY AttachEffect
<1>3. \A i \in DOMAIN steps : steps'[i].tool_calls = steps[i].tool_calls
  BY AttachEffect
<1>4. \A i \in DOMAIN steps : i # s => steps'[i] = steps[i]
  BY DEF AttachResult, Observe
<1>5. Calls' = Calls
  BY <1>1, <1>3 DEF Calls, Made
<1>6. Held' = [Held EXCEPT ![s] = Append(@, r)]
  BY <1>1, <1>2, <1>4 DEF Held
<1>7. LostCount' = LostCount
  <2>1. PICK S : fidelity' = Count(fidelity, S) /\ "orphaned_tool_results" \notin S
    BY DEF AttachResult
  <2> QED
    BY <2>1, LostUnchanged
<1>8. s \in Correlation!Callers(r.source_call_id)
      /\ \A k \in Correlation!Callers(r.source_call_id) : k <= s
  <2>1. r.source_call_id \in DOMAIN tool_call_steps /\ s = tool_call_steps[r.source_call_id]
    BY DEF AttachResult
  <2> QED
    BY <1>1, <2>1, CallersMapped DEF CallTable
<1>9. Correlation!Deliver(r)
  BY <1>5, <1>6, <1>7, <1>8 DEF Correlation!Deliver, Calls, Made, Held, LostCount
<1> QED
  BY <1>1, <1>9 DEF Correlation!Next

\* and an orphaned one is lost, as ToolCorrelation has it.
LEMMA RefineOrphan ==
    ASSUME TypeInv, CallTable, OrphanResult
    PROVE  Correlation!Next
<1> PICK r : r = NextResult
  OBVIOUS
<1>1. r \in Result /\ r.source_call_id \notin DOMAIN tool_call_steps /\ steps' = steps
      /\ fidelity' = Count(fidelity, {"orphaned_tool_results"})
  <2>1. tool_results \in Seq(Result) /\ attached \in 0 .. Len(tool_results)
        /\ attached < Len(tool_results)
    BY DEF TypeInv, TypeOK, OrphanResult, TreatResult
  <2> QED
    BY <2>1 DEF OrphanResult, NextResult
<1>2. Correlation!Callers(r.source_call_id) = {}
  <2>1. ASSUME NEW i \in DOMAIN steps, MakesCall(i, r.source_call_id) PROVE FALSE
    <3>1. steps[i].tool_calls \in Seq(CallIds)
      BY StepFields DEF Step
    <3>2. r.source_call_id \in CallIds
      BY <2>1, <3>1 DEF MakesCall
    <3> QED
      BY <1>1, <2>1, <3>2 DEF CallTable
  <2> QED
    BY <2>1, CallersMapped
<1>3. LostCount' = LostCount + 1
  <2>1. fidelity \in [Counters -> Nat] /\ "orphaned_tool_results" \in Counters
    BY DEF TypeInv, TypeOK, Counters
  <2> QED
    BY <1>1, <2>1, CountEffect DEF LostCount
<1>4. UNCHANGED <<Calls, Held>>
  BY <1>1 DEF Calls, Made, Held
<1>5. Correlation!Lose(r)
  BY <1>2, <1>3, <1>4 DEF Correlation!Lose, Calls, Made, Held, LostCount
<1> QED
  BY <1>1, <1>5 DEF Correlation!Next

\* Every step of the parser is one of ToolCorrelation or changes nothing there.
LEMMA RefineStep ==
    ASSUME TypeInv, CorrelationInv, [AnyNext]_vars
    PROVE  Correlation!Next \/ UNCHANGED <<Calls, Held, LostCount>>
<1>0. "orphaned_tool_results" \in Counters \ {"unsupported_source_blocks", "tool_calls_preserved"}
      /\ fidelity \in [Counters -> Nat]
  BY DEF Counters, TypeInv, TypeOK
<1>1. ASSUME NEW l \in FileLines, SkipLine(l) \/ Raise(l) PROVE UNCHANGED <<Calls, Held, LostCount>>
  <2>1. steps' = steps
    BY <1>1 DEF SkipLine, Raise, MalformedLine, NonObjectLine, UnsupportedType, NoMessage,
                UnsupportedRole, UnhashableType, UnhashableRole, SupportedRecord, ReadLine, output
  <2>2. LostCount' = LostCount
    BY <1>0, <1>1, LineCounters DEF LostCount
  <2> QED
    BY <2>1, <2>2 DEF Calls, Made, Held
<1>2. ASSUME NEW l \in FileLines, ReadRecord(l) PROVE UNCHANGED <<Calls, Held, LostCount>>
  <2>1. PICK S : fidelity' = Count(fidelity, S) /\ "orphaned_tool_results" \notin S
    BY <1>2 DEF ReadRecord, TimestampCounters, ContentCounters
  <2>2. LostCount' = LostCount
    BY <2>1, LostUnchanged
  <2>3. steps' = steps
    BY <1>2 DEF ReadRecord, output
  <2> QED
    BY <2>2, <2>3 DEF Calls, Made, Held
<1>3. CASE NextBlock
  <2>1. steps' = steps
    BY <1>3 DEF NextBlock, TextBlock, ToolUseBlock, ToolResultBlock, MisplacedToolBlock,
                MalformedBlock, UnknownBlock, ParseBlock, output
  <2>2. LostCount' = LostCount
    BY <1>0, <1>3, BlockCounters DEF LostCount
  <2> QED
    BY <2>1, <2>2 DEF Calls, Made, Held
<1>4. CASE AttachResult
  BY <1>4, RefineAttach DEF CorrelationInv
<1>5. CASE OrphanResult
  BY <1>5, RefineOrphan DEF CorrelationInv
<1>6. CASE ConvertAssistant
  BY <1>6, RefineAssistant
<1>7. CASE ConvertUserOrSystem
  BY <1>7, RefineTurn
<1>8. CASE EndOfFile \/ UNCHANGED vars
  BY <1>8 DEF EndOfFile, vars, output, Calls, Made, Held, LostCount
<1> QED
  BY <1>1, <1>2, <1>3, <1>4, <1>5, <1>6, <1>7, <1>8 DEF AnyNext

\* The parser implements ToolCorrelation: each of its steps delivers one result to
\* the latest caller, loses one that nobody called for, adds one step, or changes
\* nothing of these.
THEOREM ParserImplementsCorrelation == Spec => ImplementsCorrelation
<1>1. Init => Correlation!Init
  BY RefineInit
<1>2. TypeInv /\ CorrelationInv /\ [AnyNext]_vars =>
         [Correlation!Next]_<<Calls, Held, LostCount>>
  BY RefineStep
<1> QED
  BY <1>1, <1>2, TypeInvariance, CorrelationInvariance, AnyFile, PTL
     DEF ImplementsCorrelation, Correlation!Spec, Calls, Made, Held, LostCount
=============================================================================
