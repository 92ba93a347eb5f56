------------------------- MODULE ExplainSessionProofs -------------------------
(***************************************************************************)
(* What `explain` reports of a log, by way of the document: the outcomes   *)
(* of its calls, whether anything was lost, the tokens, and the checks     *)
(* that notice an edited document.  Three more invariants of the parser    *)
(* are needed: a step makes the calls of its line, the lists of losses are *)
(* empty exactly if nothing was lost, and usage without a response id is   *)
(* charged to its own step.                                                *)
(***************************************************************************)
EXTENDS ExplainSession, AccountingProofs

-----------------------------------------------------------------------------
(***************************************************************************)
(* The calls of a step.                                                    *)
(***************************************************************************)

IdsOf(calls) == {calls[c] : c \in DOMAIN calls}

\* The usable calls of the record at hand before its block n.
CallsBefore(n) ==
    {record.blocks[b].id : b \in {k \in DOMAIN record.blocks :
                                     /\ k < n /\ record.role = "assistant"
                                     /\ record.blocks[k].kind = "tool_use"
                                     /\ UsableCall(record.blocks[k])}}

\* The calls of step i are those of its line.
CallsOfLine(i) == \A n \in {steps[i].source_line} : IdsOf(steps[i].tool_calls) = CallsIn(n)

CallsInv ==
    /\ pc = "record" => IdsOf(tool_calls) = CallsBefore(at)
    /\ \A i \in DOMAIN steps : CallsOfLine(i)

\* A call at the end of the list is one id more.
LEMMA IdsAppended ==
    ASSUME NEW S, NEW calls \in Seq(S), NEW id \in S
    PROVE  IdsOf(Append(calls, id)) = IdsOf(calls) \cup {id}
<1> PICK more : more = Append(calls, id)
  OBVIOUS
<1> PICK n : n = Len(calls) + 1
  OBVIOUS
<1>1. /\ DOMAIN more = DOMAIN calls \cup {n} /\ more[n] = id
      /\ \A c \in DOMAIN calls : more[c] = calls[c]
  OBVIOUS
<1>2. IdsOf(more) = IdsOf(calls) \cup {id}
  BY <1>1 DEF IdsOf
<1> QED
  BY <1>2

\* Reading and parsing collect the calls of a record.
LEMMA CallsRead ==
    ASSUME TypeInv, CorrelationInv, CallsInv, [AnyNext]_vars, pc' = "record"
    PROVE  IdsOf(tool_calls') = CallsBefore(at)'
<1>1. ASSUME NEW l \in FileLines, ReadRecord(l) PROVE IdsOf(tool_calls') = CallsBefore(at)'
  <2>1. record' = l /\ at' = 1 /\ tool_calls' = <<>>
    BY <1>1, ReadEffect
  <2>2. \A b \in DOMAIN l.blocks : ~(b < 1)
    BY LineFields
  <2> QED
    BY <2>1, <2>2 DEF CallsBefore, IdsOf
<1>2. CASE NextBlock
  <2>1. /\ pc = "record" /\ log' = log /\ at \in 1 .. MaxBlocks /\ at <= Len(record.blocks)
        /\ at' = at + 1 /\ tool_calls \in Seq(CallIds)
    BY <1>2, BlockEffect DEF TypeInv, TypeOK
  <2>2. record' = record /\ at \in DOMAIN record.blocks /\ DOMAIN record.blocks \subseteq Nat
    <3>1. record.blocks \in Seq(Block)
      BY <2>1, RecordFields, LineFields
    <3> QED
      BY <2>1, <3>1 DEF record, line_number
  <2>3. \A b \in DOMAIN record.blocks : b < at + 1 <=> b < at \/ b = at
    BY <2>1, <2>2
  <2>4. block = record.blocks[at]
    BY DEF block
  <2> DEFINE usable == block.kind = "tool_use" /\ record.role = "assistant" /\ UsableCall(block)
  <2>5. CallsBefore(at)' = CallsBefore(at) \cup {id \in {block.id} : usable}
    BY <2>1, <2>2, <2>3, <2>4 DEF CallsBefore
  <2>6. CASE usable
    <3>1. tool_calls' = Append(tool_calls, block.id) /\ block.id \in CallIds
      BY <1>2, <2>6, BlockEffect DEF UsableCall
    <3>2. IdsOf(tool_calls') = IdsOf(tool_calls) \cup {block.id}
      BY <2>1, <3>1, IdsAppended
    <3> QED
      BY <2>1, <2>5, <2>6, <3>2 DEF CallsInv
  <2>7. CASE ~usable
    <3>1. tool_calls' = tool_calls
      BY <1>2, <2>7, BlockEffect
    <3> QED
      BY <2>1, <2>5, <2>7, <3>1 DEF CallsInv
  <2> QED
    BY <2>6, <2>7
<1>3. CASE AttachResult \/ OrphanResult
  <2>1. pc = "record" /\ UNCHANGED <<pc, log, at, tool_calls>>
    BY <1>3, ResultEffect
  <2> QED
    BY <2>1 DEF CallsInv, CallsBefore, record, line_number
<1>4. ASSUME NEW l \in FileLines, SkipLine(l) \/ Raise(l) PROVE FALSE
  BY <1>4, SkipEffect
<1>5. ~Finishing
  BY EndEffect DEF Finishing
<1>6. ~EndOfFile
  BY EndOfFileEffect
<1>7. CASE UNCHANGED vars
  BY <1>7 DEF vars, local, CallsInv, CallsBefore, record, line_number
<1> QED
  BY <1>1, <1>2, <1>3, <1>4, <1>5, <1>6, <1>7 DEF AnyNext, Finishing

\* When the record is finished, they are those of its line.
LEMMA CallsComplete ==
    ASSUME TypeInv, CorrelationInv, CallsInv, Finishing
    PROVE  IdsOf(tool_calls) = CallsIn(line_number)
<1>1. pc = "record" /\ at > Len(record.blocks) /\ at \in Nat /\ Converted(line_number)
  <2>1. at \in Nat
    BY BoundAssumption DEF TypeInv, TypeOK
  <2>2. pc = "record" /\ at > Len(record.blocks)
    BY EndEffect DEF Finishing
  <2> QED
    BY <2>1, <2>2 DEF TypeInv, LocalsOK
<1>2. \A b \in DOMAIN record.blocks : b < at
  <2>1. record.blocks \in Seq(Block)
    BY <1>1, RecordFields, LineFields
  <2> QED
    BY <1>1, <2>1
<1>3. record = log[line_number]
  BY DEF record
<1>4. IdsOf(tool_calls) = CallsBefore(at)
  BY <1>1 DEF CallsInv
<1>5. CallsBefore(at) = CallsIn(line_number)
  BY <1>1, <1>2, <1>3 DEF CallsBefore, CallsIn
<1> QED
  BY <1>4, <1>5

\* A step keeps its calls as the file keeps its lines.
LEMMA CallsStep ==
    ASSUME TypeInv, CorrelationInv, TurnsInv, CallsInv, [AnyNext]_vars
    PROVE  CallsInv'
<1>1. /\ line_number \in Nat
      /\ \A n \in 1 .. line_number : log'[n] = log[n] /\ (Converted(n)' <=> Converted(n))
  BY ParsedStep
<1>2. \A n \in 1 .. line_number : CallsIn(n)' = CallsIn(n)
  BY <1>1 DEF CallsIn
<1>3. \A i \in DOMAIN steps : steps[i].source_line \in 1 .. line_number
  <2>1. Turns \subseteq 1 .. line_number
    BY <1>1 DEF Turns, Finished
  <2> QED
    BY <2>1 DEF TurnsInv, TurnAt
<1>4. ASSUME NEW i \in DOMAIN steps, steps'[i].tool_calls = steps[i].tool_calls
      PROVE  CallsOfLine(i)'
  <2> PICK n : n = steps[i].source_line
    OBVIOUS
  <2>1. steps'[i].source_line = n /\ n \in 1 .. line_number
    BY <1>3, TurnEffect DEF TurnsInv
  <2>2. IdsOf(steps'[i].tool_calls) = CallsIn(n)'
    BY <1>2, <1>4, <2>1 DEF CallsInv, CallsOfLine
  <2> QED
    BY <2>1, <2>2 DEF CallsOfLine
<1>5. \A i \in DOMAIN steps' : CallsOfLine(i)'
  <2>1. CASE UNCHANGED steps
    BY <1>4, <2>1
  <2>2. CASE AttachResult
    <3>1. /\ DOMAIN steps' = DOMAIN steps
          /\ \A i \in DOMAIN steps : steps'[i].tool_calls = steps[i].tool_calls
      BY <2>2, AttachEffect
    <3> QED
      BY <1>4, <3>1
  <2>3. ASSUME Finishing, NEW s, steps' = Append(steps, s),
               s.tool_calls = tool_calls, s.source_line = line_number
        PROVE  \A i \in DOMAIN steps' : CallsOfLine(i)'
    <3> PICK n : n = Len(steps) + 1
      OBVIOUS
    <3>1. /\ DOMAIN steps' = DOMAIN steps \cup {n} /\ n \notin DOMAIN steps /\ steps'[n] = s
          /\ \A i \in DOMAIN steps : steps'[i] = steps[i]
      BY <2>3, AppendStep, StepFields
    <3> PICK m : m = line_number
      OBVIOUS
    <3>2. m \in 1 .. line_number
      <4>1. pc = "record"
        BY <2>3, EndEffect DEF Finishing
      <4>2. line_number \in 1 .. MaxLines
        BY <4>1, RecordFields
      <4> QED
        BY <1>1, <4>2, BoundAssumption
    <3>3. IdsOf(s.tool_calls) = CallsIn(m)'
      BY <1>2, <2>3, <3>2, CallsComplete
    <3>4. CallsOfLine(n)'
      BY <2>3, <3>1, <3>3 DEF CallsOfLine
    <3>5. \A i \in DOMAIN steps : CallsOfLine(i)'
      BY <1>4, <3>1
    <3> QED
      BY <3>1, <3>4, <3>5
  <2> QED
    BY <2>1, <2>2, <2>3, PlacesStep DEF Finishing
<1> QED
  BY <1>5, CallsRead DEF CallsInv

-----------------------------------------------------------------------------
(***************************************************************************)
(* The lists of losses: each is empty exactly if the part of the file that *)
(* was read has nothing to put in it.                                      *)
(***************************************************************************)

\* Block b of line n has a place in the trajectory, with all it contains.
Kept(n, b) ==
    LET block_n == log[n].blocks[b] IN
    \/ block_n.kind = "text" /\ block_n.valid
    \/ block_n.kind = "tool_use" /\ log[n].role = "assistant" /\ UsableCall(block_n)
    \/ block_n.kind = "tool_result" /\ log[n].role = "user" /\ DroppedItems(block_n.items) = 0

\* The content of line n is text or a list of blocks.
ContentKept(n) == Converted(n) => ~NonListContent(log[n])

NothingMissed ==
    /\ pc # "raised" => (DOMAIN breakdown.records = {} <=> \A n \in 1 .. line_number : Converted(n))
    /\ DOMAIN breakdown.blocks = {} <=> /\ \A n \in 1 .. line_number : ContentKept(n)
                                        /\ \A a \in Parsed : Kept(a[1], a[2])
    /\ \A f \in DOMAIN breakdown.fields : breakdown.fields[f] > 0

\* A list grows by a key with every entry.
LEMMA TallyKeys ==
    ASSUME NEW list, NEW k, NEW n
    PROVE  DOMAIN Tally(list, {k}, n) # {}
BY DEF Tally

\* What is missing from the step the parser takes.
LosesContent == \E l \in FileLines : ReadRecord(l) /\ NonListContent(l)

LosesBlock == NextBlock /\ ~Kept(line_number, at)

\* The line that is read decides of its content.
LEMMA ReadLoses ==
    ASSUME TypeInv, NEW l \in FileLines, ReadRecord(l)
    PROVE  LosesContent <=> NonListContent(l)
<1>1. ASSUME NEW k \in FileLines, ReadRecord(k) PROVE k = l
  <2>1. log' = Append(log, k) /\ log' = Append(log, l)
    BY <1>1, ReadEffect
  <2> QED
    BY <2>1, FileGrows
<1> QED
  BY <1>1 DEF LosesContent

\* The list of records grows by skipping a line, and by nothing else.
LEMMA RecordsMissed ==
    ASSUME TypeInv, CorrelationInv, [AnyNext]_vars
    PROVE  IF \E l \in FileLines : SkipLine(l) THEN DOMAIN breakdown'.records # {}
           ELSE breakdown'.records = breakdown.records
<1>0. IsBreakdown(breakdown)
  BY DEF TypeInv, TypeOK
<1>1. \A label, w, n : TallyBlocks(breakdown, label, w, n).records = breakdown.records
  BY DEF TallyBlocks
<1>2. ASSUME NEW l \in FileLines, SkipLine(l) PROVE DOMAIN breakdown'.records # {}
  <2>1. \E label, c : breakdown' = TallyRecord(breakdown, label, c)
    BY <1>2 DEF SkipLine, MalformedLine, NonObjectLine, UnsupportedType, NoMessage,
       UnsupportedRole, CountUnsupportedRecord
  <2>2. PICK k : breakdown'.records = Tally(breakdown.records, {k}, 1)
    BY <1>0, <2>1 DEF TallyRecord, IsBreakdown
  <2> QED
    BY <2>2, TallyKeys
<1>3. ASSUME \A l \in FileLines : ~SkipLine(l) PROVE breakdown'.records = breakdown.records
  <2>1. ASSUME NEW l \in FileLines, Raise(l) PROVE breakdown' = breakdown
    BY <2>1 DEF Raise, UnhashableType, UnhashableRole
  <2>2. ASSUME NEW l \in FileLines, ReadRecord(l) PROVE breakdown'.records = breakdown.records
    <3> PICK w : w = (l.content = "other")
      OBVIOUS
    <3> QED
      BY <1>1, <2>2 DEF ReadRecord
  <2>3. CASE NextBlock
    <3>1. breakdown' = breakdown \/ \E label, w, n : breakdown' = TallyBlocks(breakdown, label, w, n)
      BY <2>3 DEF NextBlock, TextBlock, ToolUseBlock, ToolResultBlock, MisplacedToolBlock,
         MalformedBlock, UnknownBlock, CountUnsupportedBlock, CountDroppedItems
    <3> QED
      BY <1>1, <3>1
  <2>4. CASE AttachResult \/ OrphanResult \/ EndOfFile \/ UNCHANGED vars
    BY <2>4, ResultEffect, EndOfFileEffect DEF vars
  <2>5. CASE Finishing
    <3>1. breakdown' = TallyFields(breakdown, record.ignored)
      BY <2>5, EndEffect DEF Finishing
    <3> QED
      BY <1>0, <3>1 DEF TallyFields, IsBreakdown
  <2> QED
    BY <1>3, <2>1, <2>2, <2>3, <2>4, <2>5 DEF AnyNext, Finishing
<1> QED
  BY <1>2, <1>3

\* The list of blocks grows by the content and the blocks that are not kept.
LEMMA BlocksMissed ==
    ASSUME TypeInv, CorrelationInv, [AnyNext]_vars
    PROVE  IF LosesContent \/ LosesBlock THEN DOMAIN breakdown'.blocks # {}
           ELSE breakdown'.blocks = breakdown.blocks
<1>0. IsBreakdown(breakdown)
  BY DEF TypeInv, TypeOK
<1>1. \A label, w, n : DOMAIN TallyBlocks(breakdown, label, w, n).blocks # {}
  BY TallyKeys DEF TallyBlocks
<1>2. ASSUME NEW l \in FileLines, SkipLine(l) \/ Raise(l) PROVE breakdown'.blocks = breakdown.blocks
  <2>1. breakdown' = breakdown \/ \E label, c : breakdown' = TallyRecord(breakdown, label, c)
    BY <1>2 DEF SkipLine, Raise, MalformedLine, NonObjectLine, UnsupportedType, NoMessage,
       UnsupportedRole, UnhashableType, UnhashableRole, CountUnsupportedRecord
  <2> QED
    BY <1>0, <2>1 DEF TallyRecord, IsBreakdown
<1>3. ASSUME NEW l \in FileLines, ReadRecord(l)
      PROVE  IF NonListContent(l) THEN DOMAIN breakdown'.blocks # {}
             ELSE breakdown'.blocks = breakdown.blocks
  <2> PICK w : w = (l.content = "other")
    OBVIOUS
  <2> QED
    BY <1>1, <1>3 DEF ReadRecord
<1>5. /\ LosesContent => pc = "reading" /\ pc' = "record"
      /\ LosesBlock => pc = "record" /\ pc' = "record" /\ at' # at
  <2>1. NextBlock => pc = "record" /\ pc' = pc /\ at' # at
    BY BlockEffect
  <2> QED
    BY <2>1, ReadEffect DEF LosesContent, LosesBlock
<1>4. CASE NextBlock
  <2>1. /\ block \in Block /\ record.role \in SupportedTypes
        /\ record = log[line_number] /\ block = record.blocks[at]
    <3>1. pc = "record" /\ at <= Len(record.blocks)
      BY <1>4, BlockEffect
    <3> QED
      BY <3>1, RecordFields DEF record, block
  <2>2. DroppedItems(block.items) \in Nat
    BY <2>1, DroppedItemsType DEF Block
  <2>3. Kept(line_number, at) <=>
           \/ block.kind = "text" /\ block.valid
           \/ block.kind = "tool_use" /\ record.role = "assistant" /\ UsableCall(block)
           \/ block.kind = "tool_result" /\ record.role = "user" /\ DroppedItems(block.items) = 0
    BY <2>1 DEF Kept
  <2>4. Kept(line_number, at) => breakdown' = breakdown
    <3>1. CASE block.kind = "text" /\ block.valid
      BY <1>4, <3>1 DEF NextBlock, TextBlock, ToolUseBlock, ToolResultBlock, MisplacedToolBlock,
         MalformedBlock, UnknownBlock
    <3>2. CASE block.kind = "tool_use" /\ record.role = "assistant" /\ UsableCall(block)
      BY <1>4, <3>2 DEF NextBlock, TextBlock, ToolUseBlock, ToolResultBlock, MisplacedToolBlock,
         MalformedBlock, UnknownBlock
    <3>3. CASE block.kind = "tool_result" /\ record.role = "user" /\ DroppedItems(block.items) = 0
      BY <1>4, <3>3 DEF NextBlock, TextBlock, ToolUseBlock, ToolResultBlock, MisplacedToolBlock,
         MalformedBlock, UnknownBlock, CountDroppedItems
    <3> QED
      BY <2>3, <3>1, <3>2, <3>3
  <2>5. ~Kept(line_number, at) => \E label, w, n : breakdown' = TallyBlocks(breakdown, label, w, n)
    <3>1. CASE TextBlock \/ ToolUseBlock
      BY <2>3, <3>1 DEF TextBlock, ToolUseBlock
    <3>2. CASE ToolResultBlock
      <4> PICK n \in Nat : n = DroppedItems(block.items)
        BY <2>2
      <4>1. /\ block.kind = "tool_result" /\ record.role = "user"
            /\ breakdown' = IF n > 0 THEN TallyBlocks(breakdown, <<"tool_result", "item">>, TRUE, n)
                                     ELSE breakdown
        BY <3>2 DEF ToolResultBlock, CountDroppedItems
      <4>2. n = 0 => Kept(line_number, at)
        BY <2>3, <4>1
      <4>3. n > 0 => \E label, w, m : breakdown' = TallyBlocks(breakdown, label, w, m)
        BY <4>1
      <4> QED
        BY <4>2, <4>3
    <3>3. CASE MisplacedToolBlock \/ MalformedBlock \/ UnknownBlock
      BY <3>3 DEF MisplacedToolBlock, MalformedBlock, UnknownBlock, CountUnsupportedBlock
    <3> QED
      BY <1>4, <3>1, <3>2, <3>3 DEF NextBlock
  <2> QED
    BY <1>1, <1>4, <1>5, <2>4, <2>5, BlockEffect DEF LosesBlock
<1>6. CASE AttachResult \/ OrphanResult \/ EndOfFile \/ Finishing \/ UNCHANGED vars
  <2>1. breakdown'.blocks = breakdown.blocks
    <3>1. CASE Finishing
      <4>1. breakdown' = TallyFields(breakdown, record.ignored)
        BY <3>1, EndEffect DEF Finishing
      <4> QED
        BY <1>0, <4>1 DEF TallyFields, IsBreakdown
    <3> QED
      BY <1>6, <3>1, ResultEffect, EndOfFileEffect DEF vars
  <2>2. \/ pc' = pc /\ at' = at
        \/ pc' \in {"reading", "done", "rejected"}
    BY <1>6, ResultEffect, EndOfFileEffect, EndEffect DEF Finishing, vars, local
  <2> QED
    BY <1>5, <2>1, <2>2
<1>7. CASE \E l \in FileLines : SkipLine(l) \/ Raise(l)
  <2>1. pc' \in {"reading", "raised"} /\ breakdown'.blocks = breakdown.blocks
    BY <1>2, <1>7, SkipEffect
  <2> QED
    BY <1>5, <2>1
<1>8. CASE \E l \in FileLines : ReadRecord(l)
  <2> PICK l \in FileLines : ReadRecord(l)
    BY <1>8
  <2>1. log' = Append(log, l) /\ pc = "reading"
    BY ReadEffect
  <2> QED
    BY <1>3, <1>5, <2>1, ReadLoses
<1> QED
  BY <1>4, <1>6, <1>7, <1>8 DEF AnyNext, Finishing

\* A step that reads no line keeps the file; one that ends in an error does not go on.
LEMMA OtherEffect ==
    ASSUME TypeInv, CorrelationInv, [AnyNext]_vars,
           ~\E l \in FileLines : SkipLine(l) \/ Raise(l) \/ ReadRecord(l)
    PROVE  log' = log /\ (pc = "raised" => pc' = "raised")
<1>1. CASE NextBlock
  BY <1>1, BlockEffect
<1>2. CASE AttachResult \/ OrphanResult \/ Finishing \/ EndOfFile \/ UNCHANGED vars
  BY <1>2, ResultEffect, EndEffect, EndOfFileEffect DEF Finishing, vars
<1> QED
  BY <1>1, <1>2 DEF AnyNext, Finishing

\* The lists grow as there is something to put in them.
LEMMA NothingMissedStep ==
    ASSUME TypeInv, CorrelationInv, NothingMissed, [AnyNext]_vars
    PROVE  NothingMissed'
<1>1. /\ line_number \in Nat
      /\ \A n \in 1 .. line_number : log'[n] = log[n] /\ (Converted(n)' <=> Converted(n))
      /\ Parsed' = Parsed \cup {p \in {<<line_number, at>>} : NextBlock}
  BY ParsedStep
<1>2. \A n \in 1 .. line_number : ContentKept(n)' <=> ContentKept(n)
  BY <1>1 DEF ContentKept
<1>3. \A a \in Parsed : Kept(a[1], a[2])' <=> Kept(a[1], a[2])
  <2>1. \A a \in Parsed : a[1] \in 1 .. line_number
    BY DEF Parsed, ParsedAt
  <2> QED
    BY <1>1, <2>1 DEF Kept
<1>4. LosesBlock => NextBlock
  BY DEF LosesBlock
<1>5. \A f \in DOMAIN breakdown'.fields : breakdown'.fields[f] > 0
  <2>1. IsTally(breakdown.fields) /\ \A f \in DOMAIN breakdown.fields : breakdown.fields[f] > 0
    BY DEF TypeInv, TypeOK, IsBreakdown, NothingMissed
  <2>2. \A f \in DOMAIN Tally(breakdown.fields, record.ignored, 1) :
           Tally(breakdown.fields, record.ignored, 1)[f] > 0
    BY <2>1 DEF Tally, IsTally
  <2> QED
    BY <2>1, <2>2, FieldsTallied
<1>6. CASE \E l \in FileLines : SkipLine(l) \/ Raise(l)
  <2> PICK l \in FileLines : SkipLine(l) \/ Raise(l)
    BY <1>6
  <2>1. /\ pc = "reading" /\ pc' \in {"reading", "raised"} /\ log' = Append(log, l)
        /\ ~Converted(line_number)'
    BY SkipEffect
  <2>2. line_number' = line_number + 1
    BY <2>1, FileGrows
  <2>3. pc' # "raised" => SkipLine(l)
    BY DEF Raise, UnhashableType, UnhashableRole
  <2>4. pc' # "raised" => DOMAIN breakdown'.records # {}
    BY <2>3, RecordsMissed
  <2>5. Parsed' = Parsed /\ ~NextBlock
    BY <1>1, <2>1, BlockEffect
  <2>6. ~LosesContent
    BY <2>1, ReadEffect DEF LosesContent
  <2>7. breakdown'.blocks = breakdown.blocks
    BY <1>4, <2>5, <2>6, BlocksMissed
  <2> PICK m : m = line_number + 1
    OBVIOUS
  <2>a. ~Converted(m)' /\ ContentKept(m)'
    BY <2>1, <2>2 DEF ContentKept, Converted, Supported
  <2>b. 1 .. line_number' = 1 .. line_number \cup {m}
    BY <1>1, <2>2
  <2>8. (\A n \in 1 .. line_number : ContentKept(n))' <=> \A n \in 1 .. line_number : ContentKept(n)
    BY <1>2, <2>a, <2>b
  <2>9. pc' # "raised" => ~(\A n \in 1 .. line_number : Converted(n))'
    BY <2>a, <2>b
  <2> QED
    BY <1>3, <1>5, <2>4, <2>5, <2>7, <2>8, <2>9 DEF NothingMissed
<1>7. CASE \E l \in FileLines : ReadRecord(l)
  <2> PICK l \in FileLines : ReadRecord(l)
    BY <1>7
  <2>1. /\ pc = "reading" /\ pc' = "record" /\ log' = Append(log, l)
        /\ Converted(line_number)'
    BY ReadEffect
  <2>2. line_number' = line_number + 1 /\ log'[line_number + 1] = l
    BY <2>1, FileGrows
  <2>3. ~NextBlock /\ ~\E k \in FileLines : SkipLine(k)
    BY <2>1, BlockEffect, SkipEffect
  <2>4. Parsed' = Parsed /\ breakdown'.records = breakdown.records
    BY <1>1, <2>3, RecordsMissed
  <2>5. LosesContent <=> NonListContent(l)
    BY ReadLoses
  <2>6. IF NonListContent(l) THEN DOMAIN breakdown'.blocks # {}
        ELSE breakdown'.blocks = breakdown.blocks
    BY <1>4, <2>3, <2>5, BlocksMissed
  <2> PICK m : m = line_number + 1
    OBVIOUS
  <2>a. Converted(m)' /\ (ContentKept(m)' <=> ~NonListContent(l))
    <3>1. Converted(m)'
      BY <2>1, <2>2 DEF Converted, Supported
    <3> QED
      BY <2>2, <3>1 DEF ContentKept
  <2>b. 1 .. line_number' = 1 .. line_number \cup {m}
    BY <1>1, <2>2
  <2>7. (\A n \in 1 .. line_number : ContentKept(n))' <=>
           ~NonListContent(l) /\ \A n \in 1 .. line_number : ContentKept(n)
    BY <1>2, <2>a, <2>b
  <2>8. (\A n \in 1 .. line_number : Converted(n))' <=> \A n \in 1 .. line_number : Converted(n)
    BY <1>1, <2>a, <2>b
  <2> QED
    BY <1>3, <1>5, <2>1, <2>4, <2>6, <2>7, <2>8 DEF NothingMissed
<1>8. CASE ~\E l \in FileLines : SkipLine(l) \/ Raise(l) \/ ReadRecord(l)
  <2>1. log' = log /\ (pc = "raised" => pc' = "raised")
    BY <1>8, OtherEffect
  <2>2. ~LosesContent /\ breakdown'.records = breakdown.records
    BY <1>8, RecordsMissed DEF LosesContent
  <2>3. IF LosesBlock THEN DOMAIN breakdown'.blocks # {}
        ELSE breakdown'.blocks = breakdown.blocks
    BY <2>2, BlocksMissed
  <2>4. /\ (\A n \in 1 .. line_number : ContentKept(n))' <=> \A n \in 1 .. line_number : ContentKept(n)
        /\ (\A n \in 1 .. line_number : Converted(n))' <=> \A n \in 1 .. line_number : Converted(n)
    BY <1>1, <1>2, <2>1 DEF line_number
  <2>5. (\A a \in Parsed : Kept(a[1], a[2]))' <=>
           ~LosesBlock /\ \A a \in Parsed : Kept(a[1], a[2])
    <3> PICK n, b : n = line_number /\ b = at
      OBVIOUS
    <3>1. Kept(n, b)' <=> Kept(n, b)
      BY <2>1 DEF Kept
    <3>2. LosesBlock <=> NextBlock /\ ~Kept(n, b)
      BY DEF LosesBlock
    <3>3. Parsed' = Parsed \cup {p \in {<<n, b>>} : NextBlock}
      BY <1>1
    <3>4. (\A a \in Parsed : Kept(a[1], a[2]))' <=> \A a \in Parsed' : Kept(a[1], a[2])'
      OBVIOUS
    <3>5. <<n, b>>[1] = n /\ <<n, b>>[2] = b
      OBVIOUS
    <3>6. CASE NextBlock
      BY <1>3, <3>1, <3>2, <3>3, <3>4, <3>5, <3>6
    <3>7. CASE ~NextBlock
      BY <1>3, <3>2, <3>3, <3>4, <3>7
    <3> QED
      BY <3>6, <3>7
  <2> QED
    BY <1>5, <2>1, <2>2, <2>3, <2>4, <2>5 DEF NothingMissed
<1> QED
  BY <1>6, <1>7, <1>8

\* Of an empty file nothing is missed.
LEMMA NothingMissedInit == Init => NothingMissed
<1>1. Init => Parsed = {}
  BY DEF Init, Parsed, ParsedAt, line_number
<1> QED
  BY <1>1 DEF Init, NothingMissed, EmptyBreakdown, line_number

-----------------------------------------------------------------------------
(***************************************************************************)
(* Usage without a response id.                                            *)
(***************************************************************************)

\* It is charged to the step of its own record, and to no other.
UnidentifiedOK ==
    /\ \A n \in UsageRecords(NoMessageId) :
          \E i \in Charged(NoMessageId) : steps[i].source_line = n
    /\ \A i \in Charged(NoMessageId) :
          /\ steps[i].source_line \in UsageRecords(NoMessageId)
          /\ steps[i].metrics = log[steps[i].source_line].usage

\* Such usage is in no table, so every record that has it gives it to its step.
LEMMA UnidentifiedStep ==
    ASSUME TypeInv, CorrelationInv, TurnsInv, UnidentifiedOK, [AnyNext]_vars
    PROVE  UnidentifiedOK'
<1> PICK id : id = NoMessageId
  OBVIOUS
<1>1. /\ UsageRecords(id)' = UsageRecords(id) \cup {n \in {line_number} : Brings(id)}
      /\ \A n \in UsageRecords(id)' : log'[n] = log[n]
  BY UsageStep
<1>2. \A i \in DOMAIN steps :
         /\ i \in DOMAIN steps'
         /\ steps'[i].source_line = steps[i].source_line
         /\ steps'[i].source_message_id = steps[i].source_message_id
         /\ steps'[i].metrics = steps[i].metrics
  BY TurnEffect DEF TurnsInv
<1>3. Charged(id) \subseteq DOMAIN steps
  BY DEF Charged
<1>4. CASE Brings(id)
  <2>1. /\ ~OnlyResults(line_number) /\ Finishing /\ ConvertAssistant /\ UsageGiven
        /\ ~UsageStored /\ record.id = id /\ record.usage # NoUsage /\ record = log[line_number]
    <3>1. log[line_number].role = "assistant"
      BY <1>4 DEF Brings, ConvertAssistant, record
    <3>2. ~UsageStored
      BY <1>4, SentinelAssumption DEF Brings, UsageStored, TypeInv, TypeOK
    <3> QED
      BY <1>4, <3>1, <3>2 DEF Brings, OnlyResults, Finishing, UsageGiven, record
  <2>2. PICK i : /\ DOMAIN steps' = DOMAIN steps \cup {i} /\ i \notin DOMAIN steps
                 /\ steps'[i].source_line = line_number
                 /\ steps'[i].source_message_id = record.id /\ steps'[i].metrics = record.usage
    BY <2>1, TurnEffect DEF TurnsInv
  <2>3. Charged(id)' = Charged(id) \cup {i}
    BY <1>2, <2>1, <2>2 DEF Charged
  <2>4. UsageRecords(id)' = UsageRecords(id) \cup {line_number}
    BY <1>1, <1>4
  <2>5. log'[line_number] = log[line_number]
    BY <1>1, <2>4
  <2> QED
    BY <1>1, <1>2, <1>3, <2>1, <2>2, <2>3, <2>4, <2>5 DEF UnidentifiedOK
<1>5. CASE ~Brings(id)
  <2>1. Charged(id)' = Charged(id)
    <3>1. CASE Finishing /\ ~OnlyResults(line_number)
      <4>1. PICK n : /\ DOMAIN steps' = DOMAIN steps \cup {n} /\ n \notin DOMAIN steps
                     /\ steps'[n].source_message_id = (IF ConvertAssistant THEN record.id ELSE NoMessageId)
                     /\ steps'[n].metrics = (IF ConvertAssistant /\ UsageGiven /\ ~UsageStored
                                             THEN record.usage ELSE NoUsage)
        BY <3>1, TurnEffect DEF TurnsInv
      <4>2. ~(steps'[n].source_message_id = id /\ steps'[n].metrics # NoUsage)
        BY <1>5, <4>1 DEF Brings
      <4> QED
        BY <1>2, <4>1, <4>2 DEF Charged
    <3>2. CASE ~(Finishing /\ ~OnlyResults(line_number))
      <4>1. DOMAIN steps' = DOMAIN steps
        BY <3>2, TurnEffect DEF TurnsInv
      <4> QED
        BY <1>2, <4>1 DEF Charged
    <3> QED
      BY <3>1, <3>2
  <2>2. UsageRecords(id)' = UsageRecords(id)
    BY <1>1, <1>5
  <2> QED
    BY <1>1, <1>2, <1>3, <2>1, <2>2 DEF UnidentifiedOK
<1> QED
  BY <1>4, <1>5

\* In an empty file there is no usage.
LEMMA UnidentifiedInit == Init => UnidentifiedOK
BY DEF Init, UnidentifiedOK, UsageRecords, Charged, Finished, line_number

-----------------------------------------------------------------------------
(***************************************************************************)
(* The document.                                                           *)
(***************************************************************************)

\* What the parser has made of the file, at any time.
ParsedOK ==
    /\ TypeInv /\ CorrelationInv /\ TrafficInv /\ DeliveryInv /\ OrphanHasNoCall
    /\ ListsOK /\ FieldsOK /\ TimesOK
    /\ TurnsInv /\ TableOK /\ ChargedOK /\ RepeatsOK
    /\ CallsInv /\ NothingMissed /\ UnidentifiedOK

\* The account of the document is that of the parser, unless it was taken out.
AccountKept ==
    /\ edit = "none" => document = Redacted
    /\ document.fidelity = fidelity /\ document.breakdown = breakdown
    /\ document.accounted <=> edit # "lost_account"

\* The steps before and after an edit.
CallRemoved(s, t) ==
    \E i \in DOMAIN s : \E c \in DOMAIN s[i].tool_calls :
        t = [s EXCEPT ![i].tool_calls = RemoveAt(@, c)]

ResultRemoved(s, t) ==
    \E i \in DOMAIN s : \E o \in DOMAIN s[i].observation :
        t = [s EXCEPT ![i].observation = RemoveAt(@, o)]

\* Its steps are those of the parser, but for the one that was edited.
StepsEdited ==
    /\ edit \in {"none", "lost_account", "lost_call", "lost_result"}
    /\ edit \in {"none", "lost_account"} => document.steps = steps
    /\ edit = "lost_call" => CallRemoved(steps, document.steps)
    /\ edit = "lost_result" => ResultRemoved(steps, document.steps)

\* A complete document is that of the whole file; there is no report but of such a one.
DocumentOK ==
    /\ outcome = "ok" => file = "complete" /\ report = Render(document)
    /\ file # "complete" => edit = "none"
    /\ file = "complete" => pc = "done" /\ AccountKept /\ StepsEdited

\* The parser begins as ever, without a document.
LEMMA ExplainInvInit == ExplainInit => ParsedOK /\ DocumentOK
<1>1. Init => CallsInv
  BY DEF Init, CallsInv
<1> QED
  BY <1>1, TypeInvInit, CorrelationInit, TrafficInit, DeliveryInit, OrphanInit, LossesInit,
     TurnsInvInit, UsageInit, NothingMissedInit, UnidentifiedInit
     DEF ExplainInit, ParsedOK, DocumentOK

\* Every step of the two commands is one of the parser or leaves the parser alone.
LEMMA ParsedOKStep ==
    ASSUME ParsedOK, [ExplainNext]_explainVars
    PROVE  ParsedOK'
<1>1. [AnyNext]_vars
  BY NextIsAny DEF ExplainNext, ParseSource, WriteDocument, CrashWriting, LoseCall, LoseResult, LoseAccount,
     Edit, Explain, RejectDocument, Explained, explainVars
<1> QED
  BY <1>1, TypeInvStep, CorrelationStep, TrafficStep, DeliveryStep, OrphanStep, ListsStep,
     FieldsStep, TimesStep, TurnsInvStep, TableStep, ChargedStep, RepeatsCountedStep,
     CallsStep, NothingMissedStep, UnidentifiedStep
     DEF ParsedOK

\* The document follows.
LEMMA DocumentStep ==
    ASSUME ParsedOK, DocumentOK, [ExplainNext]_explainVars
    PROVE  DocumentOK'
<1>1. CASE ParseSource
  <2>1. pc # "done" /\ UNCHANGED explanation
    BY <1>1, NextWorks DEF ParseSource
  <2> QED
    BY <2>1 DEF DocumentOK, explanation
<1>2. CASE WriteDocument
  <2>1. /\ pc' = "done" /\ file' = "complete" /\ edit' = "none" /\ outcome' # "ok"
        /\ document' = Redacted /\ UNCHANGED <<steps, fidelity, breakdown, meta>>
    BY <1>2 DEF WriteDocument, DocumentOK, vars, output
  <2>2. AccountKept' /\ StepsEdited'
    BY <2>1 DEF Redacted, AccountKept, StepsEdited
  <2> QED
    BY <2>1, <2>2 DEF DocumentOK
<1>3. CASE CrashWriting
  BY <1>3 DEF CrashWriting, DocumentOK
<1>4. ASSUME NEW kind, Edit(kind)
      PROVE  /\ edit = "none" /\ edit' = kind /\ file = "complete" /\ file' = "complete"
             /\ pc' = "done" /\ outcome' # "ok" /\ document = Redacted
             /\ UNCHANGED <<steps, fidelity, breakdown>>
  BY <1>4 DEF Edit, DocumentOK, AccountKept, vars, output
<1>5. ASSUME NEW s,
             document' = [document EXCEPT !.steps = s], document = Redacted
      PROVE  /\ document'.steps = s /\ document'.accounted = TRUE
             /\ document'.fidelity = fidelity /\ document'.breakdown = breakdown
  BY <1>5 DEF Redacted
<1>6. CASE LoseCall
  <2>1. Edit("lost_call")
    BY <1>6 DEF LoseCall
  <2>2. PICK i \in DOMAIN steps : \E c \in DOMAIN steps[i].tool_calls :
           document' = [document EXCEPT !.steps[i].tool_calls = RemoveAt(@, c)]
    BY <1>4, <1>6, <2>1 DEF LoseCall, Redacted
  <2>3. PICK c \in DOMAIN steps[i].tool_calls :
           document' = [document EXCEPT !.steps[i].tool_calls = RemoveAt(@, c)]
    BY <2>2
  <2> PICK s : s = [steps EXCEPT ![i].tool_calls = RemoveAt(@, c)]
    OBVIOUS
  <2>4. document' = [document EXCEPT !.steps = s]
    BY <1>4, <2>1, <2>3 DEF Redacted
  <2>5. /\ document'.steps = s /\ document'.accounted = TRUE
        /\ document'.fidelity = fidelity /\ document'.breakdown = breakdown
    BY <1>4, <1>5, <2>1, <2>4
  <2>6. AccountKept'
    BY <1>4, <2>1, <2>5 DEF AccountKept
  <2>7. CallRemoved(steps, s)
    BY DEF CallRemoved
  <2>8. StepsEdited'
    BY <1>4, <2>1, <2>5, <2>7 DEF StepsEdited
  <2> QED
    BY <1>4, <2>1, <2>6, <2>8 DEF DocumentOK
<1>7. CASE LoseResult
  <2>1. Edit("lost_result")
    BY <1>7 DEF LoseResult
  <2>2. PICK i \in DOMAIN steps : \E o \in DOMAIN steps[i].observation :
           document' = [document EXCEPT !.steps[i].observation = RemoveAt(@, o)]
    BY <1>4, <1>7, <2>1 DEF LoseResult, Redacted
  <2>3. PICK o \in DOMAIN steps[i].observation :
           document' = [document EXCEPT !.steps[i].observation = RemoveAt(@, o)]
    BY <2>2
  <2> PICK s : s = [steps EXCEPT ![i].observation = RemoveAt(@, o)]
    OBVIOUS
  <2>4. document' = [document EXCEPT !.steps = s]
    BY <1>4, <2>1, <2>3 DEF Redacted
  <2>5. /\ document'.steps = s /\ document'.accounted = TRUE
        /\ document'.fidelity = fidelity /\ document'.breakdown = breakdown
    BY <1>4, <1>5, <2>1, <2>4
  <2>6. AccountKept'
    BY <1>4, <2>1, <2>5 DEF AccountKept
  <2>7. ResultRemoved(steps, s)
    BY DEF ResultRemoved
  <2>8. StepsEdited'
    BY <1>4, <2>1, <2>5, <2>7 DEF StepsEdited
  <2> QED
    BY <1>4, <2>1, <2>6, <2>8 DEF DocumentOK
<1>8. CASE LoseAccount
  <2>1. Edit("lost_account") /\ document' = [document EXCEPT !.accounted = FALSE]
    BY <1>8 DEF LoseAccount
  <2>2. /\ document'.steps = steps /\ document'.accounted = FALSE
        /\ document'.fidelity = fidelity /\ document'.breakdown = breakdown
    BY <1>4, <2>1 DEF Redacted
  <2>3. AccountKept'
    BY <1>4, <2>1, <2>2 DEF AccountKept
  <2>4. StepsEdited'
    BY <1>4, <2>1, <2>2 DEF StepsEdited
  <2> QED
    BY <1>4, <2>1, <2>3, <2>4 DEF DocumentOK
<1>9. ASSUME UNCHANGED <<vars, file, document, edit>>,
             outcome' = "ok" => file = "complete" /\ report' = Render(document)
      PROVE  DocumentOK'
  <2>1. UNCHANGED <<pc, steps, fidelity, breakdown, meta>>
    BY <1>9 DEF vars, output
  <2>2. Redacted' = Redacted
    BY <2>1 DEF Redacted
  <2>3. AccountKept => AccountKept'
    BY <1>9, <2>1, <2>2 DEF AccountKept
  <2>4. StepsEdited => StepsEdited'
    BY <1>9, <2>1 DEF StepsEdited
  <2> QED
    BY <1>9, <2>1, <2>3, <2>4 DEF DocumentOK
<1>10. CASE Explain
  BY <1>9, <1>10 DEF Explain
<1>11. CASE RejectDocument
  BY <1>9, <1>11 DEF RejectDocument
<1>12. CASE UNCHANGED explainVars
  BY <1>9, <1>12 DEF explainVars, explanation, DocumentOK
<1> QED
  BY <1>1, <1>2, <1>3, <1>6, <1>7, <1>8, <1>10, <1>11, <1>12 DEF ExplainNext, Explained

\* The parser and the document are in order throughout.
LEMMA ExplainInvariance == ExplainSpec => [](ParsedOK /\ DocumentOK)
  BY ExplainInvInit, ParsedOKStep, DocumentStep, PTL DEF ExplainSpec

-----------------------------------------------------------------------------
(***************************************************************************)
(* The outcomes of the calls.                                              *)
(***************************************************************************)

\* When the file is parsed no result waits, and every line is finished.
LEMMA WhenDone ==
    ASSUME ParsedOK, pc = "done"
    PROVE  /\ TypeInv /\ Waiting = {} /\ Len(tool_calls) = 0 /\ Len(tool_results) - attached = 0
           /\ line_number \in Nat /\ DOMAIN log = 1 .. line_number /\ Finished = 1 .. line_number
           /\ log \in Seq(FileLines)
<1>1. /\ TypeInv /\ log \in Seq(FileLines)
      /\ tool_calls = <<>> /\ tool_results = <<>> /\ attached = 0
  BY DEF ParsedOK, TypeInv, TypeOK, LocalsOK
<1>2. Waiting = {}
  BY <1>1 DEF Waiting
<1> QED
  BY <1>1, <1>2 DEF Finished, line_number

\* A call of the file is one of the step of its line.
LEMMA CallHasStep ==
    ASSUME ParsedOK, pc = "done", NEW k \in DOMAIN log, NEW id \in CallsIn(k)
    PROVE  \E i \in DOMAIN steps : steps[i].source_line = k /\ MakesCall(i, id)
<1>1. Converted(k) /\ log[k].role = "assistant" /\ k \in Turns
  BY WhenDone DEF CallsIn, Turns
<1>2. ~OnlyResults(k)
  BY <1>1 DEF OnlyResults
<1>3. PICK i \in DOMAIN steps : steps[i].source_line = k
  BY <1>1, <1>2 DEF ParsedOK, TurnsInv
<1>4. id \in IdsOf(steps[i].tool_calls)
  BY <1>3 DEF ParsedOK, CallsInv, CallsOfLine
<1> QED
  BY <1>3, <1>4 DEF IdsOf, MakesCall

\* A call of a step is one of the step's line.
LEMMA StepHasCall ==
    ASSUME ParsedOK, NEW i \in DOMAIN steps, NEW id, MakesCall(i, id),
           NEW n, n = steps[i].source_line
    PROVE  id \in CallsIn(n)
<1>1. id \in IdsOf(steps[i].tool_calls)
  BY DEF IdsOf, MakesCall
<1> QED
  BY <1>1 DEF ParsedOK, CallsInv, CallsOfLine

\* The order of the steps is that of their lines.
LEMMA LinesOfSteps ==
    ASSUME ParsedOK, NEW i \in DOMAIN steps, NEW j \in DOMAIN steps
    PROVE  /\ i \in Nat /\ j \in Nat /\ steps[i].source_line \in Nat /\ steps[j].source_line \in Nat
           /\ i < j <=> steps[i].source_line < steps[j].source_line
           /\ i = j <=> steps[i].source_line = steps[j].source_line
<1>1. /\ i \in Nat /\ j \in Nat /\ steps[i].source_line \in Nat /\ steps[j].source_line \in Nat
  BY StepFields DEF ParsedOK
<1>2. /\ i < j => steps[i].source_line < steps[j].source_line
      /\ j < i => steps[j].source_line < steps[i].source_line
  BY DEF ParsedOK, TurnsInv
<1> QED
  BY <1>1, <1>2

\* A result of the file is delivered if there is a call for it before.
LEMMA AnswerIsPlaced ==
    ASSUME ParsedOK, pc = "done", NEW a \in Arrived, NEW i \in DOMAIN steps,
           steps[i].source_line < a[1], MakesCall(i, BlockOf(a).id)
    PROVE  \E p \in Placed : Origin(p) = a
<1>1. a \notin Waiting
  BY WhenDone
<1>2. OrphanHasNoCall
  BY DEF ParsedOK
<1> QED
  BY <1>1, <1>2 DEF OrphanHasNoCall, BlockOf

\* The places of the results, one by one.
LEMMA PlaceFields ==
    ASSUME ParsedOK, NEW p \in Placed
    PROVE  /\ p = <<p[1], p[2]>> /\ p[1] \in DOMAIN steps /\ p[2] \in DOMAIN steps[p[1]].observation
           /\ At(p) = steps[p[1]].observation[p[2]]
           /\ Origin(p) \in Arrived /\ Origin(p)[1] = At(p).line
           /\ At(p).source_call_id = BlockOf(Origin(p)).id
           /\ At(p).is_error = BlockOf(Origin(p)).is_error
           /\ MakesCall(p[1], At(p).source_call_id)
           /\ steps[p[1]].source_line < At(p).line /\ At(p).line \in Nat
           /\ \A k \in p[1] + 1 .. Len(steps) :
                 MakesCall(k, At(p).source_call_id) => steps[k].source_line > At(p).line
<1>1. p = <<p[1], p[2]>> /\ p[1] \in DOMAIN steps /\ p[2] \in DOMAIN steps[p[1]].observation
  BY DEF Placed
<1>2. FromFile(At(p))
  BY DEF ParsedOK, DeliveryInv
<1>3. ResultAtLatestCall
  BY DeliveredIsLatest DEF ParsedOK, CorrelationInv
<1>4. At(p).line \in Nat
  BY <1>1, StepFields DEF ParsedOK, At
<1>5. At(p).source_call_id = log[At(p).line].blocks[At(p).item].id
  BY DeliveredId DEF ParsedOK
<1> QED
  BY <1>1, <1>2, <1>3, <1>4, <1>5 DEF FromFile, ResultAtLatestCall, Origin, BlockOf, At

\* Lines between two others.
LEMMA StrictlyBetween ==
    ASSUME NEW a \in Nat, NEW b \in Nat, NEW k \in a + 1 .. b - 1
    PROVE  k \in Nat /\ a < k /\ k < b
OBVIOUS

\* The results under a call are its answers in the file.
LEMMA ResultsAreAnswers ==
    ASSUME ParsedOK, pc = "done", NEW i \in DOMAIN steps, NEW id, MakesCall(i, id),
           NEW n, n = steps[i].source_line
    PROVE  {Origin(<<i, r>>) : r \in ResultsOf(steps[i], id)} = Answers(n, id)
<1>0. /\ DOMAIN steps = 1 .. Len(steps) /\ Len(steps) \in Nat /\ n \in Nat /\ TypeInv
  BY StepFields DEF ParsedOK
<1>1. ASSUME NEW r \in ResultsOf(steps[i], id), NEW p, p = <<i, r>>
      PROVE  Origin(p) \in Answers(n, id)
  <2>1. p \in Placed /\ p[1] = i /\ At(p).source_call_id = id
    BY <1>1 DEF ResultsOf, Placed, At
  <2> PICK t : t = At(p).line
    OBVIOUS
  <2>2. /\ Origin(p)[1] = t /\ t \in 1 .. line_number /\ line_number \in Nat /\ n \in Nat
    <3>1. Origin(p)[1] \in 1 .. line_number /\ Origin(p)[1] = t
      BY <2>1, PlaceFields DEF Arrived
    <3> QED
      BY <1>0, <3>1, WhenDone
  <2>3. ASSUME NEW k \in n + 1 .. t - 1, id \in CallsIn(k) PROVE FALSE
    <3>1. k \in Nat /\ n < k /\ k < t
      BY <2>2, StrictlyBetween
    <3>2. k \in DOMAIN log
      BY <2>2, <3>1, WhenDone
    <3>3. PICK j \in DOMAIN steps : steps[j].source_line = k /\ MakesCall(j, id)
      BY <2>3, <3>2, CallHasStep
    <3>4. i < j
      BY <3>1, <3>3, LinesOfSteps
    <3>5. steps[j].source_line > t
      <4>1. j \in p[1] + 1 .. Len(steps)
        BY <1>0, <2>1, <3>3, <3>4
      <4> QED
        BY <2>1, <3>3, <4>1, PlaceFields
    <3> QED
      BY <2>2, <3>1, <3>3, <3>5
  <2> QED
    BY <2>1, <2>2, <2>3, PlaceFields DEF Answers
<1>2. ASSUME NEW a \in Answers(n, id)
      PROVE  \E r \in ResultsOf(steps[i], id) : Origin(<<i, r>>) = a
  <2>1. /\ a \in Arrived /\ BlockOf(a).id = id /\ n < a[1]
        /\ \A k \in n + 1 .. a[1] - 1 : id \notin CallsIn(k)
    BY <1>2 DEF Answers
  <2>2. PICK p \in Placed : Origin(p) = a
    BY <2>1, AnswerIsPlaced
  <2>3. /\ p[1] \in DOMAIN steps /\ MakesCall(p[1], id) /\ At(p).line = a[1]
        /\ At(p).source_call_id = id /\ a[1] \in Nat
    BY <2>1, <2>2, PlaceFields
  <2>4. p[1] = i
    <3>1. CASE p[1] < i
      <4>1. i \in p[1] + 1 .. Len(steps)
        BY <1>0, <2>3, <3>1
      <4>2. n > a[1]
        BY <2>3, <4>1, PlaceFields
      <4> QED
        BY <1>0, <2>1, <2>3, <4>2
    <3>2. CASE i < p[1]
      <4> PICK k : k = steps[p[1]].source_line
        OBVIOUS
      <4>1. k \in Nat /\ n < k /\ k < a[1]
        BY <2>3, <3>2, LinesOfSteps, PlaceFields
      <4>2. id \in CallsIn(k)
        BY <2>3, StepHasCall
      <4> QED
        BY <1>0, <2>1, <2>3, <4>1, <4>2
    <3> QED
      BY <1>0, <2>3, <3>1, <3>2
  <2>5. p = <<i, p[2]>> /\ p[2] \in ResultsOf(steps[i], id)
    BY <2>3, <2>4, PlaceFields DEF ResultsOf, At
  <2> QED
    BY <2>2, <2>5
<1>3. {Origin(<<i, r>>) : r \in ResultsOf(steps[i], id)} \subseteq Answers(n, id)
  BY <1>1
<1> QED
  BY <1>2, <1>3

\* What a faithful report shows is the trajectory.
LEMMA FaithfulReport ==
    ASSUME DocumentOK, Faithful
    PROVE  /\ pc = "done" /\ document = Redacted /\ document.steps = steps
           /\ report = Render(document)
BY DEF DocumentOK, AccountKept, StepsEdited, Faithful

\* The row of a call says of it what the file says.
LEMMA RowFromFile ==
    ASSUME ParsedOK, pc = "done", NEW i \in DOMAIN steps, NEW c \in DOMAIN steps[i].tool_calls,
           NEW id, id = steps[i].tool_calls[c], NEW answers, answers = Answers(steps[i].source_line, id)
    PROVE  LET status == CallStatus(steps[i], id) IN
           /\ status \in Statuses
           /\ status = "no result" <=> answers = {}
           /\ status = "error" <=> \E a \in answers : BlockOf(a).is_error = "true"
           /\ {Origin(<<i, r>>) : r \in ResultsOf(steps[i], id)} = answers
<1> DEFINE results == ResultsOf(steps[i], id)
<1>1. {Origin(<<i, r>>) : r \in results} = answers
  BY ResultsAreAnswers DEF MakesCall
<1>2. ASSUME NEW r \in results
      PROVE  IsError(steps[i].observation[r]) <=> BlockOf(Origin(<<i, r>>)).is_error = "true"
  <2> PICK p : p = <<i, r>>
    OBVIOUS
  <2>1. p \in Placed
    BY <1>2 DEF ResultsOf, Placed
  <2>2. At(p) = steps[i].observation[r]
    BY DEF At
  <2> QED
    BY <2>1, <2>2, PlaceFields DEF IsError
<1>3. results = {} <=> answers = {}
  BY <1>1
<1>4. (\E r \in results : IsError(steps[i].observation[r])) <=>
         \E a \in answers : BlockOf(a).is_error = "true"
  BY <1>1, <1>2
<1> HIDE DEF results
<1>5. CallStatus(steps[i], id) =
         IF results = {} THEN "no result"
         ELSE IF \E r \in results : IsError(steps[i].observation[r]) THEN "error" ELSE "result"
  BY DEF CallStatus, results
<1>6. {Origin(<<i, r>>) : r \in ResultsOf(steps[i], id)} = answers
  BY <1>1 DEF results
<1>7. results = {} => ~\E r \in results : IsError(steps[i].observation[r])
  OBVIOUS
<1> QED
  BY <1>3, <1>4, <1>5, <1>6, <1>7 DEF Statuses

\* The calls with status s.
WithStatus(s) == {p \in CallPlaces : CallStatus(steps[p[1]], steps[p[1]].tool_calls[p[2]]) = s}

\* The place of a call is one in its step.
LEMMA PlaceOfCall ==
    ASSUME NEW p \in CallPlaces
    PROVE  p[1] \in DOMAIN steps /\ p[2] \in DOMAIN steps[p[1]].tool_calls
BY DEF CallPlaces

\* The summary counts every call once.
LEMMA SummaryCounts ==
    ASSUME ParsedOK, pc = "done"
    PROVE  /\ \A s \in Statuses : IsFiniteSet(WithStatus(s)) /\ Cardinality(WithStatus(s)) \in Nat
           /\ Cardinality(WithStatus("result")) + Cardinality(WithStatus("error"))
                 + Cardinality(WithStatus("no result")) = fidelity["tool_calls_preserved"]
<1>1. IsFiniteSet(CallPlaces) /\ fidelity["tool_calls_preserved"] = Cardinality(CallPlaces)
  <2>1. fidelity["tool_calls_preserved"] = Len(tool_calls) + Cardinality(CallPlaces)
        /\ IsFiniteSet(CallPlaces)
    BY CallsCounted DEF ParsedOK, TrafficInv
  <2> QED
    BY <2>1, WhenDone, FS_CardinalityType
<1>2. \A s : IsFiniteSet(WithStatus(s)) /\ Cardinality(WithStatus(s)) \in Nat
  <2>1. \A s : WithStatus(s) \in SUBSET CallPlaces
    BY DEF WithStatus
  <2> QED
    BY <1>1, <2>1, FS_Subset, FS_CardinalityType
<1>3. \A p \in CallPlaces : p[1] \in DOMAIN steps /\ p[2] \in DOMAIN steps[p[1]].tool_calls
  BY PlaceOfCall
<1>4. \A p \in CallPlaces : CallStatus(steps[p[1]], steps[p[1]].tool_calls[p[2]]) \in Statuses
  BY <1>3, RowFromFile
<1> DEFINE some == WithStatus("result") \cup WithStatus("error")
<1>5. CallPlaces = some \cup WithStatus("no result") /\ some \cap WithStatus("no result") = {}
      /\ WithStatus("result") \cap WithStatus("error") = {}
  BY <1>4 DEF WithStatus, Statuses
<1>6. IsFiniteSet(some)
      /\ Cardinality(some) = Cardinality(WithStatus("result")) + Cardinality(WithStatus("error"))
  BY <1>2, <1>5, DisjointUnion
<1>7. Cardinality(CallPlaces) = Cardinality(some) + Cardinality(WithStatus("no result"))
  <2> HIDE DEF some
  <2> QED
    BY <1>2, <1>5, <1>6, DisjointUnion
<1> QED
  BY <1>1, <1>2, <1>6, <1>7

\* The report says of each call what the file says of it.
LEMMA OutcomesHold ==
    ASSUME ParsedOK, DocumentOK
    PROVE  OutcomesFromFile
<1> SUFFICES ASSUME Faithful
             PROVE  /\ \A i \in DOMAIN report.steps : \A c \in DOMAIN report.steps[i].calls :
                          LET row     == report.steps[i].calls[c]
                              answers == Answers(document.steps[i].source_line,
                                                 document.steps[i].tool_calls[c])
                          IN  /\ row.status = "no result" <=> answers = {}
                              /\ (\E a \in answers : BlockOf(a).is_error = "true") => row.status = "error"
                              /\ row.status = "error" => \E a \in answers : BlockOf(a).is_error # "none"
                              /\ {Origin(<<i, r>>) : r \in row.results} = answers
                    /\ report.summary["result"] + report.summary["error"]
                          + report.summary["no result"] = fidelity["tool_calls_preserved"]
                    /\ report.summary["no result"] = 0 <=>
                          \A n \in DOMAIN log : \A id \in CallsIn(n) : Answers(n, id) # {}
  BY DEF OutcomesFromFile
<1>1. pc = "done" /\ document.steps = steps /\ report = Render(document)
  BY FaithfulReport
<1>2. /\ DOMAIN report.steps = DOMAIN steps
      /\ \A i \in DOMAIN steps :
            /\ DOMAIN report.steps[i].calls = DOMAIN steps[i].tool_calls
            /\ \A c \in DOMAIN steps[i].tool_calls :
                  /\ report.steps[i].calls[c].status = CallStatus(steps[i], steps[i].tool_calls[c])
                  /\ report.steps[i].calls[c].results = ResultsOf(steps[i], steps[i].tool_calls[c])
  BY <1>1 DEF Render, Rendered
<1>3. \A s \in Statuses : report.summary[s] = Cardinality(WithStatus(s))
  BY <1>1 DEF Render, Summary, WithStatus, CallPlaces
<1>4. ASSUME NEW i \in DOMAIN report.steps, NEW c \in DOMAIN report.steps[i].calls,
             NEW answers,
             answers = Answers(document.steps[i].source_line, document.steps[i].tool_calls[c])
      PROVE  /\ report.steps[i].calls[c].status = "no result" <=> answers = {}
             /\ report.steps[i].calls[c].status = "error" <=>
                   \E a \in answers : BlockOf(a).is_error = "true"
             /\ {Origin(<<i, r>>) : r \in report.steps[i].calls[c].results} = answers
  <2> PICK id : id = steps[i].tool_calls[c]
    OBVIOUS
  <2>1. /\ i \in DOMAIN steps /\ c \in DOMAIN steps[i].tool_calls
        /\ answers = Answers(steps[i].source_line, id)
    BY <1>1, <1>2, <1>4
  <2>2. LET status == CallStatus(steps[i], id) IN
        /\ status = "no result" <=> answers = {}
        /\ status = "error" <=> \E a \in answers : BlockOf(a).is_error = "true"
        /\ {Origin(<<i, r>>) : r \in ResultsOf(steps[i], id)} = answers
    BY <1>1, <2>1, RowFromFile
  <2>3. /\ report.steps[i].calls[c].status = CallStatus(steps[i], id)
        /\ report.steps[i].calls[c].results = ResultsOf(steps[i], id)
    BY <1>2, <2>1
  <2> QED
    BY <2>2, <2>3
<1>5. report.summary["no result"] = 0 <=>
         \A n \in DOMAIN log : \A id \in CallsIn(n) : Answers(n, id) # {}
  <2>1. report.summary["no result"] = 0 <=> WithStatus("no result") = {}
    BY <1>1, <1>3, SummaryCounts, FS_EmptySet DEF Statuses
  <2>2. ASSUME WithStatus("no result") = {}, NEW n \in DOMAIN log, NEW id \in CallsIn(n)
        PROVE  Answers(n, id) # {}
    <3>1. PICK i \in DOMAIN steps : steps[i].source_line = n /\ MakesCall(i, id)
      BY <1>1, CallHasStep
    <3>2. PICK c \in DOMAIN steps[i].tool_calls : steps[i].tool_calls[c] = id
      BY <3>1 DEF MakesCall
    <3>3. <<i, c>> \in CallPlaces /\ <<i, c>>[1] = i /\ <<i, c>>[2] = c
      BY DEF CallPlaces
    <3>4. CallStatus(steps[i], id) # "no result"
      <4>1. <<i, c>> \notin WithStatus("no result")
        BY <2>2
      <4> QED
        BY <3>2, <3>3, <4>1 DEF WithStatus
    <3> QED
      BY <1>1, <3>1, <3>2, <3>4, RowFromFile
  <2>3. ASSUME \A n \in DOMAIN log : \A id \in CallsIn(n) : Answers(n, id) # {},
               NEW p \in WithStatus("no result")
        PROVE  FALSE
    <3> PICK i, c : i = p[1] /\ c = p[2]
      OBVIOUS
    <3>1. /\ i \in DOMAIN steps /\ c \in DOMAIN steps[i].tool_calls
          /\ CallStatus(steps[i], steps[i].tool_calls[c]) = "no result"
      <4>1. p \in CallPlaces /\ CallStatus(steps[p[1]], steps[p[1]].tool_calls[p[2]]) = "no result"
        BY <2>3 DEF WithStatus
      <4>2. p[1] \in DOMAIN steps /\ p[2] \in DOMAIN steps[p[1]].tool_calls
        BY <4>1, PlaceOfCall
      <4> QED
        BY <4>1, <4>2
    <3>2. Answers(steps[i].source_line, steps[i].tool_calls[c]) = {}
      BY <1>1, <3>1, RowFromFile
    <3>3. steps[i].tool_calls[c] \in CallsIn(steps[i].source_line)
      BY <3>1, StepHasCall DEF MakesCall
    <3>4. steps[i].source_line \in DOMAIN log
      BY <1>1, <3>1, WhenDone DEF ParsedOK, TurnsInv, TurnAt, Turns
    <3> QED
      BY <2>3, <3>2, <3>3, <3>4
  <2> QED
    BY <2>1, <2>2, <2>3
<1>6. report.summary["result"] + report.summary["error"] + report.summary["no result"] =
         fidelity["tool_calls_preserved"]
  BY <1>1, <1>3, SummaryCounts DEF Statuses
<1> QED
  BY <1>4, <1>5, <1>6

\* The outcome the report gives for every call is the one in the log, and the results
\* shown under the call are its answers there (OutcomesFromFile).
THEOREM ReportedOutcomesAreTrue == ExplainSpec => []OutcomesFromFile
  BY OutcomesHold, ExplainInvariance, PTL

-----------------------------------------------------------------------------
(***************************************************************************)
(* The checks of the report on its own counts.                             *)
(***************************************************************************)

\* How many calls and results each step of t has.
CallLengths(t) == [i \in DOMAIN t |-> Len(t[i].tool_calls)]

ResultLengths(t) == [i \in DOMAIN t |-> Len(t[i].observation)]

\* The cells of these numbers are the places of the calls and of the results.
LEMMA LengthsArePlaces ==
    ASSUME ParsedOK, pc = "done"
    PROVE  /\ IsFiniteSet(Cells(CallLengths(steps))) /\ IsFiniteSet(Cells(ResultLengths(steps)))
           /\ fidelity["tool_calls_preserved"] = Total(CallLengths(steps))
           /\ fidelity["observation_results_preserved"] = Total(ResultLengths(steps))
<1>1. \A i \in DOMAIN steps :
         /\ DOMAIN steps[i].tool_calls = 1 .. Len(steps[i].tool_calls)
         /\ DOMAIN steps[i].observation = 1 .. Len(steps[i].observation)
  <2>1. \A i \in DOMAIN steps : steps[i].tool_calls \in Seq(CallIds)
    BY StepFields DEF ParsedOK, Step
  <2> QED
    BY <2>1, StepFields DEF ParsedOK
<1>2. Cells(CallLengths(steps)) = CallPlaces
  BY <1>1 DEF Cells, CallLengths, CallPlaces
<1>3. Cells(ResultLengths(steps)) = Placed
  BY <1>1 DEF Cells, ResultLengths, Placed
<1>4. fidelity["tool_calls_preserved"] = Cardinality(CallPlaces)
  <2>1. fidelity["tool_calls_preserved"] = Len(tool_calls) + Cardinality(CallPlaces)
        /\ IsFiniteSet(CallPlaces)
    BY CallsCounted DEF ParsedOK, TrafficInv
  <2> QED
    BY <2>1, WhenDone, FS_CardinalityType
<1> QED
  BY <1>2, <1>3, <1>4 DEF ParsedOK, TrafficInv, ResultsAccounted, Total

\* A total changes when one of its numbers is one less.
LEMMA OneLess ==
    ASSUME NEW D, NEW f \in [D -> Nat], IsFiniteSet(Cells(f)), NEW i \in D, f[i] > 0,
           NEW g, g = [f EXCEPT ![i] = f[i] - 1]
    PROVE  Total(f) # Total(g)
<1> PICK last : last = <<i, f[i]>>
  OBVIOUS
<1>1. Cells(f) = Cells(g) \cup {last} /\ last \notin Cells(g)
  <2>1. \A k \in D : k # i => g[k] = f[k]
    OBVIOUS
  <2>2. g[i] = f[i] - 1 /\ DOMAIN g = D /\ DOMAIN f = D
    OBVIOUS
  <2> PICK n \in Nat : n = f[i]
    OBVIOUS
  <2>3. 1 .. n = 1 .. n - 1 \cup {n} /\ n \notin 1 .. n - 1
    OBVIOUS
  <2> QED
    BY <2>1, <2>2, <2>3 DEF Cells
<1>2. IsFiniteSet(Cells(g))
  BY <1>1, FS_Subset
<1>3. Total(f) = Total(g) + 1 /\ Total(g) \in Nat
  BY <1>1, <1>2, OneMore, FS_CardinalityType DEF Total
<1> QED
  BY <1>3

\* A sequence without one of its elements has only elements of the whole.
LEMMA OneRemoved ==
    ASSUME NEW S, NEW s \in Seq(S), NEW i \in DOMAIN s
    PROVE  /\ RemoveAt(s, i) \in Seq(S) /\ Len(RemoveAt(s, i)) = Len(s) - 1
           /\ Len(s) > 0 /\ Len(s) \in Nat
           /\ \A r \in DOMAIN RemoveAt(s, i) : \E q \in DOMAIN s : RemoveAt(s, i)[r] = s[q]
<1>1. i \in 1 .. Len(s) /\ Len(s) \in Nat /\ DOMAIN s = 1 .. Len(s)
      /\ \A r \in 1 .. Len(s) : s[r] \in S
  OBVIOUS
<1>2. /\ SubSeq(s, 1, i - 1) \in Seq(S) /\ Len(SubSeq(s, 1, i - 1)) = i - 1
      /\ \A r \in 1 .. i - 1 : SubSeq(s, 1, i - 1)[r] = s[r]
  BY <1>1, SubSeqProperties
<1>3. /\ SubSeq(s, i + 1, Len(s)) \in Seq(S) /\ Len(SubSeq(s, i + 1, Len(s))) = Len(s) - i
      /\ \A r \in 1 .. Len(s) - i : SubSeq(s, i + 1, Len(s))[r] = s[i + r]
  BY <1>1, SubSeqProperties
<1>4. ASSUME NEW b \in Seq(S), Len(b) = i - 1, \A r \in 1 .. i - 1 : b[r] = s[r],
             NEW a \in Seq(S), Len(a) = Len(s) - i, \A r \in 1 .. Len(s) - i : a[r] = s[i + r]
      PROVE  /\ b \o a \in Seq(S) /\ Len(b \o a) = Len(s) - 1
             /\ \A r \in 1 .. Len(s) - 1 : \E q \in 1 .. Len(s) : (b \o a)[r] = s[q]
  <2>1. /\ b \o a \in Seq(S) /\ Len(b \o a) = Len(b) + Len(a)
        /\ \A r \in 1 .. Len(b) + Len(a) : (b \o a)[r] = IF r <= Len(b) THEN b[r] ELSE a[r - Len(b)]
    BY ConcatProperties
  <2>2. Len(b) + Len(a) = Len(s) - 1
    BY <1>1, <1>4
  <2>3. ASSUME NEW r \in 1 .. Len(s) - 1 PROVE \E q \in 1 .. Len(s) : (b \o a)[r] = s[q]
    <3>1. (b \o a)[r] = IF r <= i - 1 THEN b[r] ELSE a[r - (i - 1)]
      BY <1>4, <2>1, <2>2
    <3>2. CASE r <= i - 1
      <4>1. r \in 1 .. i - 1 /\ r \in 1 .. Len(s)
        BY <1>1, <3>2
      <4>2. (b \o a)[r] = s[r]
        BY <1>4, <3>1, <3>2, <4>1
      <4> QED
        BY <4>1, <4>2
    <3>3. CASE ~(r <= i - 1)
      <4>1. r - (i - 1) \in 1 .. Len(s) - i /\ i + (r - (i - 1)) \in 1 .. Len(s)
        BY <1>1, <3>3
      <4>2. (b \o a)[r] = s[i + (r - (i - 1))]
        BY <1>4, <3>1, <3>3, <4>1
      <4> QED
        BY <4>1, <4>2
    <3> QED
      BY <3>2, <3>3
  <2> QED
    BY <2>1, <2>2, <2>3
<1>5. /\ RemoveAt(s, i) \in Seq(S) /\ Len(RemoveAt(s, i)) = Len(s) - 1
      /\ \A r \in 1 .. Len(s) - 1 : \E q \in 1 .. Len(s) : RemoveAt(s, i)[r] = s[q]
  BY <1>2, <1>3, <1>4, Zenon DEF RemoveAt
<1>6. Len(s) > 0
  BY <1>1
<1>7. DOMAIN RemoveAt(s, i) = 1 .. Len(s) - 1
  BY <1>5
<1> QED
  BY <1>1, <1>5, <1>6, <1>7, Zenon

\* What a document without one of its calls, or of its results, still has.
LEMMA CallLost ==
    ASSUME ParsedOK, NEW t, CallRemoved(steps, t)
    PROVE  /\ DOMAIN t = DOMAIN steps
           /\ \A i \in DOMAIN t : t[i].observation = steps[i].observation
           /\ \E i \in DOMAIN steps : /\ Len(steps[i].tool_calls) > 0
                                      /\ CallLengths(t) = [CallLengths(steps) EXCEPT ![i] =
                                                              Len(steps[i].tool_calls) - 1]
<1>1. \A i \in DOMAIN steps : steps[i].tool_calls \in Seq(CallIds) /\ steps[i] \in Step
  BY StepFields DEF ParsedOK, Step
<1>2. PICK i \in DOMAIN steps : \E c \in DOMAIN steps[i].tool_calls :
         t = [steps EXCEPT ![i].tool_calls = RemoveAt(@, c)]
  BY DEF CallRemoved
<1>3. PICK c \in DOMAIN steps[i].tool_calls : t = [steps EXCEPT ![i].tool_calls = RemoveAt(@, c)]
  BY <1>2
<1>4. Len(RemoveAt(steps[i].tool_calls, c)) = Len(steps[i].tool_calls) - 1
      /\ Len(steps[i].tool_calls) > 0
  BY <1>1, OneRemoved
<1>5. /\ DOMAIN t = DOMAIN steps /\ \A k \in DOMAIN steps : k # i => t[k] = steps[k]
      /\ t[i] = [steps[i] EXCEPT !.tool_calls = RemoveAt(@, c)]
  BY <1>3
<1>6. /\ t[i].observation = steps[i].observation
      /\ t[i].tool_calls = RemoveAt(steps[i].tool_calls, c)
  BY <1>1, <1>5 DEF Step
<1>7. CallLengths(t) = [CallLengths(steps) EXCEPT ![i] = Len(steps[i].tool_calls) - 1]
  BY <1>4, <1>5, <1>6 DEF CallLengths
<1> QED
  BY <1>4, <1>5, <1>6, <1>7

\* A document without one of its results has one number less in its lengths.
LEMMA ResultLost ==
    ASSUME ParsedOK, NEW t, ResultRemoved(steps, t)
    PROVE  /\ DOMAIN t = DOMAIN steps
           /\ \A i \in DOMAIN t : /\ t[i].tool_calls = steps[i].tool_calls
                                  /\ DOMAIN t[i].observation \subseteq Nat
                                  /\ \A r \in DOMAIN t[i].observation :
                                        \E q \in DOMAIN steps[i].observation :
                                           t[i].observation[r] = steps[i].observation[q]
           /\ \E i \in DOMAIN steps : /\ Len(steps[i].observation) > 0
                                      /\ ResultLengths(t) = [ResultLengths(steps) EXCEPT ![i] =
                                                                Len(steps[i].observation) - 1]
<1>1. \A i \in DOMAIN steps : steps[i].observation \in Seq(Result) /\ steps[i] \in Step
  BY StepFields DEF ParsedOK
<1>2. PICK i \in DOMAIN steps : \E o \in DOMAIN steps[i].observation :
         t = [steps EXCEPT ![i].observation = RemoveAt(@, o)]
  BY DEF ResultRemoved
<1>3. PICK o \in DOMAIN steps[i].observation : t = [steps EXCEPT ![i].observation = RemoveAt(@, o)]
  BY <1>2
<1>4. /\ Len(RemoveAt(steps[i].observation, o)) = Len(steps[i].observation) - 1
      /\ Len(steps[i].observation) > 0
      /\ DOMAIN RemoveAt(steps[i].observation, o) \subseteq Nat
      /\ \A r \in DOMAIN RemoveAt(steps[i].observation, o) :
            \E q \in DOMAIN steps[i].observation :
               RemoveAt(steps[i].observation, o)[r] = steps[i].observation[q]
  <2> PICK s : s = steps[i].observation
    OBVIOUS
  <2>1. s \in Seq(Result) /\ o \in DOMAIN s
    BY <1>1
  <2>2. /\ RemoveAt(s, o) \in Seq(Result) /\ Len(RemoveAt(s, o)) = Len(s) - 1 /\ Len(s) > 0
        /\ \A r \in DOMAIN RemoveAt(s, o) : \E q \in DOMAIN s : RemoveAt(s, o)[r] = s[q]
    BY <2>1, OneRemoved
  <2>3. DOMAIN RemoveAt(s, o) \subseteq Nat
    BY <2>2
  <2> QED
    BY <2>2, <2>3
<1>5. /\ DOMAIN t = DOMAIN steps /\ \A k \in DOMAIN steps : k # i => t[k] = steps[k]
      /\ t[i] = [steps[i] EXCEPT !.observation = RemoveAt(@, o)]
  BY <1>3
<1>6. /\ t[i].tool_calls = steps[i].tool_calls
      /\ t[i].observation = RemoveAt(steps[i].observation, o)
  BY <1>1, <1>5 DEF Step
<1>7. ResultLengths(t) = [ResultLengths(steps) EXCEPT ![i] = Len(steps[i].observation) - 1]
  BY <1>4, <1>5, <1>6 DEF ResultLengths
<1>8. ASSUME NEW k \in DOMAIN steps
      PROVE  /\ t[k].tool_calls = steps[k].tool_calls
             /\ DOMAIN t[k].observation \subseteq Nat
             /\ \A r \in DOMAIN t[k].observation :
                   \E q \in DOMAIN steps[k].observation :
                      t[k].observation[r] = steps[k].observation[q]
  <2>1. CASE k = i
    BY <1>4, <1>6, <2>1
  <2>2. CASE k # i
    BY <1>1, <1>5, <2>2
  <2> QED
    BY <2>1, <2>2
<1>9. DOMAIN t = DOMAIN steps
  BY <1>5
<1>10. \E k \in DOMAIN steps : /\ Len(steps[k].observation) > 0
                               /\ ResultLengths(t) = [ResultLengths(steps) EXCEPT ![k] =
                                                         Len(steps[k].observation) - 1]
  BY <1>4, <1>7
<1> QED
  BY <1>8, <1>9, <1>10, Zenon

\* The two checks see what is missing from the document, each what is of its kind.
LEMMA ChecksHold ==
    ASSUME ParsedOK, DocumentOK, file = "complete"
    PROVE  /\ ConsistentCalls(document) <=> edit # "lost_call"
           /\ ConsistentResults(document) <=> edit # "lost_result"
<1> DEFINE t == document.steps
<1>0. /\ pc = "done" /\ StepsEdited /\ document.fidelity = fidelity
  BY DEF DocumentOK, AccountKept
<1>1. /\ IsFiniteSet(Cells(CallLengths(steps))) /\ IsFiniteSet(Cells(ResultLengths(steps)))
      /\ CallLengths(steps) \in [DOMAIN steps -> Nat]
      /\ ResultLengths(steps) \in [DOMAIN steps -> Nat]
  <2>1. \A i \in DOMAIN steps : /\ steps[i].tool_calls \in Seq(CallIds)
                                /\ steps[i].observation \in Seq(Result)
    BY StepFields DEF ParsedOK, Step
  <2> QED
    BY <1>0, <2>1, LengthsArePlaces DEF CallLengths, ResultLengths
<1>2. /\ ConsistentCalls(document) <=> Total(CallLengths(steps)) = Total(CallLengths(t))
      /\ ConsistentResults(document) <=> Total(ResultLengths(steps)) = Total(ResultLengths(t))
  BY <1>0, LengthsArePlaces
     DEF ConsistentCalls, ConsistentResults, CallLengths, ResultLengths
<1> HIDE DEF t
<1>3. CASE edit \in {"none", "lost_account"}
  BY <1>0, <1>2, <1>3 DEF StepsEdited, t
<1>4. CASE edit = "lost_call"
  <2>1. CallRemoved(steps, t)
    BY <1>0, <1>4 DEF StepsEdited, t
  <2>2. ResultLengths(t) = ResultLengths(steps)
    BY <2>1, CallLost DEF ResultLengths
  <2>3. Total(CallLengths(steps)) # Total(CallLengths(t))
    <3>1. PICK i \in DOMAIN steps : /\ Len(steps[i].tool_calls) > 0
                                    /\ CallLengths(t) = [CallLengths(steps) EXCEPT ![i] =
                                                            Len(steps[i].tool_calls) - 1]
      BY <2>1, CallLost
    <3>2. CallLengths(steps)[i] = Len(steps[i].tool_calls)
      BY DEF CallLengths
    <3> QED
      BY <1>1, <3>1, <3>2, OneLess
  <2> QED
    BY <1>2, <1>4, <2>2, <2>3
<1>5. CASE edit = "lost_result"
  <2>1. ResultRemoved(steps, t)
    BY <1>0, <1>5 DEF StepsEdited, t
  <2>2. CallLengths(t) = CallLengths(steps)
    BY <2>1, ResultLost DEF CallLengths
  <2>3. Total(ResultLengths(steps)) # Total(ResultLengths(t))
    <3>1. PICK i \in DOMAIN steps : /\ Len(steps[i].observation) > 0
                                    /\ ResultLengths(t) = [ResultLengths(steps) EXCEPT ![i] =
                                                              Len(steps[i].observation) - 1]
      BY <2>1, ResultLost
    <3>2. ResultLengths(steps)[i] = Len(steps[i].observation)
      BY DEF ResultLengths
    <3> QED
      BY <1>1, <3>1, <3>2, OneLess
  <2> QED
    BY <1>2, <1>5, <2>2, <2>3
<1> QED
  BY <1>0, <1>3, <1>4, <1>5 DEF StepsEdited

\* Each result of the document has its call at its step, unless a call was taken out.
LEMMA ResultsHaveCalls ==
    ASSUME ParsedOK, DocumentOK, file = "complete", edit # "lost_call",
           NEW i \in DOMAIN document.steps, NEW r \in DOMAIN document.steps[i].observation
    PROVE  \E c \in DOMAIN document.steps[i].tool_calls :
              document.steps[i].tool_calls[c] = document.steps[i].observation[r].source_call_id
<1>1. ASSUME NEW k \in DOMAIN steps, NEW q \in DOMAIN steps[k].observation
      PROVE  \E c \in DOMAIN steps[k].tool_calls :
                steps[k].tool_calls[c] = steps[k].observation[q].source_call_id
  <2> PICK p : p = <<k, q>>
    OBVIOUS
  <2>1. p \in Placed /\ p[1] = k
    BY DEF Placed
  <2>2. At(p) = steps[k].observation[q]
    BY DEF At
  <2> QED
    BY <2>1, <2>2, PlaceFields DEF MakesCall
<1>2. StepsEdited
  BY DEF DocumentOK
<1>3. CASE edit \in {"none", "lost_account"}
  BY <1>1, <1>2, <1>3 DEF StepsEdited
<1>4. CASE edit = "lost_result"
  <2> PICK t : t = document.steps
    OBVIOUS
  <2>1. ResultRemoved(steps, t)
    BY <1>2, <1>4 DEF StepsEdited
  <2>2. i \in DOMAIN steps /\ t[i].tool_calls = steps[i].tool_calls
    BY <2>1, ResultLost
  <2>3. PICK q \in DOMAIN steps[i].observation : t[i].observation[r] = steps[i].observation[q]
    BY <2>1, ResultLost
  <2> QED
    BY <1>1, <2>2, <2>3
<1> QED
  BY <1>2, <1>3, <1>4 DEF StepsEdited

\* The report notices what is missing from its document.
LEMMA TamperingIsNoticed ==
    ASSUME ParsedOK, DocumentOK
    PROVE  TamperingNoticed
<1> SUFFICES ASSUME outcome = "ok"
             PROVE  /\ report.mismatch = CASE edit = "lost_call"   -> {"calls"}
                                           [] edit = "lost_result" -> {"results"}
                                           [] OTHER                -> {}
                    /\ \A i \in DOMAIN report.steps :
                          LET shown == report.steps[i] IN
                          /\ DOMAIN document.steps[i].observation =
                                shown.unmatched
                                \cup UNION {shown.calls[c].results : c \in DOMAIN shown.calls}
                          /\ edit # "lost_call" => shown.unmatched = {}
  BY DEF TamperingNoticed
<1>1. /\ file = "complete" /\ report = Render(document)
      /\ document.accounted <=> edit # "lost_account"
  BY DEF DocumentOK, AccountKept
<1>2. report.mismatch = CASE edit = "lost_call"   -> {"calls"}
                          [] edit = "lost_result" -> {"results"}
                          [] OTHER                -> {}
  <2>1. report.mismatch = IF ~document.accounted THEN {}
                          ELSE {c \in {"calls"} : ~ConsistentCalls(document)}
                               \cup {c \in {"results"} : ~ConsistentResults(document)}
    BY <1>1 DEF Render
  <2>2. /\ ConsistentCalls(document) <=> edit # "lost_call"
        /\ ConsistentResults(document) <=> edit # "lost_result"
    BY <1>1, ChecksHold
  <2>3. CASE edit = "lost_call"
    BY <1>1, <2>1, <2>2, <2>3
  <2>4. CASE edit = "lost_result"
    BY <1>1, <2>1, <2>2, <2>4
  <2>5. CASE edit # "lost_call" /\ edit # "lost_result"
    BY <1>1, <2>1, <2>2, <2>5
  <2> QED
    BY <2>3, <2>4, <2>5
<1>3. ASSUME NEW i \in DOMAIN report.steps
      PROVE  LET shown == report.steps[i] IN
             /\ DOMAIN document.steps[i].observation =
                   shown.unmatched \cup UNION {shown.calls[c].results : c \in DOMAIN shown.calls}
             /\ edit # "lost_call" => shown.unmatched = {}
  <2> PICK step : step = document.steps[i]
    OBVIOUS
  <2>1. i \in DOMAIN document.steps /\ report.steps[i] = Rendered(step)
    BY <1>1 DEF Render
  <2>2. DOMAIN step.observation =
           Unmatched(step) \cup UNION {ResultsOf(step, step.tool_calls[c]) : c \in DOMAIN step.tool_calls}
    BY DEF Unmatched, ResultsOf
  <2>3. edit # "lost_call" => Unmatched(step) = {}
    BY <1>1, <2>1, ResultsHaveCalls DEF Unmatched
  <2>4. /\ report.steps[i].unmatched = Unmatched(step)
        /\ DOMAIN report.steps[i].calls = DOMAIN step.tool_calls
        /\ \A c \in DOMAIN step.tool_calls :
              report.steps[i].calls[c].results = ResultsOf(step, step.tool_calls[c])
    BY <2>1 DEF Rendered
  <2> QED
    BY <2>2, <2>3, <2>4
<1> QED
  BY <1>2, <1>3

\* A call or a result that is missing from the document is noticed by the check of its
\* kind and by no other, and whatever is left is shown (TamperingNoticed).
THEOREM EditsAreNoticed == ExplainSpec => []TamperingNoticed
  BY TamperingIsNoticed, ExplainInvariance, PTL

-----------------------------------------------------------------------------
(***************************************************************************)
(* The report and the spans.                                               *)
(***************************************************************************)

\* The results of a document are numbered, whatever was edited.
LEMMA ResultsAreNumbered ==
    ASSUME ParsedOK, DocumentOK, file = "complete", NEW i \in DOMAIN document.steps
    PROVE  DOMAIN document.steps[i].observation \subseteq Nat
<1>1. StepsEdited /\ \A k \in DOMAIN steps : DOMAIN steps[k].observation \subseteq Nat
  BY StepFields DEF DocumentOK, ParsedOK
<1> PICK t : t = document.steps
  OBVIOUS
<1>2. CASE edit \in {"none", "lost_account"}
  BY <1>1, <1>2 DEF StepsEdited
<1>3. CASE edit = "lost_call"
  BY <1>1, <1>3, CallLost DEF StepsEdited
<1>4. CASE edit = "lost_result"
  BY <1>1, <1>4, ResultLost DEF StepsEdited
<1> QED
  BY <1>1, <1>2, <1>3, <1>4 DEF StepsEdited

\* Both judge one call of a step by its results.
LEMMA JudgementsAgree ==
    ASSUME NEW step, NEW c \in DOMAIN step.tool_calls, DOMAIN step.observation \subseteq Nat,
           NEW results, results = ResultsOf(step, step.tool_calls[c]),
           \A r \in results : step.observation[r].is_error # "affirmed"
    PROVE  LET status == CallStatus(step, step.tool_calls[c])
               span   == Spans!ToolStatus(step, c)
           IN  /\ span = "ERROR" => status = "error"
               /\ (\A q, r \in results : q = r) => (status = "error" => span = "ERROR")
<1>1. \A r \in results : /\ r \in Nat
                         /\ Spans!SaysError(step.observation[r]) <=> IsError(step.observation[r])
  BY DEF ResultsOf, Spans!SaysError, IsError
<1>2. CallStatus(step, step.tool_calls[c]) = "error" <=>
         \E r \in results : IsError(step.observation[r])
  <2>1. CallStatus(step, step.tool_calls[c]) =
           IF results = {} THEN "no result"
           ELSE IF \E r \in results : IsError(step.observation[r]) THEN "error" ELSE "result"
    BY DEF CallStatus
  <2> QED
    BY <2>1
<1>3. Spans!ToolStatus(step, c) = "ERROR" <=>
         \E first \in results : /\ \A r \in results : first <= r
                                /\ Spans!SaysError(step.observation[first])
  BY DEF Spans!ToolStatus, ResultsOf
<1> QED
  BY <1>1, <1>2, <1>3

\* So every row of the report agrees with the spans.
LEMMA ReportAgreesWithSpans ==
    ASSUME ParsedOK, DocumentOK
    PROVE  ReportAndSpansAgree
<1> SUFFICES ASSUME outcome = "ok",
                    NEW i \in DOMAIN report.steps, NEW c \in DOMAIN report.steps[i].calls,
                    \A r \in report.steps[i].calls[c].results :
                       document.steps[i].observation[r].is_error # "affirmed"
             PROVE  LET row  == report.steps[i].calls[c]
                        span == Spans!ToolStatus(document.steps[i], c)
                    IN  /\ span = "ERROR" => row.status = "error"
                        /\ (\A q, r \in row.results : q = r) => (row.status = "error" => span = "ERROR")
  BY DEF ReportAndSpansAgree
<1>1. file = "complete" /\ report = Render(document)
  BY DEF DocumentOK
<1> PICK step : step = document.steps[i]
  OBVIOUS
<1>2. /\ i \in DOMAIN document.steps /\ c \in DOMAIN step.tool_calls
      /\ report.steps[i].calls[c].status = CallStatus(step, step.tool_calls[c])
      /\ report.steps[i].calls[c].results = ResultsOf(step, step.tool_calls[c])
  BY <1>1 DEF Render, Rendered
<1>3. DOMAIN step.observation \subseteq Nat
  BY <1>1, <1>2, ResultsAreNumbered
<1> QED
  BY <1>2, <1>3, JudgementsAgree

\* Where every error flag is true or absent, the spans report no error that the report
\* does not, and both agree on a call with one result (ReportAndSpansAgree).
THEOREM BothReportTheSameErrors == ExplainSpec => []ReportAndSpansAgree
  BY ReportAgreesWithSpans, ExplainInvariance, PTL

-----------------------------------------------------------------------------
(***************************************************************************)
(* Whether anything was lost.                                              *)
(***************************************************************************)

\* A list without entries is the empty one.
LEMMA EmptyList ==
    ASSUME NEW f, f = [k \in DOMAIN f |-> f[k]]
    PROVE  f = <<>> <=> DOMAIN f = {}
OBVIOUS

\* A record with four fields is told by them.
LEMMA FourFields ==
    ASSUME NEW l, NEW r, NEW b, NEW f, NEW c,
           l = [records |-> l.records, blocks |-> l.blocks, fields |-> l.fields, counts |-> l.counts]
    PROVE  l = [records |-> r, blocks |-> b, fields |-> f, counts |-> c] <=>
              l.records = r /\ l.blocks = b /\ l.fields = f /\ l.counts = c
<1>1. ASSUME l = [records |-> r, blocks |-> b, fields |-> f, counts |-> c]
      PROVE  l.records = r /\ l.blocks = b /\ l.fields = f /\ l.counts = c
  BY <1>1
<1>2. ASSUME l.records = r, l.blocks = b, l.fields = f, l.counts = c
      PROVE  l = [records |-> r, blocks |-> b, fields |-> f, counts |-> c]
  BY <1>2
<1> QED
  BY <1>1, <1>2

\* "Nothing lost" is said if no list has an entry and no counter of losses counts.
LEMMA NothingLostMeans ==
    ASSUME ParsedOK, DocumentOK, file = "complete", edit # "lost_account"
    PROVE  NothingLost(document) <=>
              /\ DOMAIN breakdown.records = {} /\ DOMAIN breakdown.blocks = {}
              /\ DOMAIN breakdown.fields = {}
              /\ \A c \in LossCounters : fidelity[c] = 0
<1>1. /\ document.accounted /\ document.fidelity = fidelity /\ document.breakdown = breakdown
      /\ IsBreakdown(breakdown) /\ \A c \in LossCounters : fidelity[c] \in Nat
  BY DEF DocumentOK, AccountKept, ParsedOK, TypeInv, TypeOK, LossCounters, Counters
<1> DEFINE lost == Lost(document)
<1>2. /\ lost = [records |-> lost.records, blocks |-> lost.blocks,
                 fields |-> lost.fields, counts |-> lost.counts]
      /\ lost.records = [category \in {k[2] : k \in DOMAIN breakdown.records} |-> lost.records[category]]
      /\ lost.blocks = breakdown.blocks /\ lost.fields = DOMAIN breakdown.fields
      /\ lost.counts = {c \in LossCounters : fidelity[c] > 0}
  BY <1>1 DEF Lost
<1> HIDE DEF lost
<1>3. lost.records = <<>> <=> DOMAIN breakdown.records = {}
  <2>1. DOMAIN lost.records = {k[2] : k \in DOMAIN breakdown.records}
    BY <1>2
  <2>2. lost.records = <<>> <=> DOMAIN lost.records = {}
    BY <1>2, <2>1, EmptyList
  <2> QED
    BY <2>1, <2>2
<1>4. lost.blocks = <<>> <=> DOMAIN breakdown.blocks = {}
  BY <1>1, <1>2, EmptyList DEF IsBreakdown, IsTally
<1>5. lost.counts = {} <=> \A c \in LossCounters : fidelity[c] = 0
  BY <1>1, <1>2
<1>6. lost = [records |-> <<>>, blocks |-> <<>>, fields |-> {}, counts |-> {}] <=>
         lost.records = <<>> /\ lost.blocks = <<>> /\ lost.fields = {} /\ lost.counts = {}
  <2>1. lost = [records |-> lost.records, blocks |-> lost.blocks,
                fields |-> lost.fields, counts |-> lost.counts]
    BY <1>2
  <2> PICK empty, none : empty = <<>> /\ none = {}
    OBVIOUS
  <2>2. lost = [records |-> empty, blocks |-> empty, fields |-> none, counts |-> none] <=>
           lost.records = empty /\ lost.blocks = empty /\ lost.fields = none /\ lost.counts = none
    BY <2>1, FourFields
  <2> QED
    BY <2>2
<1> QED
  BY <1>1, <1>2, <1>3, <1>4, <1>5, <1>6 DEF NothingLost, lost

\* The blocks of the file, when it is parsed.
LEMMA AllParsed ==
    ASSUME ParsedOK, pc = "done", NEW n \in DOMAIN log, Converted(n), NEW b \in DOMAIN log[n].blocks
    PROVE  <<n, b>> \in Parsed
<1>1. log[n].blocks \in Seq(Block) /\ Len(log[n].blocks) \in 0 .. MaxBlocks /\ MaxBlocks \in Nat
  BY WhenDone, LineFields, BoundAssumption
<1>2. b \in 1 .. MaxBlocks /\ b <= Len(log[n].blocks)
  BY <1>1
<1>3. ParsedAt(n, b)
  BY <1>2, WhenDone DEF ParsedAt
<1> QED
  BY <1>2, <1>3, WhenDone DEF Parsed

\* If no result is orphaned, each is delivered.
LEMMA NoneOrphaned ==
    ASSUME ParsedOK, pc = "done"
    PROVE  fidelity["orphaned_tool_results"] = 0 <=> \A a \in Arrived : \E p \in Placed : Origin(p) = a
<1> DEFINE origin == [p \in Placed |-> Origin(p)]
<1>1. /\ IsFiniteSet(Placed) /\ IsFiniteSet(Arrived) /\ fidelity["orphaned_tool_results"] \in Nat
      /\ Cardinality(Arrived) = Cardinality(Placed) + fidelity["orphaned_tool_results"]
      /\ Cardinality(Placed) \in Nat /\ Cardinality(Arrived) \in Nat
  <2>1. IsFiniteSet(Arrived)
    <3>1. IsFiniteSet(Parsed)
      BY WhenDone, ParsedFinite
    <3>2. Arrived \subseteq Parsed
      BY ArrivedParsed
    <3> QED
      BY <3>1, <3>2, FS_Subset
  <2>2. IsFiniteSet(Placed) /\ ResultsAccounted
    BY DEF ParsedOK, TrafficInv
  <2>3. fidelity["orphaned_tool_results"] \in Nat /\ fidelity["observation_results_preserved"] \in Nat
    BY DEF ParsedOK, TypeInv, TypeOK, Counters
  <2> QED
    BY <2>1, <2>2, <2>3, WhenDone, FS_CardinalityType DEF ResultsAccounted
<1>2. origin \in Injection(Placed, Arrived)
  <2>1. origin \in [Placed -> Arrived]
    BY PlaceFields
  <2>2. \A p, q \in Placed : Origin(p) = Origin(q) => p = q
    BY DEF ParsedOK, DeliveryInv, PlacedOnce
  <2> QED
    BY <2>1, <2>2 DEF Injection, IsInjective
<1> HIDE DEF origin
<1>3. Cardinality(Placed) = Cardinality(Arrived) <=> origin \in Surjection(Placed, Arrived)
  BY <1>1, <1>2, FS_Injection
<1>4. origin \in Surjection(Placed, Arrived) <=> \A a \in Arrived : \E p \in Placed : origin[p] = a
  BY <1>2 DEF Surjection, Injection
<1>5. \A p \in Placed : origin[p] = Origin(p)
  BY DEF origin
<1> QED
  BY <1>1, <1>3, <1>4, <1>5

\* A set that can be counted is empty if the count is zero.
LEMMA NoneCounted ==
    ASSUME NEW S, IsFiniteSet(S)
    PROVE  Cardinality(S) = 0 <=> S = {}
BY FS_EmptySet

\* The counters of times count nothing if every time of the file could be used, and no
\* delivered result had one.
LEMMA NoTimeLost ==
    ASSUME ParsedOK, pc = "done"
    PROVE  /\ fidelity["omitted_tool_result_timestamps"] = 0 <=>
                 \A p \in Placed : log[At(p).line].timestamp # "valid"
           /\ fidelity["invalid_source_timestamps"] = 0 <=>
                 \A n \in DOMAIN log : Converted(n) => log[n].timestamp # "invalid"
<1>1. IsFiniteSet(TimedPlaces)
  <2>1. TimedPlaces \subseteq Placed /\ IsFiniteSet(Placed)
    BY DEF TimedPlaces, ParsedOK, TrafficInv
  <2> QED
    BY <2>1, FS_Subset
<1>2. IsFiniteSet(Untimed)
  <2>1. IsFiniteSet(1 .. line_number)
    BY WhenDone, FS_Interval
  <2>2. Untimed \subseteq 1 .. line_number
    BY DEF Untimed
  <2> QED
    BY <2>1, <2>2, FS_Subset
<1>3. TimesOK
  BY DEF ParsedOK
<1>4. fidelity["omitted_tool_result_timestamps"] = 0 <=> TimedPlaces = {}
  BY <1>1, <1>3, NoneCounted DEF TimesOK
<1>5. fidelity["invalid_source_timestamps"] = 0 <=> Untimed = {}
  BY <1>2, <1>3, NoneCounted DEF TimesOK
<1> QED
  BY <1>4, <1>5, WhenDone DEF TimedPlaces, Untimed

\* The list of fields is empty if no converted line has one to ignore.
LEMMA NoFieldLost ==
    ASSUME ParsedOK, pc = "done"
    PROVE  DOMAIN breakdown.fields = {} <=> \A n \in DOMAIN log : Converted(n) => log[n].ignored = {}
<1>1. \A n : n \in Turns <=> n \in DOMAIN log /\ Converted(n)
  BY WhenDone DEF Turns
<1>2. ASSUME NEW f \in Fields
      PROVE  f \in DOMAIN breakdown.fields <=> Ignoring(f) # {}
  <2>1. IsFiniteSet(Ignoring(f))
    <3>1. IsFiniteSet(1 .. line_number)
      BY WhenDone, FS_Interval
    <3>2. Ignoring(f) \subseteq 1 .. line_number
      BY WhenDone DEF Ignoring, Turns
    <3> QED
      BY <3>1, <3>2, FS_Subset
  <2>2. Cardinality(Ignoring(f)) = 0 <=> Ignoring(f) = {}
    BY <2>1, NoneCounted
  <2>3. Cardinality(Ignoring(f)) = 0 <=> f \notin DOMAIN breakdown.fields
    <3>1. /\ Cardinality(Ignoring(f)) = IF f \in DOMAIN breakdown.fields THEN breakdown.fields[f] ELSE 0
          /\ f \in DOMAIN breakdown.fields => breakdown.fields[f] > 0
      BY DEF ParsedOK, FieldsOK, NothingMissed
    <3> QED
      BY <3>1
  <2> QED
    BY <2>2, <2>3
<1>3. ASSUME NEW n \in DOMAIN log PROVE log[n].ignored \subseteq Fields
  <2>1. log[n] \in FileLines
    BY WhenDone
  <2>2. log[n] \in Line
    BY <2>1, LineFields
  <2> QED
    BY <2>2 DEF Line
<1>4. DOMAIN breakdown.fields \subseteq Fields
  BY DEF ParsedOK, FieldsOK
<1> QED
  BY <1>1, <1>2, <1>3, <1>4 DEF Ignoring

\* No usage is counted as a conflict if those of a response are all the same.
LEMMA NoUsageConflicts ==
    ASSUME ParsedOK, pc = "done"
    PROVE  fidelity["conflicting_usage_records"] = 0 <=>
              \A id \in MessageIds : \A n, k \in UsageRecords(id) : log[n].usage = log[k].usage
<1> DEFINE conflicts == {n \in Repeats : ~Agrees(n)}
<1>1. \A n : n \in Repeats <=> \E id \in MessageIds : n \in UsageRecords(id) /\ n # First(id)
  BY DEF Repeats
<1>2. IsFiniteSet(conflicts)
  <2>1. IsFiniteSet(1 .. line_number)
    BY WhenDone, FS_Interval
  <2>2. conflicts \subseteq 1 .. line_number
    BY <1>1, WhenDone DEF UsageRecords
  <2> QED
    BY <2>1, <2>2, FS_Subset
<1>3. fidelity["conflicting_usage_records"] = 0 <=> conflicts = {}
  BY <1>2, NoneCounted DEF ParsedOK, RepeatsOK
<1>4. ASSUME NEW id \in MessageIds, NEW n \in UsageRecords(id)
      PROVE  /\ First(id) \in UsageRecords(id)
             /\ Agrees(n) <=> log[n].usage = log[First(id)].usage
  <2>1. UsageRecords(id) \in SUBSET Nat /\ log[n].id = id
    BY WhenDone DEF UsageRecords
  <2>2. First(id) \in UsageRecords(id)
    BY <2>1, FirstOf DEF First
  <2> QED
    BY <2>1, <2>2 DEF Agrees
<1>5. ASSUME conflicts = {}, NEW id \in MessageIds, NEW n \in UsageRecords(id)
      PROVE  log[n].usage = log[First(id)].usage
  BY <1>1, <1>4, <1>5
<1>6. ASSUME \A id \in MessageIds : \A n, k \in UsageRecords(id) : log[n].usage = log[k].usage,
             NEW n \in Repeats
      PROVE  Agrees(n)
  BY <1>1, <1>4, <1>6
<1> HIDE DEF conflicts
<1>7. ASSUME conflicts = {}, NEW id \in MessageIds, NEW n \in UsageRecords(id), NEW k \in UsageRecords(id)
      PROVE  log[n].usage = log[k].usage
  <2>1. log[n].usage = log[First(id)].usage
    BY <1>5, <1>7
  <2>2. log[k].usage = log[First(id)].usage
    BY <1>5, <1>7
  <2> QED
    BY <2>1, <2>2
<1>8. conflicts = {} <=> \A n \in Repeats : Agrees(n)
  BY DEF conflicts
<1> QED
  BY <1>3, <1>6, <1>7, <1>8

\* A result is delivered exactly if its call is in a line before it.
LEMMA DeliveredHasCall ==
    ASSUME ParsedOK, pc = "done", NEW a \in Arrived
    PROVE  (\E p \in Placed : Origin(p) = a) <=> \E k \in 1 .. a[1] - 1 : BlockOf(a).id \in CallsIn(k)
<1>1. a[1] \in DOMAIN log /\ DOMAIN log = 1 .. line_number /\ line_number \in Nat
  BY WhenDone DEF Arrived
<1>2. ASSUME NEW p \in Placed, Origin(p) = a
      PROVE  \E k \in 1 .. a[1] - 1 : BlockOf(a).id \in CallsIn(k)
  <2> PICK k : k = steps[p[1]].source_line
    OBVIOUS
  <2>1. /\ p[1] \in DOMAIN steps /\ MakesCall(p[1], BlockOf(a).id) /\ k < a[1]
    BY <1>2, PlaceFields
  <2>2. k \in 1 .. MaxLines
    BY <2>1, StepFields DEF ParsedOK, Step
  <2>3. BlockOf(a).id \in CallsIn(k)
    BY <2>1, StepHasCall
  <2>4. k \in 1 .. a[1] - 1
    BY <1>1, <2>1, <2>2, BoundAssumption
  <2> QED
    BY <2>3, <2>4
<1>3. ASSUME NEW k \in 1 .. a[1] - 1, BlockOf(a).id \in CallsIn(k)
      PROVE  \E p \in Placed : Origin(p) = a
  <2>1. k \in DOMAIN log /\ k < a[1]
    BY <1>1
  <2>2. PICK i \in DOMAIN steps : steps[i].source_line = k /\ MakesCall(i, BlockOf(a).id)
    BY <1>3, <2>1, CallHasStep
  <2> QED
    BY <2>1, <2>2, AnswerIsPlaced
<1> QED
  BY <1>2, <1>3

\* Block b of line n is a result for a tool call, where one may be.
IsResult(n, b) == log[n].blocks[b].kind = "tool_result" /\ log[n].role = "user"

\* The result has a call before it, and no time that is left behind.
WellPlaced(n, b) ==
    /\ log[n].timestamp = "absent"
    /\ \E k \in 1 .. n - 1 : log[n].blocks[b].id \in CallsIn(k)

\* All of the lines are turns of the trajectory.
AllConverted == \A n \in DOMAIN log : Converted(n)

\* The blocks the parser has come to are those of the file, and so are the results.
LEMMA BlocksOfFile ==
    ASSUME ParsedOK, pc = "done", AllConverted
    PROVE  /\ (\A a \in Parsed : Kept(a[1], a[2])) <=>
                 \A n \in DOMAIN log : \A b \in DOMAIN log[n].blocks : Kept(n, b)
           /\ \A a \in Arrived : /\ a[1] \in DOMAIN log /\ a[2] \in DOMAIN log[a[1]].blocks
                                 /\ IsResult(a[1], a[2])
           /\ \A n \in DOMAIN log : \A b \in DOMAIN log[n].blocks :
                 IsResult(n, b) => <<n, b>> \in Arrived
<1>1. ASSUME NEW a \in Parsed
      PROVE  a[1] \in DOMAIN log /\ a[2] \in DOMAIN log[a[1]].blocks
  <2>1. a[1] \in DOMAIN log /\ a[2] \in 1 .. MaxBlocks /\ a[2] <= Len(log[a[1]].blocks)
    BY WhenDone DEF Parsed, ParsedAt
  <2>2. log[a[1]].blocks \in Seq(Block) /\ MaxBlocks \in Nat
    <3>1. log[a[1]] \in FileLines
      BY <2>1, WhenDone
    <3> QED
      BY <3>1, LineFields, BoundAssumption
  <2> QED
    BY <2>1, <2>2
<1>2. ASSUME NEW n \in DOMAIN log, NEW b \in DOMAIN log[n].blocks
      PROVE  <<n, b>> \in Parsed
  BY AllParsed DEF AllConverted
<1>3. (\A a \in Parsed : Kept(a[1], a[2])) <=>
         \A n \in DOMAIN log : \A b \in DOMAIN log[n].blocks : Kept(n, b)
  <2>1. ASSUME \A a \in Parsed : Kept(a[1], a[2]), NEW n \in DOMAIN log, NEW b \in DOMAIN log[n].blocks
        PROVE  Kept(n, b)
    <3>1. Kept(<<n, b>>[1], <<n, b>>[2])
      BY <1>2, <2>1
    <3> QED
      BY <3>1
  <2>2. ASSUME \A n \in DOMAIN log : \A b \in DOMAIN log[n].blocks : Kept(n, b), NEW a \in Parsed
        PROVE  Kept(a[1], a[2])
    BY <1>1, <2>2
  <2> QED
    BY <2>1, <2>2
<1>4. ASSUME NEW a \in Arrived
      PROVE  a[1] \in DOMAIN log /\ a[2] \in DOMAIN log[a[1]].blocks /\ IsResult(a[1], a[2])
  BY <1>1, ArrivedParsed DEF IsResult
<1>5. ASSUME NEW n \in DOMAIN log, NEW b \in DOMAIN log[n].blocks, IsResult(n, b)
      PROVE  <<n, b>> \in Arrived
  <2> PICK a : a = <<n, b>>
    OBVIOUS
  <2>1. a \in Parsed /\ log[a[1]].role = "user" /\ log[a[1]].blocks[a[2]].kind = "tool_result"
    BY <1>2, <1>5 DEF IsResult
  <2>2. a \in Arrived
    BY <2>1, ArrivedParsed
  <2> QED
    BY <2>2
<1> QED
  BY <1>3, <1>4, <1>5

\* Where all lines are converted and all times can be used, the counters of results
\* count nothing if every result is well placed.
LEMMA NoResultLost ==
    ASSUME ParsedOK, pc = "done", AllConverted, \A n \in DOMAIN log : log[n].timestamp # "invalid"
    PROVE  /\ fidelity["orphaned_tool_results"] = 0
           /\ fidelity["omitted_tool_result_timestamps"] = 0
           <=> \A n \in DOMAIN log : \A b \in DOMAIN log[n].blocks : IsResult(n, b) => WellPlaced(n, b)
<1>1. /\ fidelity["orphaned_tool_results"] = 0 <=> \A a \in Arrived : \E p \in Placed : Origin(p) = a
      /\ fidelity["omitted_tool_result_timestamps"] = 0 <=>
            \A p \in Placed : log[At(p).line].timestamp # "valid"
  BY NoneOrphaned, NoTimeLost
<1>2. ASSUME \A a \in Arrived : \E p \in Placed : Origin(p) = a,
             \A p \in Placed : log[At(p).line].timestamp # "valid",
             NEW n \in DOMAIN log, NEW b \in DOMAIN log[n].blocks, IsResult(n, b)
      PROVE  WellPlaced(n, b)
  <2> PICK a : a = <<n, b>>
    OBVIOUS
  <2>1. a \in Arrived /\ a[1] = n /\ BlockOf(a) = log[n].blocks[b]
    BY <1>2, BlocksOfFile DEF BlockOf
  <2>2. PICK p \in Placed : Origin(p) = a
    BY <1>2, <2>1
  <2>3. At(p).line = n
    BY <2>1, <2>2 DEF Origin
  <2>4. log[n].timestamp \in {"absent", "valid", "invalid"}
    <3>1. log[n] \in FileLines
      BY WhenDone
    <3>2. log[n] \in Line
      BY <3>1, LineFields
    <3> QED
      BY <3>2 DEF Line
  <2>5. log[n].timestamp # "valid"
    BY <1>2, <2>2, <2>3
  <2>6. \E k \in 1 .. a[1] - 1 : BlockOf(a).id \in CallsIn(k)
    BY <2>1, <2>2, DeliveredHasCall
  <2> QED
    BY <2>1, <2>4, <2>5, <2>6 DEF WellPlaced
<1>3. ASSUME \A n \in DOMAIN log : \A b \in DOMAIN log[n].blocks : IsResult(n, b) => WellPlaced(n, b),
             NEW a \in Arrived
      PROVE  \E p \in Placed : Origin(p) = a
  <2>1. WellPlaced(a[1], a[2])
    BY <1>3, BlocksOfFile
  <2>2. \E k \in 1 .. a[1] - 1 : BlockOf(a).id \in CallsIn(k)
    BY <2>1 DEF WellPlaced, BlockOf
  <2> QED
    BY <2>2, DeliveredHasCall
<1>4. ASSUME \A n \in DOMAIN log : \A b \in DOMAIN log[n].blocks : IsResult(n, b) => WellPlaced(n, b),
             NEW p \in Placed
      PROVE  log[At(p).line].timestamp # "valid"
  <2> PICK a : a = Origin(p)
    OBVIOUS
  <2>1. a \in Arrived /\ a[1] = At(p).line
    BY PlaceFields
  <2>2. WellPlaced(a[1], a[2])
    BY <1>4, <2>1, BlocksOfFile
  <2> QED
    BY <2>1, <2>2 DEF WellPlaced
<1> QED
  BY <1>1, <1>2, <1>3, <1>4

\* "Nothing lost" stands in the report if the file says so.
LEMMA NothingLostHolds ==
    ASSUME ParsedOK, DocumentOK
    PROVE  NothingLostIsTrue
<1> SUFFICES ASSUME outcome = "ok", edit # "lost_account"
             PROVE  report.nothing_lost <=>
                       /\ \A n \in DOMAIN log :
                             /\ Converted(n) /\ log[n].ignored = {} /\ log[n].timestamp # "invalid"
                             /\ ~NonListContent(log[n])
                             /\ \A b \in DOMAIN log[n].blocks :
                                   Kept(n, b) /\ (IsResult(n, b) => WellPlaced(n, b))
                       /\ \A id \in MessageIds : \A n, k \in UsageRecords(id) : log[n].usage = log[k].usage
  <2>1. \A n \in DOMAIN log : \A b \in DOMAIN log[n].blocks :
           LET block_n == log[n].blocks[b] IN
           \/ block_n.kind = "text" /\ block_n.valid
           \/ block_n.kind = "tool_use" /\ UsableCall(block_n) /\ log[n].role = "assistant"
           \/ /\ block_n.kind = "tool_result" /\ log[n].role = "user"
              /\ log[n].timestamp = "absent" /\ DroppedItems(block_n.items) = 0
              /\ \E k \in 1 .. n - 1 : block_n.id \in CallsIn(k)
           <=> Kept(n, b) /\ (IsResult(n, b) => WellPlaced(n, b))
    BY DEF Kept, IsResult, WellPlaced
  <2> QED
    BY <2>1 DEF NothingLostIsTrue
<1>1. /\ file = "complete" /\ pc = "done" /\ report.nothing_lost = NothingLost(document)
      /\ DOMAIN log = 1 .. line_number
  BY WhenDone DEF DocumentOK, Render
<1>2. NothingLost(document) <=>
         /\ DOMAIN breakdown.records = {} /\ DOMAIN breakdown.blocks = {}
         /\ DOMAIN breakdown.fields = {}
         /\ fidelity["orphaned_tool_results"] = 0
         /\ fidelity["omitted_tool_result_timestamps"] = 0
         /\ fidelity["invalid_source_timestamps"] = 0
         /\ fidelity["conflicting_usage_records"] = 0
  BY <1>1, NothingLostMeans DEF LossCounters
<1>3. DOMAIN breakdown.records = {} <=> AllConverted
  BY <1>1 DEF ParsedOK, NothingMissed, AllConverted
<1>4. ASSUME AllConverted
      PROVE  /\ DOMAIN breakdown.blocks = {} <=>
                   /\ \A n \in DOMAIN log : ~NonListContent(log[n])
                   /\ \A n \in DOMAIN log : \A b \in DOMAIN log[n].blocks : Kept(n, b)
             /\ DOMAIN breakdown.fields = {} <=> \A n \in DOMAIN log : log[n].ignored = {}
             /\ fidelity["invalid_source_timestamps"] = 0 <=>
                   \A n \in DOMAIN log : log[n].timestamp # "invalid"
  <2>1. \A n \in 1 .. line_number : ContentKept(n) <=> ~NonListContent(log[n])
    BY <1>1, <1>4 DEF AllConverted, ContentKept
  <2>2. DOMAIN breakdown.blocks = {} <=> /\ \A n \in 1 .. line_number : ContentKept(n)
                                         /\ \A a \in Parsed : Kept(a[1], a[2])
    BY DEF ParsedOK, NothingMissed
  <2>3. DOMAIN breakdown.fields = {} <=> \A n \in DOMAIN log : log[n].ignored = {}
    BY <1>1, <1>4, NoFieldLost DEF AllConverted
  <2>4. fidelity["invalid_source_timestamps"] = 0 <=>
           \A n \in DOMAIN log : log[n].timestamp # "invalid"
    BY <1>1, <1>4, NoTimeLost DEF AllConverted
  <2>5. (\A a \in Parsed : Kept(a[1], a[2])) <=>
           \A n \in DOMAIN log : \A b \in DOMAIN log[n].blocks : Kept(n, b)
    BY <1>1, <1>4, BlocksOfFile
  <2> QED
    BY <1>1, <2>1, <2>2, <2>3, <2>4, <2>5
<1>5. fidelity["conflicting_usage_records"] = 0 <=>
         \A id \in MessageIds : \A n, k \in UsageRecords(id) : log[n].usage = log[k].usage
  BY <1>1, NoUsageConflicts
<1>6. ASSUME AllConverted, \A n \in DOMAIN log : log[n].timestamp # "invalid"
      PROVE  /\ fidelity["orphaned_tool_results"] = 0
             /\ fidelity["omitted_tool_result_timestamps"] = 0
             <=> \A n \in DOMAIN log : \A b \in DOMAIN log[n].blocks :
                    IsResult(n, b) => WellPlaced(n, b)
  BY <1>1, <1>6, NoResultLost
<1>7. AllConverted <=> \A n \in DOMAIN log : Converted(n)
  BY DEF AllConverted
<1> QED
  BY <1>1, <1>2, <1>3, <1>4, <1>5, <1>6, <1>7

\* The report says that nothing was lost exactly if the file lost nothing on the way
\* (NothingLostIsTrue).
THEOREM NothingIsLostSilently == ExplainSpec => []NothingLostIsTrue
  BY NothingLostHolds, ExplainInvariance, PTL

-----------------------------------------------------------------------------
(***************************************************************************)
(* The tokens of the report.                                               *)
(***************************************************************************)

\* Finitely many numbers have a total.
LEMMA CellsAreFinite ==
    ASSUME NEW D, IsFiniteSet(D), NEW f \in [D -> Nat]
    PROVE  IsFiniteSet(Cells(f))
<1> DEFINE columns == {{k} \X (1 .. f[k]) : k \in D}
           column == [k \in D |-> {k} \X (1 .. f[k])]
<1>1. column \in Surjection(D, columns)
  BY DEF Surjection
<1>2. IsFiniteSet(columns)
  BY <1>1, FS_Surjection
<1>3. ASSUME NEW k \in D PROVE IsFiniteSet({k} \X (1 .. f[k]))
  <2>1. IsFiniteSet(1 .. f[k])
    BY FS_Interval
  <2> QED
    BY <2>1, ColumnSize
<1>4. IsFiniteSet(UNION columns)
  BY <1>2, <1>3, FS_UNION
<1>5. Cells(f) = UNION columns
  BY DEF Cells
<1> QED
  BY <1>4, <1>5

\* The same numbers under other names have the same total.
LEMMA SameTotal ==
    ASSUME NEW D, IsFiniteSet(D), NEW f \in [D -> Nat], NEW E, NEW g \in [E -> Nat],
           NEW h \in [D -> E],
           \A i, k \in D : h[i] = h[k] => i = k,
           \A e \in E : \E k \in D : h[k] = e,
           \A k \in D : g[h[k]] = f[k]
    PROVE  Total(f) = Total(g)
<1> DEFINE cell == [c \in Cells(f) |-> <<h[c[1]], c[2]>>]
<1>1. \A c \in Cells(f) : c = <<c[1], c[2]>> /\ c[1] \in D /\ c[2] \in 1 .. f[c[1]]
  BY DEF Cells
<1>2. \A k, n : <<k, n>> \in Cells(g) <=> k \in E /\ n \in 1 .. g[k]
  BY DEF Cells
<1>3. \A k, n : <<k, n>> \in Cells(f) <=> k \in D /\ n \in 1 .. f[k]
  BY DEF Cells
<1>4. cell \in [Cells(f) -> Cells(g)]
  BY <1>1, <1>2
<1>5. \A b, c \in Cells(f) : cell[b] = cell[c] => b = c
  BY <1>1
<1>6. ASSUME NEW t \in Cells(g) PROVE \E c \in Cells(f) : cell[c] = t
  <2>1. t = <<t[1], t[2]>> /\ t[1] \in E /\ t[2] \in 1 .. g[t[1]]
    BY DEF Cells
  <2>2. PICK k \in D : h[k] = t[1]
    BY <2>1
  <2>3. <<k, t[2]>> \in Cells(f)
    BY <1>3, <2>1, <2>2
  <2> QED
    BY <2>1, <2>2, <2>3
<1>7. IsFiniteSet(Cells(f))
  BY CellsAreFinite
<1> HIDE DEF cell
<1> QED
  BY <1>4, <1>5, <1>6, <1>7, SameSize DEF Total

\* The total of the numbers is that of two parts of them.
LEMMA TwoParts ==
    ASSUME NEW D, IsFiniteSet(D), NEW f \in [D -> Nat], NEW A, NEW B, D = A \cup B, A \cap B = {}
    PROVE  Total(f) = Total([k \in A |-> f[k]]) + Total([k \in B |-> f[k]])
<1> PICK a, b : a = [k \in A |-> f[k]] /\ b = [k \in B |-> f[k]]
  OBVIOUS
<1>1. IsFiniteSet(A) /\ IsFiniteSet(B)
  BY FS_Subset
<1>2. IsFiniteSet(Cells(a)) /\ IsFiniteSet(Cells(b))
  <2>1. a \in [A -> Nat] /\ b \in [B -> Nat]
    OBVIOUS
  <2> QED
    BY <1>1, <2>1, CellsAreFinite
<1>3. Cells(f) = Cells(a) \cup Cells(b) /\ Cells(a) \cap Cells(b) = {}
  BY DEF Cells
<1> QED
  BY <1>2, <1>3, DisjointUnion DEF Total

\* The steps that carry metrics, those of an identified response, and what each costs.
Costly == {k \in DOMAIN steps : steps[k].metrics # NoUsage}

OfResponse == {k \in Costly : steps[k].source_message_id # NoMessageId}

Cost == [i \in Costly |-> Tokens[steps[i].metrics]]

\* The identified responses with usage, and what the first usage of each costs.
Responses == {m \in MessageIds : UsageRecords(m) # {}}

FirstCost == [id \in Responses |-> Tokens[log[Min(UsageRecords(id))].usage]]

LoneCost == [n \in UsageRecords(NoMessageId) |-> Tokens[log[n].usage]]

\* All of these are numbers of finitely many things.
LEMMA CostsAreNumbers ==
    ASSUME ParsedOK, pc = "done"
    PROVE  /\ IsFiniteSet(Costly) /\ Cost \in [Costly -> Nat]
           /\ FirstCost \in [Responses -> Nat]
           /\ LoneCost \in [UsageRecords(NoMessageId) -> Nat]
<1>1. IsFiniteSet(Costly)
  <2>1. IsFiniteSet(DOMAIN steps)
    BY StepFields, FS_Interval DEF ParsedOK
  <2> QED
    BY <2>1, FS_Subset DEF Costly
<1>2. Cost \in [Costly -> Nat]
  <2>1. \A i \in Costly : steps[i].metrics \in Usages
    BY StepFields DEF ParsedOK, Costly, Step
  <2> QED
    BY <2>1, TokensAssumption DEF Cost
<1>3. ASSUME NEW id, NEW n \in UsageRecords(id) PROVE Tokens[log[n].usage] \in Nat
  <2>1. n \in DOMAIN log /\ log[n].usage # NoUsage
    BY WhenDone DEF UsageRecords
  <2>2. log[n] \in FileLines
    BY <2>1, WhenDone
  <2>3. log[n].usage \in Usages
    BY <2>1, <2>2, LineFields
  <2> QED
    BY <2>3, TokensAssumption
<1>4. ASSUME NEW id \in Responses PROVE Min(UsageRecords(id)) \in UsageRecords(id)
  <2>1. UsageRecords(id) \in SUBSET Nat /\ UsageRecords(id) # {}
    BY WhenDone DEF UsageRecords, Responses
  <2> QED
    BY <2>1, FirstOf
<1> QED
  BY <1>1, <1>2, <1>3, <1>4 DEF FirstCost, LoneCost

\* An identified response is charged to one step, with its first usage.
LEMMA ResponsesCost ==
    ASSUME ParsedOK, pc = "done"
    PROVE  Total([k \in OfResponse |-> Cost[k]]) = Total(FirstCost)
<1> PICK f : f = [k \in OfResponse |-> Cost[k]]
  OBVIOUS
<1> PICK h : h = [k \in OfResponse |-> steps[k].source_message_id]
  OBVIOUS
<1>1. /\ IsFiniteSet(OfResponse) /\ f \in [OfResponse -> Nat] /\ FirstCost \in [Responses -> Nat]
  BY CostsAreNumbers, FS_Subset DEF OfResponse
<1>2. ASSUME NEW k \in OfResponse, NEW id, id = steps[k].source_message_id
      PROVE  /\ id \in Responses /\ k \in DOMAIN steps
             /\ steps[k].source_line = First(id) /\ steps[k].metrics = log[First(id)].usage
  <2>1. k \in DOMAIN steps /\ id \in MessageIds
    BY <1>2, StepFields DEF ParsedOK, OfResponse, Costly, Step
  <2>2. k \in Charged(id)
    BY <1>2 DEF OfResponse, Costly, Charged
  <2> QED
    BY <2>1, <2>2 DEF ParsedOK, ChargedOK, Responses
<1>3. h \in [OfResponse -> Responses]
  BY <1>2
<1>4. ASSUME NEW i \in OfResponse, NEW k \in OfResponse, h[i] = h[k] PROVE i = k
  <2>1. i \in DOMAIN steps /\ k \in DOMAIN steps /\ steps[i].source_line = steps[k].source_line
    BY <1>2, <1>4
  <2> QED
    BY <2>1, OneStepPerTurn DEF ParsedOK
<1>5. ASSUME NEW id \in Responses PROVE \E k \in OfResponse : h[k] = id
  <2>1. id \in MessageIds /\ UsageRecords(id) # {}
    BY DEF Responses
  <2>2. PICK k \in Charged(id) : TRUE
    BY <2>1 DEF ParsedOK, ChargedOK
  <2>3. k \in OfResponse
    BY <2>1, <2>2, SentinelAssumption DEF Charged, OfResponse, Costly
  <2> QED
    BY <2>2, <2>3 DEF Charged
<1>6. \A k \in OfResponse : FirstCost[h[k]] = f[k]
  BY <1>2 DEF FirstCost, First, Cost, OfResponse
<1>7. Total(f) = Total(FirstCost)
  BY <1>1, <1>3, <1>4, <1>5, <1>6, SameTotal
<1> QED
  BY <1>7

\* Usage without a response id is charged to the step of its record.
LEMMA LoneRecordsCost ==
    ASSUME ParsedOK, pc = "done"
    PROVE  Total([k \in Charged(NoMessageId) |-> Cost[k]]) = Total(LoneCost)
<1> PICK id : id = NoMessageId
  OBVIOUS
<1> PICK f : f = [k \in Charged(id) |-> Cost[k]]
  OBVIOUS
<1> PICK h : h = [k \in Charged(id) |-> steps[k].source_line]
  OBVIOUS
<1>0. Charged(id) \subseteq Costly
  BY DEF Charged, Costly
<1>1. /\ IsFiniteSet(Charged(id)) /\ f \in [Charged(id) -> Nat] /\ LoneCost \in [UsageRecords(id) -> Nat]
  BY <1>0, CostsAreNumbers, FS_Subset
<1>2. ASSUME NEW k \in Charged(id)
      PROVE  /\ k \in DOMAIN steps /\ steps[k].source_line \in UsageRecords(id)
             /\ steps[k].metrics = log[steps[k].source_line].usage
  BY DEF ParsedOK, UnidentifiedOK, Charged
<1>3. h \in [Charged(id) -> UsageRecords(id)]
  BY <1>2
<1>4. ASSUME NEW i \in Charged(id), NEW k \in Charged(id), h[i] = h[k] PROVE i = k
  <2>1. i \in DOMAIN steps /\ k \in DOMAIN steps /\ steps[i].source_line = steps[k].source_line
    BY <1>2, <1>4
  <2> QED
    BY <2>1, OneStepPerTurn DEF ParsedOK
<1>5. ASSUME NEW n \in UsageRecords(id) PROVE \E k \in Charged(id) : h[k] = n
  BY DEF ParsedOK, UnidentifiedOK
<1>6. \A k \in Charged(id) : LoneCost[h[k]] = f[k]
  BY <1>0, <1>2 DEF LoneCost, Cost
<1>7. Total(f) = Total(LoneCost)
  BY <1>1, <1>3, <1>4, <1>5, <1>6, SameTotal
<1> QED
  BY <1>7

\* The tokens of a faithful report are those of the two kinds of usage.
LEMMA TokensHold ==
    ASSUME ParsedOK, DocumentOK
    PROVE  TokensPerResponse
<1> SUFFICES ASSUME Faithful
             PROVE  report.tokens = Total(FirstCost) + Total(LoneCost)
  BY DEF TokensPerResponse, FirstCost, LoneCost, Responses
<1>1. pc = "done" /\ document.steps = steps /\ report = Render(document)
  BY FaithfulReport
<1>2. report.tokens = Total(Cost)
  BY <1>1 DEF Render, TokenUsage, Cost, Costly
<1>3. Costly = OfResponse \cup Charged(NoMessageId) /\ OfResponse \cap Charged(NoMessageId) = {}
  BY DEF Costly, OfResponse, Charged
<1>4. Total(Cost) = Total([k \in OfResponse |-> Cost[k]])
                    + Total([k \in Charged(NoMessageId) |-> Cost[k]])
  BY <1>1, <1>3, CostsAreNumbers, TwoParts
<1> QED
  BY <1>1, <1>2, <1>4, ResponsesCost, LoneRecordsCost

\* The report adds up the tokens of each response once (TokensPerResponse).
THEOREM EachResponseIsPaidOnce == ExplainSpec => []TokensPerResponse
  BY TokensHold, ExplainInvariance, PTL
=============================================================================
