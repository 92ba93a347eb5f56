--------------------------- MODULE AccountingProofs ---------------------------
(***************************************************************************)
(* Nothing of the file goes missing: the calls and the results of the file *)
(* against the trajectory and the counters, the order in which results are *)
(* delivered, the transformation that the report names, and the losses     *)
(* that it lists.  What the counters count is always a set of places, in   *)
(* the file or in the trajectory, and each step of the parser adds at most *)
(* one to it, or for a result that loses items, a column.                  *)
(*                                                                         *)
(* And what the trajectory says of the file: its turns, the metadata and   *)
(* the token usage, and the calls of each message in their order.          *)
(***************************************************************************)
EXTENDS ClaudeParserProofs, WellFoundedInduction

-----------------------------------------------------------------------------
(***************************************************************************)
(* The file, step by step: which of its lines are finished, and which of   *)
(* its blocks the parser has come to.                                      *)
(***************************************************************************)

\* The parser has come to block b of line n.
ParsedAt(n, b) ==
    /\ n \in 1 .. line_number /\ b \in 1 .. MaxBlocks
    /\ Converted(n) /\ b <= Len(log[n].blocks)
    /\ n \in Finished \/ b < at

Parsed == {a \in Nat \X Nat : ParsedAt(a[1], a[2])}

\* The file is only ever appended to.
LEMMA FileGrows ==
    ASSUME TypeInv, NEW l \in FileLines, log' = Append(log, l)
    PROVE  /\ line_number \in Nat /\ line_number' = line_number + 1
           /\ log'[line_number + 1] = l
           /\ \A n \in 1 .. line_number :
                 log'[n] = log[n] /\ (Converted(n)' <=> Converted(n)) /\ (Supported(n)' <=> Supported(n))
<1>1. log \in Seq(FileLines)
  BY DEF TypeInv, TypeOK
<1>2. /\ line_number \in Nat /\ line_number' = line_number + 1
      /\ log'[line_number + 1] = l
      /\ \A n \in 1 .. line_number : log'[n] = log[n]
  BY <1>1 DEF line_number
<1> QED
  BY <1>2 DEF Converted, Supported

\* A line that is skipped or raises, and with it no part of the parser's work.
LEMMA SkipEffect ==
    ASSUME TypeInv, NEW l \in FileLines, SkipLine(l) \/ Raise(l)
    PROVE  /\ pc = "reading" /\ pc' \in {"reading", "raised"} /\ log' = Append(log, l)
           /\ ~Converted(line_number)'
           /\ UNCHANGED <<at, content, tool_calls, tool_results, attached>>
           /\ UNCHANGED <<steps, tool_call_steps, usage_by_message, normalized, transformations>>
<1>1. /\ pc = "reading" /\ pc' \in {"reading", "raised"} /\ log' = Append(log, l)
      /\ UNCHANGED <<local, output, normalized, transformations>>
      /\ \/ l.shape # "object"
         \/ l.type \notin SupportedTypes
         \/ ~l.message
         \/ l.role \notin SupportedTypes
  BY DEF SkipLine, Raise, MalformedLine, NonObjectLine, UnsupportedType, NoMessage,
         UnsupportedRole, UnhashableType, UnhashableRole, SupportedRecord, ReadLine, SupportedTypes
<1>2. log'[line_number'] = l
  BY <1>1, FileGrows
<1>3. ~Converted(line_number)'
  BY <1>1, <1>2 DEF Converted, Supported
<1> QED
  BY <1>1, <1>3 DEF local, output

\* A record that is read is at its first block, with nothing collected yet.
LEMMA ReadEffect ==
    ASSUME TypeInv, NEW l \in FileLines, ReadRecord(l)
    PROVE  /\ pc = "reading" /\ pc' = "record" /\ log' = Append(log, l)
           /\ Converted(line_number)' /\ record' = l
           /\ at = 1 /\ tool_calls = <<>> /\ tool_results = <<>> /\ attached = 0
           /\ UNCHANGED <<at, tool_calls, tool_results, attached>>
           /\ UNCHANGED <<steps, tool_call_steps, usage_by_message, normalized, transformations>>
<1>1. /\ pc = "reading" /\ pc' = "record" /\ log' = Append(log, l)
      /\ UNCHANGED <<at, tool_calls, tool_results, attached, output, normalized, transformations>>
  BY DEF ReadRecord
<1>2. record' = l
  BY <1>1, FileGrows DEF record
<1>3. TypeInv'
  BY TypeInvRead
<1> QED
  BY <1>1, <1>2, <1>3 DEF TypeInv, LocalsOK, output

\* Parsing a block, of which only two kinds leave something to account for.
LEMMA BlockEffect ==
    ASSUME TypeInv, NextBlock
    PROVE  /\ pc = "record" /\ at \in 1 .. MaxBlocks /\ at <= Len(record.blocks) /\ at' = at + 1
           /\ UNCHANGED <<pc, log, attached, normalized, transformations>>
           /\ UNCHANGED <<steps, tool_call_steps, usage_by_message>>
           /\ IF block.kind = "tool_use" /\ record.role = "assistant" /\ UsableCall(block)
                THEN ToolUseBlock /\ tool_calls' = Append(tool_calls, block.id)
                ELSE tool_calls' = tool_calls /\ ~ToolUseBlock
           /\ IF block.kind = "tool_result" /\ record.role = "user"
                THEN /\ ToolResultBlock
                     /\ tool_results' = Append(tool_results,
                                           [source_call_id |-> ResultId(block), is_error |-> block.is_error,
                                            line |-> line_number, item |-> at])
                ELSE tool_results' = tool_results
<1>1. /\ ParseBlock /\ pc = "record" /\ at <= Len(record.blocks) /\ at' = at + 1
      /\ UNCHANGED <<pc, log, attached, output, normalized, transformations>>
  BY DEF NextBlock, TextBlock, ToolUseBlock, ToolResultBlock, MisplacedToolBlock,
         MalformedBlock, UnknownBlock, ParseBlock
<1>2. at \in 1 .. MaxBlocks
  BY <1>1, RecordFields
<1>3. /\ IF block.kind = "tool_use" /\ record.role = "assistant" /\ UsableCall(block)
           THEN ToolUseBlock /\ tool_calls' = Append(tool_calls, block.id)
           ELSE tool_calls' = tool_calls /\ ~ToolUseBlock
      /\ IF block.kind = "tool_result" /\ record.role = "user"
           THEN /\ ToolResultBlock
                /\ tool_results' = Append(tool_results,
                                      [source_call_id |-> ResultId(block), is_error |-> block.is_error,
                                       line |-> line_number, item |-> at])
           ELSE tool_results' = tool_results
  BY DEF NextBlock, TextBlock, ToolUseBlock, ToolResultBlock, MisplacedToolBlock,
         MalformedBlock, UnknownBlock, CountUnsupportedBlock
<1> QED
  BY <1>1, <1>2, <1>3 DEF output

\* Treating a result, to its call or to none.
LEMMA ResultEffect ==
    ASSUME TypeInv, CorrelationInv, AttachResult \/ OrphanResult
    PROVE  /\ pc = "record" /\ record.role = "user"
           /\ attached \in Nat /\ attached + 1 \in DOMAIN tool_results /\ attached' = attached + 1
           /\ NextResult \in Result /\ NextResult.line = line_number
           /\ UNCHANGED <<pc, log, at, content, tool_calls, tool_results, tool_call_steps>>
           /\ UNCHANGED <<usage_by_message, breakdown, normalized, transformations>>
<1>1. /\ pc = "record" /\ attached < Len(tool_results) /\ attached' = attached + 1
      /\ UNCHANGED <<pc, log, at, content, tool_calls, tool_results, tool_call_steps>>
      /\ UNCHANGED <<usage_by_message, breakdown, normalized, transformations>>
  BY DEF AttachResult, OrphanResult, TreatResult, BlocksParsed
<1>2. tool_results \in Seq(Result) /\ attached \in 0 .. Len(tool_results)
  BY DEF TypeInv, TypeOK
<1>3. attached + 1 \in DOMAIN tool_results /\ NextResult \in Result
  BY <1>1, <1>2 DEF NextResult
<1>4. NextResult.line = line_number
  BY <1>1, <1>3 DEF CorrelationInv, LineOrder, NextResult
<1>5. record.role = "user"
  BY <1>1, <1>3 DEF TypeInv, LocalsOK
<1> QED
  BY <1>1, <1>2, <1>3, <1>4, <1>5

\* Finishing a record, with a step of its own or without.
LEMMA EndEffect ==
    ASSUME TypeInv, ConvertAssistant \/ ConvertUserOrSystem
    PROVE  /\ pc = "record" /\ pc' = "reading" /\ log' = log
           /\ at > Len(record.blocks) /\ at' = 1 /\ content' = FALSE
           /\ tool_calls' = <<>> /\ tool_results' = <<>> /\ attached' = 0
           /\ attached = Len(tool_results)
           /\ transformations' = transformations
           /\ breakdown' = TallyFields(breakdown, record.ignored)
           /\ \/ steps' = steps /\ tool_calls = <<>> /\ ConvertUserOrSystem
              \/ \E s : /\ steps' = Append(steps, s)
                        /\ s.source_line = line_number /\ s.tool_calls = tool_calls
                        /\ s.observation = <<>>
<1>1. PICK counters : EndRecord(counters)
  BY DEF ConvertAssistant, ConvertUserOrSystem
<1>2. /\ pc = "record" /\ at > Len(record.blocks)
      /\ record.role = "assistant" \/ attached = Len(tool_results)
  BY DEF ConvertAssistant, ConvertUserOrSystem, BlocksParsed
<1>3. attached = Len(tool_results)
  BY <1>2 DEF TypeInv, TypeOK, LocalsOK
<1>4. ASSUME NEW source, NEW id, NEW metrics
      PROVE  /\ NewStep(source, id, metrics).source_line = line_number
             /\ NewStep(source, id, metrics).tool_calls = tool_calls
             /\ NewStep(source, id, metrics).observation = <<>>
  BY DEF NewStep
<1>5. \/ steps' = steps /\ tool_calls = <<>> /\ ConvertUserOrSystem
      \/ \E s : /\ steps' = Append(steps, s)
                /\ s.source_line = line_number /\ s.tool_calls = tool_calls
                /\ s.observation = <<>>
  <2>1. CASE ConvertAssistant
    <3>1. PICK metrics : steps' = Append(steps, NewStep("agent", record.id, metrics))
      BY <2>1 DEF ConvertAssistant
    <3> QED
      BY <3>1, <1>4
  <2>2. CASE ConvertUserOrSystem
    <3>1. tool_calls = <<>>
      BY <1>2, <2>2 DEF ConvertUserOrSystem, TypeInv, LocalsOK
    <3>2. \/ steps' = steps
          \/ steps' = Append(steps, NewStep(record.role, NoMessageId, NoUsage))
      BY <2>2 DEF ConvertUserOrSystem
    <3> QED
      BY <2>2, <3>1, <3>2, <1>4
  <2> QED
    BY <2>1, <2>2
<1> QED
  BY <1>1, <1>2, <1>3, <1>5 DEF EndRecord, ResetLocals

\* The end of the file changes neither the trajectory nor a counter.
LEMMA EndOfFileEffect ==
    ASSUME EndOfFile
    PROVE  /\ pc = "reading" /\ pc' \in {"done", "rejected"} /\ transformations' = normalized
           /\ UNCHANGED <<log, at, content, tool_calls, tool_results, attached>>
           /\ UNCHANGED <<steps, tool_call_steps, usage_by_message, normalized, meta, fidelity, breakdown>>
BY DEF EndOfFile, local, output

\* The blocks come to: each by parsing it, and every block of a finished record.
LEMMA ParsedStep ==
    ASSUME TypeInv, CorrelationInv, [AnyNext]_vars
    PROVE  /\ line_number \in Nat /\ line_number <= line_number'
           /\ \A n \in 1 .. line_number :
                 log'[n] = log[n] /\ (Converted(n)' <=> Converted(n)) /\ (Supported(n)' <=> Supported(n))
           /\ Parsed' = Parsed \cup {p \in {<<line_number, at>>} : NextBlock}
           /\ NextBlock => <<line_number, at>> \notin Parsed
<1>0. log \in Seq(FileLines) /\ line_number \in Nat
  BY DEF TypeInv, TypeOK, line_number
<1>1. ASSUME NEW l \in FileLines, log' = Append(log, l), pc = "reading",
             \/ pc' \in {"reading", "raised"} /\ ~Converted(line_number)' /\ at' = at
             \/ pc' = "record" /\ at' = 1
      PROVE  Parsed' = Parsed
  <2>1. /\ line_number' = line_number + 1
        /\ \A n \in 1 .. line_number : log'[n] = log[n] /\ (Converted(n)' <=> Converted(n))
    BY <1>1, FileGrows
  <2>2. /\ Finished = 1 .. line_number
        /\ \A n \in 1 .. line_number : n \in Finished'
        /\ line_number + 1 \in Finished' => pc' # "record"
    BY <1>0, <1>1, <2>1 DEF Finished
  <2>3. ASSUME NEW n, NEW b
        PROVE  ParsedAt(n, b)' <=> ParsedAt(n, b)
    <3>1. CASE n \in 1 .. line_number
      <4>1. n \in 1 .. line_number' /\ log'[n] = log[n] /\ n \in Finished /\ n \in Finished'
            /\ (Converted(n)' <=> Converted(n))
        BY <1>0, <2>1, <2>2, <3>1
      <4> QED
        BY <3>1, <4>1 DEF ParsedAt
    <3>2. CASE n = line_number + 1
      <4>1. ~ParsedAt(n, b)
        BY <1>0, <3>2 DEF ParsedAt
      <4>2. ~ParsedAt(n, b)'
        BY <1>0, <1>1, <2>1, <2>2, <3>2 DEF ParsedAt
      <4> QED
        BY <4>1, <4>2
    <3>3. CASE n \notin 1 .. line_number + 1
      BY <1>0, <2>1, <3>3 DEF ParsedAt
    <3> QED
      BY <1>0, <3>1, <3>2, <3>3
  <2> QED
    BY <2>3 DEF Parsed
<1>2. ASSUME NEW l \in FileLines, SkipLine(l) \/ Raise(l) \/ ReadRecord(l)
      PROVE  log' = Append(log, l) /\ Parsed' = Parsed /\ ~NextBlock
  <2>1. log' = Append(log, l) /\ Parsed' = Parsed /\ pc = "reading"
    BY <1>1, <1>2, SkipEffect, ReadEffect
  <2> QED
    BY <2>1, BlockEffect
<1>3. CASE NextBlock
  <2>1. /\ pc = "record" /\ at \in 1 .. MaxBlocks /\ at <= Len(record.blocks)
        /\ at' = at + 1 /\ pc' = pc /\ log' = log
    BY <1>3, BlockEffect
  <2>2. line_number \in 1 .. line_number /\ Converted(line_number)
    BY <1>0, <2>1 DEF TypeInv, LocalsOK, line_number
  <2>3. <<line_number, at>> \notin Parsed
    BY <1>0, <2>1 DEF Parsed, ParsedAt, Finished
  <2>4. Parsed' = Parsed \cup {<<line_number, at>>}
    <3>1. line_number' = line_number /\ Finished' = Finished /\ \A n : Converted(n)' <=> Converted(n)
      BY <2>1 DEF line_number, Finished, Converted, Supported
    <3>2. ASSUME NEW n \in Nat, NEW b \in Nat
          PROVE  ParsedAt(n, b)' <=> ParsedAt(n, b) \/ (n = line_number /\ b = at)
      BY <1>0, <2>1, <2>2, <3>1, <3>2 DEF ParsedAt, Finished, record
    <3>3. line_number \in Nat /\ at \in Nat
      BY <1>0, <2>1
    <3> QED
      BY <3>2, <3>3 DEF Parsed
  <2> QED
    BY <1>3, <1>0, <2>1, <2>3, <2>4 DEF line_number, Converted, Supported
<1>4. CASE ConvertAssistant \/ ConvertUserOrSystem
  <2>1. /\ pc = "record" /\ pc' = "reading" /\ log' = log /\ at > Len(record.blocks) /\ at' = 1
        /\ tool_results' = <<>>
    BY <1>4, EndEffect
  <2>2. ~NextBlock
    <3>1. record \in FileLines
      BY <2>1, RecordFields
    <3> QED
      BY <2>1, <3>1, LineFields, BlockEffect DEF TypeInv, TypeOK
  <2>3. /\ line_number' = line_number
        /\ \A n : (Converted(n)' <=> Converted(n)) /\ (Supported(n)' <=> Supported(n))
    BY <2>1 DEF line_number, Converted, Supported
  <2>4. ASSUME NEW n, NEW b
        PROVE  ParsedAt(n, b)' <=> ParsedAt(n, b)
    <3>1. at \in Nat /\ Len(record.blocks) \in Nat
      BY <2>1, RecordFields, LineFields DEF TypeInv, TypeOK
    <3> QED
      BY <1>0, <2>1, <2>3, <3>1 DEF ParsedAt, Finished, record
  <2>5. Parsed' = Parsed
    BY <2>4 DEF Parsed
  <2> QED
    BY <1>0, <2>1, <2>2, <2>3, <2>5
<1>5. CASE AttachResult \/ OrphanResult \/ EndOfFile \/ UNCHANGED vars
  <2>1. /\ log' = log /\ at' = at
        /\ pc' = pc \/ (pc = "reading" /\ pc' \in {"done", "rejected"})
    BY <1>5, ResultEffect, EndOfFileEffect DEF vars, local
  <2>2. ~NextBlock
    <3>1. CASE AttachResult \/ OrphanResult
      <4>1. pc = "record" /\ at > Len(record.blocks)
        BY <3>1 DEF AttachResult, OrphanResult, TreatResult, BlocksParsed
      <4> QED
        BY <4>1, RecordFields, LineFields, BlockEffect DEF TypeInv, TypeOK
    <3>2. CASE EndOfFile \/ UNCHANGED vars
      <4>1. at' = at /\ at \in Nat
        BY <2>1 DEF TypeInv, TypeOK
      <4> QED
        BY <4>1, BlockEffect
    <3> QED
      BY <1>5, <3>1, <3>2
  <2>3. /\ line_number' = line_number /\ Finished' = Finished
        /\ \A n : (Converted(n)' <=> Converted(n)) /\ (Supported(n)' <=> Supported(n))
    BY <2>1 DEF line_number, Finished, Converted, Supported
  <2>4. Parsed' = Parsed
    BY <2>1, <2>3 DEF Parsed, ParsedAt
  <2> QED
    BY <1>0, <2>1, <2>2, <2>3, <2>4
<1>6. CASE \E l \in FileLines : SkipLine(l) \/ Raise(l) \/ ReadRecord(l)
  <2>1. PICK l \in FileLines : SkipLine(l) \/ Raise(l) \/ ReadRecord(l)
    BY <1>6
  <2>2. log' = Append(log, l) /\ Parsed' = Parsed /\ ~NextBlock
    BY <1>2, <2>1
  <2>3. /\ line_number' = line_number + 1
        /\ \A n \in 1 .. line_number :
              log'[n] = log[n] /\ (Converted(n)' <=> Converted(n)) /\ (Supported(n)' <=> Supported(n))
    BY <2>2, FileGrows
  <2>4. line_number <= line_number'
    BY <1>0, <2>3
  <2> QED
    BY <1>0, <2>2, <2>3, <2>4
<1> QED
  BY <1>3, <1>4, <1>5, <1>6 DEF AnyNext

-----------------------------------------------------------------------------
(***************************************************************************)
(* The places that the counters count: of calls and results in the file,   *)
(* and of calls and results in the trajectory.                             *)
(***************************************************************************)

\* The usable calls of the file.
Called ==
    {a \in Parsed : /\ log[a[1]].role = "assistant"
                    /\ log[a[1]].blocks[a[2]].kind = "tool_use" /\ UsableCall(log[a[1]].blocks[a[2]])}

\* A column of cells is as large as its height.
LEMMA ColumnSize ==
    ASSUME NEW k, NEW D, IsFiniteSet(D)
    PROVE  IsFiniteSet({k} \X D) /\ Cardinality({k} \X D) = Cardinality(D)
<1>1. IsFiniteSet({k}) /\ Cardinality({k}) = 1
  BY FS_Singleton
<1>2. IsFiniteSet({k} \X D) /\ Cardinality({k} \X D) = 1 * Cardinality(D)
  BY <1>1, FS_Product
<1>3. Cardinality(D) \in Nat
  BY FS_CardinalityType
<1> QED
  BY <1>2, <1>3

\* The places of a sequence are as many as it has elements.
LEMMA RowSize ==
    ASSUME NEW k, NEW S, NEW q \in Seq(S)
    PROVE  IsFiniteSet({k} \X DOMAIN q) /\ Cardinality({k} \X DOMAIN q) = Len(q)
<1>1. DOMAIN q = 1 .. Len(q) /\ Len(q) \in Nat
  OBVIOUS
<1>2. IsFiniteSet(DOMAIN q) /\ Cardinality(DOMAIN q) = Len(q)
  BY <1>1, FS_Interval
<1> QED
  BY <1>2, ColumnSize

\* One element more is one more to count.
LEMMA OneMore ==
    ASSUME NEW S, IsFiniteSet(S), NEW x, x \notin S, NEW T, T = S \cup {x}
    PROVE  IsFiniteSet(T) /\ Cardinality(T) = Cardinality(S) + 1
BY FS_AddElement

\* The sizes of disjoint sets add up.
LEMMA DisjointUnion ==
    ASSUME NEW S, IsFiniteSet(S), NEW T, IsFiniteSet(T), S \cap T = {}, NEW U, U = S \cup T
    PROVE  IsFiniteSet(U) /\ Cardinality(U) = Cardinality(S) + Cardinality(T)
<1>1. Cardinality(S) \in Nat /\ Cardinality(T) \in Nat
  BY FS_CardinalityType
<1>2. Cardinality(S \cap T) = 0
  BY FS_EmptySet
<1>3. /\ IsFiniteSet(U)
      /\ Cardinality(U) = Cardinality(S) + Cardinality(T) - Cardinality(S \cap T)
  BY FS_Union
<1> QED
  BY <1>1, <1>2, <1>3

\* Sets are of one size when their elements correspond.
LEMMA SameSize ==
    ASSUME NEW S, IsFiniteSet(S), NEW T, NEW f \in [S -> T],
           \A a, b \in S : f[a] = f[b] => a = b,
           \A t \in T : \E s \in S : f[s] = t
    PROVE  IsFiniteSet(T) /\ Cardinality(T) = Cardinality(S)
<1>1. f \in Bijection(S, T)
  BY DEF Bijection, Injection, IsInjective, Surjection
<1> QED
  BY <1>1, FS_Bijection DEF ExistsBijection

\* The blocks come to can be counted.
LEMMA ParsedFinite == IsFiniteSet(Parsed) \/ line_number \notin Nat
<1> SUFFICES ASSUME line_number \in Nat PROVE IsFiniteSet(Parsed)
  OBVIOUS
<1>1. IsFiniteSet(1 .. line_number) /\ IsFiniteSet(1 .. MaxBlocks)
  BY FS_Interval, BoundAssumption
<1>2. IsFiniteSet((1 .. line_number) \X (1 .. MaxBlocks))
  BY <1>1, FS_Product
<1>3. Parsed \subseteq (1 .. line_number) \X (1 .. MaxBlocks)
  BY DEF Parsed, ParsedAt
<1> QED
  BY <1>2, <1>3, FS_Subset

\* The results that arrived are blocks that the parser has come to.
LEMMA ArrivedParsed ==
    /\ Arrived = {a \in Parsed : /\ log[a[1]].role = "user"
                                 /\ log[a[1]].blocks[a[2]].kind = "tool_result"}
    /\ Arrived' = {a \in Parsed' : /\ log'[a[1]].role = "user"
                                   /\ log'[a[1]].blocks[a[2]].kind = "tool_result"}
<1>1. 1 .. MaxBlocks \subseteq Nat
  BY BoundAssumption
<1>2. 1 .. line_number \subseteq Nat /\ 1 .. line_number' \subseteq Nat
  OBVIOUS
<1> QED
  BY <1>1, <1>2 DEF Arrived, Parsed, ParsedAt

\* The calls that CallsAccounted counts, likewise.
LEMMA CalledParsed ==
    LET counted ==
          {a \in (1 .. line_number) \X (1 .. MaxBlocks) :
             /\ Converted(a[1]) /\ log[a[1]].role = "assistant"
             /\ a[2] <= Len(log[a[1]].blocks)
             /\ log[a[1]].blocks[a[2]].kind = "tool_use" /\ UsableCall(log[a[1]].blocks[a[2]])
             /\ a[1] \in Finished \/ a[2] < at}
    IN  counted = Called /\ counted' = Called'
<1>1. 1 .. MaxBlocks \subseteq Nat
  BY BoundAssumption
<1>2. 1 .. line_number \subseteq Nat /\ 1 .. line_number' \subseteq Nat
  OBVIOUS
<1> QED
  BY <1>1, <1>2 DEF Called, Parsed, ParsedAt

\* A call of the file is come to by parsing its block.
LEMMA CalledStep ==
    ASSUME TypeInv, CorrelationInv, [AnyNext]_vars
    PROVE  /\ Called' = Called \cup {p \in {<<line_number, at>>} : ToolUseBlock}
           /\ ToolUseBlock => <<line_number, at>> \notin Called
           /\ IsFiniteSet(Called)
<1>1. /\ line_number \in Nat
      /\ \A n \in 1 .. line_number : log'[n] = log[n]
      /\ Parsed' = Parsed \cup {p \in {<<line_number, at>>} : NextBlock}
      /\ NextBlock => <<line_number, at>> \notin Parsed
  BY ParsedStep
<1>2. \A a \in Parsed : a[1] \in 1 .. line_number
  BY DEF Parsed, ParsedAt
<1>3. NextBlock => /\ line_number \in 1 .. line_number
                   /\ ToolUseBlock <=> /\ log[line_number].role = "assistant"
                                       /\ log[line_number].blocks[at].kind = "tool_use"
                                       /\ UsableCall(log[line_number].blocks[at])
  <2>1. ASSUME NextBlock PROVE line_number \in 1 .. line_number
    BY <2>1, BlockEffect, RecordFields
  <2>2. ASSUME NextBlock
        PROVE  ToolUseBlock <=> /\ log[line_number].role = "assistant"
                                /\ log[line_number].blocks[at].kind = "tool_use"
                                /\ UsableCall(log[line_number].blocks[at])
    BY <2>2, BlockEffect DEF block, record
  <2> QED
    BY <2>1, <2>2
<1>4. ToolUseBlock => NextBlock
  BY DEF NextBlock
<1>5. Called' = Called \cup {p \in {<<line_number, at>>} : ToolUseBlock}
  BY <1>1, <1>2, <1>3, <1>4 DEF Called
<1>6. IsFiniteSet(Called)
  BY <1>1, ParsedFinite, FS_Subset DEF Called
<1> QED
  BY <1>1, <1>4, <1>5, <1>6 DEF Called

\* A result of the file, likewise.
LEMMA ArrivedStep ==
    ASSUME TypeInv, CorrelationInv, [AnyNext]_vars
    PROVE  /\ Arrived' = Arrived \cup {p \in {<<line_number, at>>} : ToolResultBlock}
           /\ ToolResultBlock => <<line_number, at>> \notin Arrived
           /\ IsFiniteSet(Arrived)
           /\ \A a \in Arrived : log'[a[1]] = log[a[1]]
<1>1. /\ line_number \in Nat
      /\ \A n \in 1 .. line_number : log'[n] = log[n]
      /\ Parsed' = Parsed \cup {p \in {<<line_number, at>>} : NextBlock}
      /\ NextBlock => <<line_number, at>> \notin Parsed
  BY ParsedStep
<1>2. \A a \in Parsed : a[1] \in 1 .. line_number
  BY DEF Parsed, ParsedAt
<1>3. ToolResultBlock => NextBlock
  BY DEF NextBlock
<1>4. NextBlock => /\ line_number \in 1 .. line_number
                   /\ ToolResultBlock <=> /\ log[line_number].role = "user"
                                          /\ log[line_number].blocks[at].kind = "tool_result"
  <2>1. ASSUME NextBlock PROVE line_number \in 1 .. line_number
    BY <2>1, BlockEffect, RecordFields
  <2>2. ToolResultBlock => block.kind = "tool_result" /\ record.role = "user"
    BY DEF ToolResultBlock
  <2> QED
    BY <2>1, <2>2, BlockEffect DEF block, record
<1>5. Arrived' = Arrived \cup {p \in {<<line_number, at>>} : ToolResultBlock}
  BY <1>1, <1>2, <1>3, <1>4, ArrivedParsed
<1>6. IsFiniteSet(Arrived)
  BY <1>1, ParsedFinite, ArrivedParsed, FS_Subset
<1> QED
  BY <1>1, <1>2, <1>3, <1>5, <1>6, ArrivedParsed

\* A new step without results brings its calls into the trajectory and no result.
LEMMA AppendPlaces ==
    ASSUME TypeInv, NEW s, steps' = Append(steps, s), s.observation = <<>>
    PROVE  /\ CallPlaces' = CallPlaces \cup ({Len(steps) + 1} \X DOMAIN s.tool_calls)
           /\ CallPlaces \cap ({Len(steps) + 1} \X DOMAIN s.tool_calls) = {}
           /\ Placed' = Placed
           /\ \A p \in Placed : At(p)' = At(p)
<1> PICK n : n = Len(steps) + 1
  OBVIOUS
<1>1. /\ DOMAIN steps' = DOMAIN steps \cup {n} /\ n \notin DOMAIN steps /\ steps'[n] = s
      /\ \A i \in DOMAIN steps : steps'[i] = steps[i]
  BY AppendStep, StepFields
<1>2. CallPlaces' = CallPlaces \cup ({n} \X DOMAIN s.tool_calls)
  BY <1>1 DEF CallPlaces
<1>3. CallPlaces \cap ({n} \X DOMAIN s.tool_calls) = {}
  BY <1>1 DEF CallPlaces
<1>4. DOMAIN s.observation = {}
  OBVIOUS
<1>5. Placed' = Placed
  BY <1>1, <1>4 DEF Placed
<1>6. \A p \in Placed : At(p)' = At(p)
  BY <1>1 DEF Placed, At
<1> QED
  BY <1>2, <1>3, <1>5, <1>6

\* A delivery gives the trajectory one result more, at the end of its step's.
LEMMA AttachPlaces ==
    ASSUME TypeInv, AttachResult, NEW s, s = tool_call_steps[NextResult.source_call_id],
           NEW n, n = Len(steps[s].observation) + 1
    PROVE  /\ CallPlaces' = CallPlaces
           /\ Placed' = Placed \cup {<<s, n>>}
           /\ <<s, n>> \notin Placed
           /\ \A p \in Placed : At(p)' = At(p)
           /\ At(<<s, n>>)' = NextResult
<1>1. /\ s \in DOMAIN steps /\ DOMAIN steps' = DOMAIN steps
      /\ steps'[s].observation = Append(steps[s].observation, NextResult)
      /\ \A i \in DOMAIN steps : steps'[i].tool_calls = steps[i].tool_calls
  BY AttachEffect
<1>2. \A i \in DOMAIN steps : i # s => steps'[i] = steps[i]
  BY DEF AttachResult, Observe
<1>3. /\ DOMAIN steps'[s].observation = DOMAIN steps[s].observation \cup {n}
      /\ n \notin DOMAIN steps[s].observation
      /\ steps'[s].observation[n] = NextResult
      /\ \A j \in DOMAIN steps[s].observation : steps'[s].observation[j] = steps[s].observation[j]
  <2>1. steps[s].observation \in Seq(Result)
    BY <1>1, StepFields
  <2>2. NextResult \in Result
    BY AttachEffect
  <2> HIDE DEF NextResult
  <2> QED
    BY <1>1, <2>1, <2>2
<1>4. CallPlaces' = CallPlaces
  BY <1>1 DEF CallPlaces
<1>5. Placed' = Placed \cup {<<s, n>>}
  <2>1. ASSUME NEW i, NEW j
        PROVE  i \in DOMAIN steps' /\ j \in DOMAIN steps'[i].observation <=>
                  \/ i \in DOMAIN steps /\ j \in DOMAIN steps[i].observation
                  \/ i = s /\ j = n
    BY <1>1, <1>2, <1>3
  <2> QED
    BY <2>1 DEF Placed
<1>6. <<s, n>> \notin Placed
  BY <1>1, <1>3 DEF Placed
<1>7. \A p \in Placed : At(p)' = At(p)
  <2>1. ASSUME NEW i \in DOMAIN steps, NEW j \in DOMAIN steps[i].observation
        PROVE  steps'[i].observation[j] = steps[i].observation[j]
    BY <1>2, <1>3
  <2> QED
    BY <2>1 DEF Placed, At
<1>8. At(<<s, n>>)' = NextResult
  BY <1>3 DEF At
<1> QED
  BY <1>4, <1>5, <1>6, <1>7, <1>8

\* What an action does to the places of the trajectory.
LEMMA PlacesStep ==
    ASSUME TypeInv, [AnyNext]_vars
    PROVE  \/ UNCHANGED steps
           \/ AttachResult
           \/ /\ ConvertAssistant \/ ConvertUserOrSystem
              /\ \E s : /\ steps' = Append(steps, s) /\ s.observation = <<>>
                        /\ s.tool_calls = tool_calls /\ s.source_line = line_number
<1>1. ASSUME NEW l \in FileLines, SkipLine(l) \/ Raise(l) \/ ReadRecord(l) PROVE UNCHANGED steps
  BY <1>1, SkipEffect, ReadEffect
<1>2. NextBlock \/ EndOfFile \/ OrphanResult \/ UNCHANGED vars => UNCHANGED steps
  BY BlockEffect, EndOfFileEffect DEF OrphanResult, vars, output
<1> QED
  BY <1>1, <1>2, EndEffect DEF AnyNext

-----------------------------------------------------------------------------
(***************************************************************************)
(* The calls and the results are all accounted for.                        *)
(***************************************************************************)

TrafficInv ==
    /\ IsFiniteSet(CallPlaces) /\ IsFiniteSet(Placed)
    /\ CallsAccounted
    /\ ResultsAccounted

\* CallsAccounted, in the terms of this module.
LEMMA CallsCounted ==
    LET calls  == fidelity["tool_calls_preserved"]
        agrees == calls = Len(tool_calls) + Cardinality(CallPlaces) /\ calls = Cardinality(Called)
    IN  (CallsAccounted <=> agrees) /\ (CallsAccounted' <=> agrees')
BY CalledParsed DEF CallsAccounted

\* What the actions do to the three counters of calls and results.
LEMMA TrafficCounters ==
    ASSUME TypeInv, [AnyNext]_vars
    PROVE  LET gain(c, happens) == fidelity[c] + (IF happens THEN 1 ELSE 0) IN
           /\ fidelity \in [Counters -> Nat]
           /\ fidelity'["tool_calls_preserved"] = gain("tool_calls_preserved", ToolUseBlock)
           /\ fidelity'["observation_results_preserved"] =
                 gain("observation_results_preserved", AttachResult)
           /\ fidelity'["orphaned_tool_results"] = gain("orphaned_tool_results", OrphanResult)
<1> DEFINE c == "tool_calls_preserved"
           o == "observation_results_preserved"
           l == "orphaned_tool_results"
<1>0. /\ fidelity \in [Counters -> Nat] /\ {c, o, l} \subseteq Counters
      /\ fidelity[c] \in Nat /\ fidelity[o] \in Nat /\ fidelity[l] \in Nat
  BY DEF TypeInv, TypeOK, Counters
<1> SUFFICES /\ fidelity'[c] = fidelity[c] + (IF ToolUseBlock THEN 1 ELSE 0)
             /\ fidelity'[o] = fidelity[o] + (IF AttachResult THEN 1 ELSE 0)
             /\ fidelity'[l] = fidelity[l] + (IF OrphanResult THEN 1 ELSE 0)
  BY <1>0
<1>1. /\ ToolUseBlock => NextBlock /\ fidelity' = Count(fidelity, {c})
      /\ AttachResult => fidelity' = Count(fidelity, {o} \cup {x \in {"omitted_tool_result_timestamps"} : record.timestamp = "valid"})
      /\ OrphanResult => fidelity' = Count(fidelity, {l})
      /\ AttachResult \/ OrphanResult => BlocksParsed
      /\ AttachResult => ~OrphanResult
  BY DEF NextBlock, ToolUseBlock, AttachResult, OrphanResult, TreatResult
<1>2. NextBlock => pc = "record" /\ ~BlocksParsed
  <2>1. ASSUME NextBlock PROVE pc = "record" /\ at <= Len(record.blocks) /\ at \in Nat
    BY <2>1, BlockEffect
  <2>2. ASSUME NextBlock PROVE Len(record.blocks) \in Nat
    BY <2>1, <2>2, RecordFields, LineFields
  <2> QED
    BY <2>1, <2>2 DEF BlocksParsed
<1>3. CASE ToolUseBlock \/ AttachResult \/ OrphanResult
  BY <1>0, <1>1, <1>2, <1>3, CountEffect
<1>4. CASE ~(ToolUseBlock \/ AttachResult \/ OrphanResult)
  <2> SUFFICES \/ fidelity' = fidelity
               \/ \E S : fidelity' = Count(fidelity, S) /\ S \cap {c, o, l} = {}
               \/ \E n : fidelity' = CountMany(fidelity, "unsupported_source_blocks", n)
    BY <1>0, <1>4, CountEffect DEF CountMany
  <2>1. ASSUME NEW x \in FileLines, SkipLine(x) \/ Raise(x)
        PROVE  fidelity' = fidelity \/ fidelity' = Count(fidelity, {"unsupported_source_records"})
    BY <2>1 DEF SkipLine, Raise, MalformedLine, NonObjectLine, UnsupportedType, NoMessage,
         UnsupportedRole, UnhashableType, UnhashableRole, CountUnsupportedRecord
  <2>2. ASSUME NEW x \in FileLines, ReadRecord(x)
        PROVE  \E S : fidelity' = Count(fidelity, S) /\ S \cap {c, o, l} = {}
    BY <2>2 DEF ReadRecord, TimestampCounters, ContentCounters
  <2>3. CASE NextBlock
    <3>1. \/ fidelity' = fidelity
          \/ fidelity' = Count(fidelity, {"unsupported_source_blocks"})
          \/ \E n : fidelity' = CountMany(fidelity, "unsupported_source_blocks", n)
      BY <1>4, <2>3 DEF NextBlock, TextBlock, ToolResultBlock, MisplacedToolBlock,
         MalformedBlock, UnknownBlock, CountUnsupportedBlock, CountDroppedItems
    <3> QED
      BY <3>1
  <2>4. CASE ConvertAssistant \/ ConvertUserOrSystem
    <3>1. PICK S : EndRecord(S) /\ S \cap {c, o, l} = {}
      BY <2>4 DEF ConvertAssistant, ConvertUserOrSystem, UsageCounters
    <3> QED
      BY <3>1 DEF EndRecord
  <2>5. CASE EndOfFile \/ UNCHANGED vars
    BY <2>5 DEF EndOfFile, vars
  <2> QED
    BY <1>4, <2>1, <2>2, <2>3, <2>4, <2>5 DEF AnyNext
<1> QED
  BY <1>3, <1>4

\* A call is counted as preserved where its block is read, and is in hand or in the trajectory.
LEMMA CallsAccountedStep ==
    ASSUME TypeInv, CorrelationInv, TrafficInv, [AnyNext]_vars
    PROVE  IsFiniteSet(CallPlaces)' /\ CallsAccounted'
<1> DEFINE calls == fidelity["tool_calls_preserved"]
<1>1. /\ calls \in Nat /\ calls' = calls + (IF ToolUseBlock THEN 1 ELSE 0)
  BY TrafficCounters DEF Counters
<1>2. calls = Len(tool_calls) + Cardinality(CallPlaces) /\ calls = Cardinality(Called)
      /\ IsFiniteSet(CallPlaces)
  BY CallsCounted DEF TrafficInv
<1>3. calls' = Cardinality(Called')
  <2>1. /\ Called' = Called \cup {p \in {<<line_number, at>>} : ToolUseBlock}
        /\ ToolUseBlock => <<line_number, at>> \notin Called
        /\ IsFiniteSet(Called)
    BY CalledStep
  <2>2. CASE ToolUseBlock
    <3>1. Called' = Called \cup {<<line_number, at>>}
      BY <2>1, <2>2
    <3> QED
      BY <1>1, <1>2, <2>1, <2>2, <3>1, FS_AddElement
  <2>3. CASE ~ToolUseBlock
    <3>1. Called' = Called
      BY <2>1, <2>3
    <3> QED
      BY <1>1, <1>2, <2>3, <3>1
  <2> QED
    BY <2>2, <2>3
<1>4. Len(tool_calls) \in Nat /\ tool_calls \in Seq(CallIds)
  BY DEF TypeInv, TypeOK
<1>5. IsFiniteSet(CallPlaces)' /\ calls' = Len(tool_calls') + Cardinality(CallPlaces')
  <2>1. CASE ConvertAssistant \/ ConvertUserOrSystem
    <3>1. tool_calls' = <<>> /\ ~ToolUseBlock
      <4>1. at' = 1
        BY <2>1, EndEffect
      <4>2. ToolUseBlock => at' = at + 1 /\ at \in 1 .. MaxBlocks
        BY BlockEffect DEF NextBlock
      <4>3. ~ToolUseBlock
        BY <4>1, <4>2
      <4>4. tool_calls' = <<>>
        BY <2>1, EndEffect
      <4> QED
        BY <4>3, <4>4
    <3>2. CASE steps' = steps
      <4>1. tool_calls = <<>>
        <5>1. ASSUME NEW s, steps' = Append(steps, s) PROVE FALSE
          BY <3>2, <5>1, AppendStep, StepFields
        <5> QED
          BY <2>1, <5>1, EndEffect
      <4> QED
        BY <1>1, <1>2, <3>1, <3>2, <4>1 DEF CallPlaces
    <3>3. ASSUME NEW s, steps' = Append(steps, s), s.observation = <<>>, s.tool_calls = tool_calls
          PROVE  IsFiniteSet(CallPlaces)' /\ calls' = Len(tool_calls') + Cardinality(CallPlaces')
      <4> PICK n : n = Len(steps) + 1
        OBVIOUS
      <4>1. CallPlaces' = CallPlaces \cup ({n} \X DOMAIN tool_calls)
            /\ CallPlaces \cap ({n} \X DOMAIN tool_calls) = {}
        BY <3>3, AppendPlaces
      <4>2. IsFiniteSet({n} \X DOMAIN tool_calls) /\ Cardinality({n} \X DOMAIN tool_calls) = Len(tool_calls)
        BY <1>4, RowSize
      <4>3. IsFiniteSet(CallPlaces') /\ Cardinality(CallPlaces') = Cardinality(CallPlaces) + Len(tool_calls)
        BY <1>2, <4>1, <4>2, DisjointUnion
      <4> QED
        BY <1>1, <1>2, <1>4, <3>1, <4>3, FS_CardinalityType
    <3> QED
      BY <2>1, <3>2, <3>3, EndEffect
  <2>2. CASE ~(ConvertAssistant \/ ConvertUserOrSystem)
    <3>1. CallPlaces' = CallPlaces
      <4>1. CASE AttachResult
        BY <4>1, AttachPlaces
      <4>2. CASE UNCHANGED steps
        BY <4>2 DEF CallPlaces
      <4> QED
        BY <2>2, <4>1, <4>2, PlacesStep
    <3>2. Len(tool_calls') = Len(tool_calls) + (IF ToolUseBlock THEN 1 ELSE 0)
      <4>1. CASE NextBlock
        <5>1. ToolUseBlock => tool_calls' = Append(tool_calls, block.id) /\ block.id \in CallIds
          BY <4>1 DEF ToolUseBlock, UsableCall
        <5>2. ~ToolUseBlock => tool_calls' = tool_calls
          BY <4>1, BlockEffect
        <5> QED
          BY <1>4, <5>1, <5>2
      <4>2. CASE ~NextBlock
        <5>1. tool_calls' = tool_calls
          BY <2>2, <4>2, SkipEffect, ReadEffect, ResultEffect, EndOfFileEffect
             DEF AnyNext, vars, local
        <5> QED
          BY <1>4, <4>2, <5>1 DEF NextBlock
      <4> QED
        BY <4>1, <4>2
    <3> QED
      BY <1>1, <1>2, <1>4, <3>1, <3>2, FS_CardinalityType
  <2> QED
    BY <2>1, <2>2
<1>6. CallsAccounted' <=> /\ calls' = Len(tool_calls') + Cardinality(CallPlaces')
                          /\ calls' = Cardinality(Called')
  BY CallsCounted
<1> QED
  BY <1>3, <1>5, <1>6

\* Which steps bring a result and which treat one: no step does both.
LEMMA ResultSteps ==
    ASSUME TypeInv
    PROVE  /\ ToolResultBlock => NextBlock /\ ~AttachResult /\ ~OrphanResult
           /\ AttachResult => ~OrphanResult
           /\ ConvertAssistant \/ ConvertUserOrSystem =>
                 ~ToolResultBlock /\ ~AttachResult /\ ~OrphanResult
<1>1. ASSUME ToolResultBlock PROVE at' = at + 1 /\ at \in 1 .. MaxBlocks /\ NextBlock
  BY <1>1, BlockEffect DEF NextBlock
<1>2. ASSUME AttachResult \/ OrphanResult PROVE at' = at /\ attached < Len(tool_results)
  BY <1>2 DEF AttachResult, OrphanResult, TreatResult
<1>3. ASSUME ConvertAssistant \/ ConvertUserOrSystem PROVE at' = 1 /\ attached = Len(tool_results)
  BY <1>3, EndEffect
<1>4. attached \in Nat /\ Len(tool_results) \in Nat
  BY DEF TypeInv, TypeOK
<1>5. AttachResult => ~OrphanResult
  BY DEF AttachResult, OrphanResult
<1>6. ToolResultBlock => ~AttachResult /\ ~OrphanResult
  BY <1>1, <1>2
<1>7. ConvertAssistant \/ ConvertUserOrSystem => ~ToolResultBlock
  BY <1>1, <1>3
<1>8. ConvertAssistant \/ ConvertUserOrSystem => ~AttachResult /\ ~OrphanResult
  BY <1>2, <1>3, <1>4
<1> QED
  BY <1>1, <1>5, <1>6, <1>7, <1>8

\* The positions of what waits are numbers in between.
LEMMA InRange ==
    ASSUME NEW a \in Nat, NEW b \in Nat, NEW q \in a + 1 .. b
    PROVE  q \in Nat /\ a < q /\ q <= b
OBVIOUS

\* How many results wait to be treated.
LEMMA WaitingCount ==
    ASSUME TypeInv, CorrelationInv, [AnyNext]_vars
    PROVE  LET left == Len(tool_results) - attached IN
           /\ left \in Nat
           /\ left' = left + (IF ToolResultBlock THEN 1 ELSE 0)
                           - (IF AttachResult \/ OrphanResult THEN 1 ELSE 0)
<1> DEFINE left == Len(tool_results) - attached
<1>1. tool_results \in Seq(Result) /\ attached \in 0 .. Len(tool_results) /\ left \in Nat
  BY DEF TypeInv, TypeOK
<1>2. CASE ToolResultBlock
  <2>1. /\ attached' = attached
        /\ tool_results' = Append(tool_results,
                              [source_call_id |-> ResultId(block), is_error |-> block.is_error,
                               line |-> line_number, item |-> at])
    BY <1>2, ResultSteps, BlockEffect DEF ToolResultBlock
  <2>2. Len(tool_results') = Len(tool_results) + 1
    BY <1>1, <2>1
  <2> QED
    BY <1>1, <1>2, <2>1, <2>2, ResultSteps
<1>3. CASE AttachResult \/ OrphanResult
  <2>1. attached' = attached + 1 /\ tool_results' = tool_results
    BY <1>3, ResultEffect
  <2> QED
    BY <1>1, <1>3, <2>1, ResultSteps
<1>4. CASE ~ToolResultBlock /\ ~AttachResult /\ ~OrphanResult
  <2>1. CASE ConvertAssistant \/ ConvertUserOrSystem
    <3>1. attached = Len(tool_results) /\ attached' = 0 /\ Len(tool_results') = 0
      BY <2>1, EndEffect
    <3> QED
      BY <1>1, <1>4, <3>1
  <2>2. CASE NextBlock
    <3>1. attached' = attached /\ tool_results' = tool_results
      BY <1>4, <2>2, BlockEffect
    <3> QED
      BY <1>1, <1>4, <3>1
  <2>3. CASE EndOfFile \/ UNCHANGED vars \/ \E l \in FileLines : SkipLine(l) \/ Raise(l) \/ ReadRecord(l)
    <3>1. attached' = attached /\ tool_results' = tool_results
      BY <2>3, SkipEffect, ReadEffect, EndOfFileEffect DEF vars, local
    <3> QED
      BY <1>1, <1>4, <3>1
  <2> QED
    BY <1>4, <2>1, <2>2, <2>3 DEF AnyNext
<1> QED
  BY <1>1, <1>2, <1>3, <1>4

\* A result that leaves those in hand is delivered or counted as orphaned.
LEMMA ResultsAccountedStep ==
    ASSUME TypeInv, CorrelationInv, TrafficInv, [AnyNext]_vars
    PROVE  IsFiniteSet(Placed)' /\ ResultsAccounted'
<1> DEFINE held == fidelity["observation_results_preserved"]
           lost == fidelity["orphaned_tool_results"]
           left == Len(tool_results) - attached
<1>1. /\ held \in Nat /\ held' = held + (IF AttachResult THEN 1 ELSE 0)
      /\ lost \in Nat /\ lost' = lost + (IF OrphanResult THEN 1 ELSE 0)
  BY TrafficCounters DEF Counters
<1>2. /\ left \in Nat
      /\ left' = left + (IF ToolResultBlock THEN 1 ELSE 0)
                      - (IF AttachResult \/ OrphanResult THEN 1 ELSE 0)
  BY WaitingCount
<1>3. /\ IsFiniteSet(Placed) /\ held = Cardinality(Placed)
      /\ Cardinality(Arrived) = held + lost + left
  <2>1. attached \in Nat /\ Len(tool_results) \in Nat
    BY DEF TypeInv, TypeOK
  <2> QED
    BY <1>1, <2>1 DEF TrafficInv, ResultsAccounted
<1>4. IsFiniteSet(Placed)' /\ held' = Cardinality(Placed')
  <2>1. CASE AttachResult
    <3> PICK s : s = tool_call_steps[NextResult.source_call_id]
      OBVIOUS
    <3> PICK n : n = Len(steps[s].observation) + 1
      OBVIOUS
    <3>1. Placed' = Placed \cup {<<s, n>>} /\ <<s, n>> \notin Placed
      BY <2>1, AttachPlaces
    <3>2. IsFiniteSet(Placed') /\ Cardinality(Placed') = Cardinality(Placed) + 1
      BY <1>3, <3>1, OneMore
    <3> QED
      BY <1>1, <1>3, <2>1, <3>2
  <2>2. CASE ~AttachResult
    <3>1. Placed' = Placed
      <4>1. CASE UNCHANGED steps
        BY <4>1 DEF Placed
      <4> QED
        BY <2>2, <4>1, PlacesStep, AppendPlaces
    <3> QED
      BY <1>1, <1>3, <2>2, <3>1
  <2> QED
    BY <2>1, <2>2
<1>5. Cardinality(Arrived') = held' + lost' + left'
  <2>1. /\ Arrived' = Arrived \cup {p \in {<<line_number, at>>} : ToolResultBlock}
        /\ ToolResultBlock => <<line_number, at>> \notin Arrived
        /\ IsFiniteSet(Arrived)
    BY ArrivedStep
  <2>2. CASE ToolResultBlock
    <3>1. Arrived' = Arrived \cup {<<line_number, at>>}
      BY <2>1, <2>2
    <3>2. Cardinality(Arrived') = Cardinality(Arrived) + 1
      BY <2>1, <2>2, <3>1, FS_AddElement
    <3> QED
      BY <1>1, <1>2, <1>3, <2>2, <3>2, ResultSteps
  <2>3. CASE ~ToolResultBlock
    <3>1. Arrived' = Arrived
      BY <2>1, <2>3
    <3>2. ~(AttachResult /\ OrphanResult)
      BY ResultSteps
    <3>3. held' + lost' + left' = held + lost + left
      <4>1. CASE AttachResult
        <5>1. held' = held + 1 /\ lost' = lost + 0 /\ left' = left + 0 - 1
          BY <1>1, <1>2, <2>3, <3>2, <4>1
        <5> HIDE DEF held, lost, left
        <5> QED
          BY <1>1, <1>2, <5>1
      <4>2. CASE OrphanResult
        <5>1. held' = held + 0 /\ lost' = lost + 1 /\ left' = left + 0 - 1
          BY <1>1, <1>2, <2>3, <3>2, <4>2
        <5> HIDE DEF held, lost, left
        <5> QED
          BY <1>1, <1>2, <5>1
      <4>3. CASE ~AttachResult /\ ~OrphanResult
        <5>1. held' = held + 0 /\ lost' = lost + 0 /\ left' = left + 0 - 0
          BY <1>1, <1>2, <2>3, <4>3
        <5> HIDE DEF held, lost, left
        <5> QED
          BY <1>1, <1>2, <5>1
      <4> QED
        BY <4>1, <4>2, <4>3
    <3> QED
      BY <1>3, <3>1, <3>3
  <2> QED
    BY <2>2, <2>3
<1>6. attached' \in Nat /\ Len(tool_results') \in Nat
  <2>1. TypeInv'
    BY TypeInvStep
  <2> QED
    BY <2>1 DEF TypeInv, TypeOK
<1> QED
  BY <1>1, <1>4, <1>5, <1>6 DEF ResultsAccounted

\* With neither file nor trajectory there is nothing to count.
LEMMA TrafficInit == Init => TrafficInv
<1> SUFFICES ASSUME Init PROVE TrafficInv
  OBVIOUS
<1>1. CallPlaces = {} /\ Placed = {} /\ Called = {} /\ Arrived = {}
  BY DEF Init, CallPlaces, Placed, Called, Parsed, ParsedAt, Arrived, line_number
<1>2. /\ fidelity["tool_calls_preserved"] = 0
      /\ fidelity["observation_results_preserved"] = 0
      /\ fidelity["orphaned_tool_results"] = 0
      /\ Len(tool_calls) = 0 /\ Len(tool_results) = 0 /\ attached = 0
  BY DEF Init, ZeroCounters, Counters
<1>3. CallsAccounted
  BY <1>1, <1>2, CallsCounted, FS_EmptySet
<1>4. ResultsAccounted
  BY <1>1, <1>2, FS_EmptySet DEF ResultsAccounted
<1> QED
  BY <1>1, <1>3, <1>4, FS_EmptySet DEF TrafficInv

\* Calls and results stay accounted for.
LEMMA TrafficStep == TypeInv /\ CorrelationInv /\ TrafficInv /\ [AnyNext]_vars => TrafficInv'
  BY CallsAccountedStep, ResultsAccountedStep DEF TrafficInv

-----------------------------------------------------------------------------
(***************************************************************************)
(* Results are delivered in the order of the file and once each.  What     *)
(* makes it so is an order over the whole way of a result: those delivered *)
(* come before those that still wait, and these before what is not read.   *)
(***************************************************************************)

\* r is a result of the file as the parser has read it.
FromFile(r) ==
    /\ <<r.line, r.item>> \in Arrived
    /\ r.source_call_id = ResultId(log[r.line].blocks[r.item])
    /\ r.is_error = log[r.line].blocks[r.item].is_error

Before(r, t) == r.line < t.line \/ (r.line = t.line /\ r.item < t.item)

InStepOrder ==
    \A p, q \in Placed : p[1] = q[1] /\ p[2] < q[2] => Before(At(p), At(q))

PlacedOnce == \A p, q \in Placed : Origin(p) = Origin(q) => p = q

DeliveryInv ==
    /\ \A q \in DOMAIN tool_results : FromFile(tool_results[q])
    /\ \A q, t \in DOMAIN tool_results : q < t => Before(tool_results[q], tool_results[t])
    /\ \A p \in Placed : FromFile(At(p))
    /\ \A p \in Placed : \A q \in attached + 1 .. Len(tool_results) :
          Before(At(p), tool_results[q])
    /\ PlacedOnce
    /\ InStepOrder

\* A delivered result has the id of its block, which is therefore usable.
LEMMA DeliveredId ==
    ASSUME TypeInv, CorrelationInv, DeliveryInv, NEW p \in Placed
    PROVE  /\ At(p).source_call_id = log[At(p).line].blocks[At(p).item].id
           /\ At(p).source_call_id \in CallIds
<1>1. /\ p[1] \in DOMAIN steps /\ MakesCall(p[1], At(p).source_call_id)
  BY DEF CorrelationInv, Delivered, LatestAt, Placed, At
<1>2. steps[p[1]].tool_calls \in Seq(CallIds)
  BY <1>1, StepFields DEF Step
<1>3. At(p).source_call_id \in CallIds
  BY <1>1, <1>2 DEF MakesCall
<1>4. At(p).source_call_id = ResultId(log[At(p).line].blocks[At(p).item])
  BY DEF DeliveryInv, FromFile
<1> QED
  BY <1>3, <1>4, SentinelAssumption DEF ResultId

\* The order over the way of a result contains that of the results delivered.
LEMMA DeliveryIsOrdered == TypeInv /\ CorrelationInv /\ DeliveryInv => ResultsOnceInOrder
BY DeliveredId DEF DeliveryInv, ResultsOnceInOrder, PlacedOnce, InStepOrder, Before, FromFile, Origin

\* At first no result is on its way.
LEMMA DeliveryInit == Init => DeliveryInv
BY DEF Init, DeliveryInv, PlacedOnce, InStepOrder, Placed

\* Only a delivery touches the places that hold results.
LEMMA PlacedKept ==
    ASSUME TypeInv, [AnyNext]_vars, ~AttachResult
    PROVE  Placed' = Placed /\ \A p \in Placed : At(p)' = At(p)
<1>1. CASE UNCHANGED steps
  BY <1>1 DEF Placed, At
<1> QED
  BY <1>1, PlacesStep, AppendPlaces

\* A result once read stays what the file says.
LEMMA FromFileKept ==
    ASSUME TypeInv, CorrelationInv, [AnyNext]_vars, NEW r, FromFile(r)
    PROVE  FromFile(r)'
<1>1. <<r.line, r.item>> \in Arrived /\ <<r.line, r.item>> \in Arrived'
  BY ArrivedStep DEF FromFile
<1>2. log'[r.line] = log[r.line]
  BY <1>1, ArrivedStep
<1> QED
  BY <1>1, <1>2 DEF FromFile

\* In a record, the results come to are those before its block at hand.
LEMMA ArrivedBefore ==
    ASSUME TypeInv, pc = "record", NEW r, FromFile(r)
    PROVE  /\ r.line \in Nat /\ r.item \in Nat
           /\ r.line < line_number \/ (r.line = line_number /\ r.item < at)
<1>1. <<r.line, r.item>> \in Parsed
  BY ArrivedParsed DEF FromFile
<1>2. line_number \in Nat
  BY RecordFields
<1> QED
  BY <1>1, <1>2 DEF Parsed, ParsedAt, Finished

\* The result of the block at hand, as the record's results take it up.
LEMMA NewResult ==
    ASSUME TypeInv, CorrelationInv, DeliveryInv, ToolResultBlock, [AnyNext]_vars,
           NEW n, n = Len(tool_results) + 1
    PROVE  /\ DOMAIN tool_results' = 1 .. n /\ DOMAIN tool_results = 1 .. n - 1 /\ n \in Nat \ {0}
           /\ Len(tool_results') = n
           /\ \A q \in 1 .. n - 1 : tool_results'[q] = tool_results[q]
           /\ \E new : /\ tool_results'[n] = new /\ FromFile(new)'
                        /\ \A r : FromFile(r) => Before(r, new)
<1> PICK new : new = [source_call_id |-> ResultId(block), is_error |-> block.is_error,
                      line |-> line_number, item |-> at]
  OBVIOUS
<1>1. /\ NextBlock /\ pc = "record" /\ log' = log
      /\ tool_results' = Append(tool_results, new)
  BY ResultSteps, BlockEffect DEF ToolResultBlock
<1>2. tool_results \in Seq(Result)
  BY DEF TypeInv, TypeOK
<1>3. /\ DOMAIN tool_results' = 1 .. n /\ DOMAIN tool_results = 1 .. n - 1 /\ n \in Nat \ {0}
      /\ Len(tool_results') = n
      /\ \A q \in 1 .. n - 1 : tool_results'[q] = tool_results[q]
      /\ tool_results'[n] = new
  BY <1>1, <1>2
<1>4. FromFile(new)'
  <2>1. <<line_number, at>> \in Arrived'
    BY ArrivedStep
  <2> QED
    BY <1>1, <2>1 DEF FromFile, block, record
<1>5. ASSUME NEW r, FromFile(r) PROVE Before(r, new)
  BY <1>1, <1>5, ArrivedBefore DEF Before
<1> QED
  BY <1>3, <1>4, <1>5

\* Reading a block puts a result at most behind those in hand.
LEMMA DeliveryRead ==
    ASSUME TypeInv, CorrelationInv, DeliveryInv, ToolResultBlock, [AnyNext]_vars
    PROVE  DeliveryInv'
<1> PICK n : n = Len(tool_results) + 1
  OBVIOUS
<1>1. PICK new :
      /\ DOMAIN tool_results' = 1 .. n /\ DOMAIN tool_results = 1 .. n - 1 /\ n \in Nat \ {0}
      /\ Len(tool_results') = n
      /\ \A q \in 1 .. n - 1 : tool_results'[q] = tool_results[q]
      /\ tool_results'[n] = new /\ FromFile(new)'
      /\ \A r : FromFile(r) => Before(r, new)
  BY NewResult
<1>2. Placed' = Placed /\ \A p \in Placed : At(p)' = At(p)
  BY ResultSteps, PlacedKept
<1>3. attached' = attached /\ attached \in Nat
  BY DEF ToolResultBlock, ParseBlock, TypeInv, TypeOK
<1>4. \A q \in DOMAIN tool_results' : FromFile(tool_results[q])'
  <2>1. ASSUME NEW q \in 1 .. n - 1 PROVE FromFile(tool_results[q])'
    <3> PICK r : r = tool_results[q]
      OBVIOUS
    <3>1. FromFile(r)
      BY <1>1 DEF DeliveryInv
    <3>2. FromFile(r)'
      BY <3>1, FromFileKept
    <3> QED
      BY <1>1, <3>2 DEF FromFile
  <2> QED
    BY <1>1, <2>1
<1>5. \A q, t \in DOMAIN tool_results' : q < t => Before(tool_results'[q], tool_results'[t])
  <2>1. ASSUME NEW q \in 1 .. n, NEW t \in 1 .. n, q < t
        PROVE  Before(tool_results'[q], tool_results'[t])
    <3>1. q \in 1 .. n - 1 /\ tool_results'[q] = tool_results[q]
      BY <1>1, <2>1
    <3>2. CASE t = n
      BY <1>1, <3>1, <3>2 DEF DeliveryInv
    <3>3. CASE t \in 1 .. n - 1
      BY <1>1, <2>1, <3>1, <3>3 DEF DeliveryInv
    <3> QED
      BY <1>1, <2>1, <3>2, <3>3
  <2> QED
    BY <1>1, <2>1
<1>6. ASSUME NEW p \in Placed' PROVE FromFile(At(p))'
  <2> PICK r : r = At(p)
    OBVIOUS
  <2>1. FromFile(r)'
    BY <1>2, FromFileKept DEF DeliveryInv
  <2> QED
    BY <1>2, <2>1 DEF FromFile
<1>7. ASSUME NEW p \in Placed', NEW q \in attached' + 1 .. Len(tool_results')
      PROVE  Before(At(p)', tool_results'[q])
  <2>1. CASE q = n
    BY <1>1, <1>2, <2>1 DEF DeliveryInv
  <2>2. CASE q # n
    <3>1. q \in attached + 1 .. Len(tool_results) /\ tool_results'[q] = tool_results[q]
      BY <1>1, <1>3, <1>7, <2>2
    <3> QED
      BY <1>2, <3>1 DEF DeliveryInv
  <2> QED
    BY <2>1, <2>2
<1>8. PlacedOnce' /\ InStepOrder'
  BY <1>2 DEF DeliveryInv, PlacedOnce, InStepOrder, Origin, Before
<1> QED
  BY <1>4, <1>5, <1>6, <1>7, <1>8 DEF DeliveryInv, Before

\* The result that is delivered next comes after all delivered and before all in hand.
LEMMA DeliveryAttach ==
    ASSUME TypeInv, CorrelationInv, DeliveryInv, AttachResult, [AnyNext]_vars
    PROVE  DeliveryInv'
<1> PICK s : s = tool_call_steps[NextResult.source_call_id]
  OBVIOUS
<1> PICK n : n = Len(steps[s].observation) + 1
  OBVIOUS
<1> PICK new : new = <<s, n>>
  OBVIOUS
<1> PICK r : r = NextResult
  OBVIOUS
<1>1. /\ Placed' = Placed \cup {new} /\ new \notin Placed
      /\ \A p \in Placed : At(p)' = At(p)
      /\ At(new)' = r
  BY AttachPlaces DEF At
<1>2. /\ attached \in Nat /\ attached + 1 \in DOMAIN tool_results /\ attached' = attached + 1
      /\ tool_results' = tool_results /\ Len(tool_results) \in Nat
      /\ DOMAIN tool_results = 1 .. Len(tool_results)
      /\ r = tool_results[attached + 1]
  BY ResultEffect DEF TypeInv, TypeOK, NextResult
<1>3. \A p \in Placed : Before(At(p), r)
  BY <1>2 DEF DeliveryInv
<1>4. \A q \in DOMAIN tool_results' : FromFile(tool_results[q])'
  <2>1. ASSUME NEW q \in DOMAIN tool_results PROVE FromFile(tool_results[q])'
    <3> PICK x : x = tool_results[q]
      OBVIOUS
    <3>1. FromFile(x)'
      BY FromFileKept DEF DeliveryInv
    <3> QED
      BY <1>2, <3>1 DEF FromFile
  <2> QED
    BY <1>2, <2>1
<1>5. \A q, t \in DOMAIN tool_results' : q < t => Before(tool_results'[q], tool_results'[t])
  BY <1>2 DEF DeliveryInv
<1>6. ASSUME NEW p \in Placed' PROVE FromFile(At(p))'
  <2>1. PICK x : x = At(p)' /\ FromFile(x)
    BY <1>1, <1>2 DEF DeliveryInv
  <2>2. FromFile(x)'
    BY <2>1, FromFileKept
  <2> QED
    BY <2>1, <2>2 DEF FromFile
<1>7. ASSUME NEW p \in Placed', NEW q \in attached' + 1 .. Len(tool_results')
      PROVE  Before(At(p)', tool_results'[q])
  <2>1. q \in attached + 1 .. Len(tool_results) /\ q \in DOMAIN tool_results /\ attached + 1 < q
        /\ tool_results'[q] = tool_results[q]
    BY <1>2, <1>7
  <2>2. CASE p = new
    BY <1>1, <1>2, <2>1, <2>2 DEF DeliveryInv
  <2>3. CASE p \in Placed
    BY <1>1, <2>1, <2>3 DEF DeliveryInv
  <2> QED
    BY <1>1, <2>2, <2>3
<1>8. \A p \in Placed : At(p).line \in Nat /\ At(p).item \in Nat
  <2>1. pc = "record"
    BY ResultEffect
  <2> QED
    BY <2>1, ArrivedBefore DEF DeliveryInv
<1>9. ASSUME NEW p \in Placed', NEW q \in Placed', Origin(p)' = Origin(q)' PROVE p = q
  <2>2. CASE p \in Placed /\ q \in Placed
    BY <1>1, <1>9, <2>2 DEF DeliveryInv, PlacedOnce, Origin
  <2>3. ASSUME NEW x \in Placed, At(x)'.line = r.line, At(x)'.item = r.item
        PROVE  FALSE
    <3>1. At(x).line = r.line /\ At(x).item = r.item
      BY <1>1, <2>3
    <3> QED
      BY <1>3, <1>8, <3>1 DEF Before
  <2>4. At(p)'.line = At(q)'.line /\ At(p)'.item = At(q)'.item
    BY <1>9 DEF Origin
  <2>5. ~(p = new /\ q \in Placed) /\ ~(p \in Placed /\ q = new)
    BY <1>1, <2>3, <2>4
  <2> QED
    BY <1>1, <2>2, <2>5
<1>10. ASSUME NEW p \in Placed', NEW q \in Placed', p[1] = q[1], p[2] < q[2]
       PROVE  Before(At(p)', At(q)')
  <2>1. CASE p \in Placed /\ q \in Placed
    BY <1>1, <1>10, <2>1 DEF DeliveryInv, InStepOrder
  <2>2. CASE p \in Placed /\ q = new
    BY <1>1, <1>3, <2>2
  <2>3. CASE p = new
    <3>1. q \in Placed
      BY <1>1, <1>10, <2>3, AttachEffect, StepFields
    <3>2. q[2] \in 1 .. n - 1 /\ n \in Nat
      <4>1. steps[s].observation \in Seq(Result)
        BY AttachEffect, StepFields
      <4>2. q[1] = s
        BY <1>10, <2>3
      <4> QED
        BY <3>1, <4>1, <4>2 DEF Placed
    <3> QED
      BY <1>10, <2>3, <3>2
  <2> QED
    BY <1>1, <2>1, <2>2, <2>3
<1> QED
  BY <1>4, <1>5, <1>6, <1>7, <1>9, <1>10 DEF DeliveryInv, PlacedOnce, InStepOrder, Before

\* A step that neither reads nor delivers a result leaves those that wait, or drops
\* them as treated.
LEMMA DeliveryOther ==
    ASSUME TypeInv, CorrelationInv, DeliveryInv, [AnyNext]_vars, ~ToolResultBlock, ~AttachResult
    PROVE  DeliveryInv'
<1>1. Placed' = Placed /\ \A p \in Placed : At(p)' = At(p)
  BY PlacedKept
<1>2. /\ attached \in Nat /\ Len(tool_results) \in Nat
      /\ \/ tool_results' = <<>>
         \/ tool_results' = tool_results /\ attached' \in Nat /\ attached' >= attached
  <2>1. attached \in Nat /\ Len(tool_results) \in Nat
    BY DEF TypeInv, TypeOK
  <2>2. CASE ConvertAssistant \/ ConvertUserOrSystem
    BY <2>1, <2>2, EndEffect
  <2>3. CASE NextBlock
    BY <2>1, <2>3, BlockEffect
  <2>4. CASE OrphanResult
    BY <2>1, <2>4, ResultEffect
  <2>5. CASE EndOfFile \/ UNCHANGED vars \/ \E l \in FileLines : SkipLine(l) \/ Raise(l) \/ ReadRecord(l)
    BY <2>1, <2>5, SkipEffect, ReadEffect, EndOfFileEffect DEF vars, local
  <2> QED
    BY <2>2, <2>3, <2>4, <2>5 DEF AnyNext
<1>3. \A q \in DOMAIN tool_results' : FromFile(tool_results[q])'
  <2>1. CASE tool_results' = tool_results
    <3>1. ASSUME NEW q \in DOMAIN tool_results' PROVE FromFile(tool_results[q])'
      <4> PICK x : x = tool_results[q]
        OBVIOUS
      <4>1. FromFile(x)'
        BY <2>1, FromFileKept DEF DeliveryInv
      <4> QED
        BY <2>1, <4>1 DEF FromFile
    <3> QED
      BY <3>1
  <2> QED
    BY <1>2, <2>1
<1>4. \A q, t \in DOMAIN tool_results' : q < t => Before(tool_results'[q], tool_results'[t])
  BY <1>2 DEF DeliveryInv
<1>5. ASSUME NEW p \in Placed' PROVE FromFile(At(p))'
  <2> PICK r : r = At(p)
    OBVIOUS
  <2>1. FromFile(r)'
    BY <1>1, FromFileKept DEF DeliveryInv
  <2> QED
    BY <1>1, <2>1 DEF FromFile
<1>6. ASSUME NEW p \in Placed', NEW q \in attached' + 1 .. Len(tool_results')
      PROVE  Before(At(p)', tool_results'[q])
  <2>0. q \in Nat /\ attached' \in Nat /\ attached' < q /\ q <= Len(tool_results')
    <3>1. attached' \in Nat /\ Len(tool_results') \in Nat
      <4>1. TypeInv'
        BY TypeInvStep
      <4> QED
        BY <4>1 DEF TypeInv, TypeOK
    <3> QED
      BY <3>1, InRange
  <2>1. CASE tool_results' = tool_results /\ attached' \in Nat /\ attached' >= attached
    <3>1. q \in attached + 1 .. Len(tool_results)
      BY <1>2, <2>0, <2>1
    <3> QED
      BY <1>1, <2>1, <3>1 DEF DeliveryInv
  <2>2. CASE tool_results' = <<>>
    <3>1. Len(tool_results') = 0
      BY <2>2
    <3> QED
      BY <2>0, <3>1
  <2> QED
    BY <1>2, <2>1, <2>2
<1>7. PlacedOnce' /\ InStepOrder'
  BY <1>1 DEF DeliveryInv, PlacedOnce, InStepOrder, Origin, Before
<1> QED
  BY <1>3, <1>4, <1>5, <1>6, <1>7 DEF DeliveryInv, Before

\* No step brings the results out of order.
LEMMA DeliveryStep == TypeInv /\ CorrelationInv /\ DeliveryInv /\ [AnyNext]_vars => DeliveryInv'
  BY DeliveryRead, DeliveryAttach, DeliveryOther

-----------------------------------------------------------------------------
(***************************************************************************)
(* A result is orphaned only if no step before it made its call.           *)
(***************************************************************************)

\* Steps keep their calls and their lines, and a new one is of the record at hand.
LEMMA StepsKept ==
    ASSUME TypeInv, [AnyNext]_vars
    PROVE  /\ \A k \in DOMAIN steps :
                 /\ k \in DOMAIN steps'
                 /\ steps'[k].source_line = steps[k].source_line
                 /\ \A id : MakesCall(k, id)' <=> MakesCall(k, id)
           /\ \A k \in DOMAIN steps' : k \in DOMAIN steps \/ steps'[k].source_line = line_number
<1>1. CASE UNCHANGED steps
  BY <1>1 DEF MakesCall
<1>2. CASE AttachResult
  <2> PICK s : s = tool_call_steps[NextResult.source_call_id]
    OBVIOUS
  <2>1. /\ DOMAIN steps' = DOMAIN steps
        /\ \A i \in DOMAIN steps : /\ steps'[i].tool_calls = steps[i].tool_calls
                                  /\ steps'[i].source_line = steps[i].source_line
    BY <1>2, AttachEffect
  <2> QED
    BY <2>1 DEF MakesCall
<1>3. ASSUME NEW s, steps' = Append(steps, s), s.source_line = line_number
      PROVE  /\ \A k \in DOMAIN steps :
                   /\ k \in DOMAIN steps'
                   /\ steps'[k].source_line = steps[k].source_line
                   /\ \A id : MakesCall(k, id)' <=> MakesCall(k, id)
             /\ \A k \in DOMAIN steps' : k \in DOMAIN steps \/ steps'[k].source_line = line_number
  BY <1>3, AppendStep, StepFields DEF MakesCall
<1> QED
  BY <1>1, <1>2, <1>3, PlacesStep

\* A result that is neither waiting nor placed after a step was neither before it,
\* or it is the one that the step orphaned.
LEMMA LostStep ==
    ASSUME TypeInv, CorrelationInv, DeliveryInv, [AnyNext]_vars,
           NEW a \in Arrived', a \notin Waiting', \A p \in Placed' : a # Origin(p)'
    PROVE  /\ a \in Arrived /\ \A p \in Placed : a # Origin(p)
           /\ \/ a \notin Waiting
              \/ OrphanResult /\ a = <<NextResult.line, NextResult.item>> /\ FromFile(NextResult)
<1>0. /\ attached \in Nat /\ Len(tool_results) \in Nat /\ attached' \in Nat
      /\ DOMAIN tool_results = 1 .. Len(tool_results)
  <2>1. TypeInv'
    BY TypeInvStep
  <2> QED
    BY <2>1 DEF TypeInv, TypeOK
<1>1. a \in Arrived
  <2>1. CASE ToolResultBlock
    <3> PICK n : n = Len(tool_results) + 1
      OBVIOUS
    <3>1. /\ Len(tool_results') = n /\ n \in attached + 1 .. n
      <4>1. attached \in 0 .. Len(tool_results)
        BY DEF TypeInv, TypeOK
      <4> QED
        BY <1>0, <2>1, <4>1, NewResult
    <3>2. /\ attached' = attached
          /\ tool_results' = Append(tool_results,
                                [source_call_id |-> ResultId(block), is_error |-> block.is_error,
                                 line |-> line_number, item |-> at])
      BY <2>1 DEF ToolResultBlock, ParseBlock
    <3>3. tool_results'[n].line = line_number /\ tool_results'[n].item = at
      <4>1. tool_results \in Seq(Result)
        BY DEF TypeInv, TypeOK
      <4> QED
        BY <3>2, <4>1
    <3>4. <<line_number, at>> \in Waiting'
      <4>1. n \in attached' + 1 .. Len(tool_results')
        BY <3>1, <3>2
      <4> QED
        BY <3>3, <4>1 DEF Waiting
    <3> QED
      BY <3>4, ArrivedStep
  <2> QED
    BY <2>1, ArrivedStep
<1>2. ASSUME NEW p \in Placed PROVE a # Origin(p)
  <2>1. p \in Placed' /\ At(p)' = At(p)
    BY PlacedKept, AttachPlaces
  <2> QED
    BY <2>1 DEF Origin
<1>3. ASSUME a \in Waiting
      PROVE  OrphanResult /\ a = <<NextResult.line, NextResult.item>> /\ FromFile(NextResult)
  <2>1. PICK q \in attached + 1 .. Len(tool_results) :
           a = <<tool_results[q].line, tool_results[q].item>>
    BY <1>3 DEF Waiting
  <2>2. q \in Nat /\ attached < q /\ q <= Len(tool_results)
    BY <1>0, InRange
  <2>3. ASSUME q \in attached' + 1 .. Len(tool_results'), tool_results'[q] = tool_results[q]
        PROVE  FALSE
    <3>1. a \in Waiting'
      BY <2>1, <2>3 DEF Waiting
    <3> QED
      BY <3>1
  <2>4. CASE AttachResult \/ OrphanResult
    <3>1. /\ attached' = attached + 1 /\ tool_results' = tool_results
          /\ NextResult = tool_results[attached + 1]
      BY <2>4, ResultEffect DEF NextResult
    <3>2. q = attached + 1
      BY <1>0, <2>2, <2>3, <3>1
    <3>3. a = <<NextResult.line, NextResult.item>> /\ FromFile(NextResult)
      BY <1>0, <2>1, <2>2, <3>1, <3>2 DEF DeliveryInv
    <3>4. ~AttachResult
      <4> SUFFICES ASSUME AttachResult PROVE FALSE
        OBVIOUS
      <4> PICK s : s = tool_call_steps[NextResult.source_call_id]
        OBVIOUS
      <4> PICK n : n = Len(steps[s].observation) + 1
        OBVIOUS
      <4> PICK p : p = <<s, n>>
        OBVIOUS
      <4>1. p \in Placed' /\ At(p)' = NextResult
        BY AttachPlaces DEF At
      <4>2. Origin(p)' = a
        BY <3>3, <4>1 DEF Origin
      <4> QED
        BY <4>1, <4>2
    <3> QED
      BY <2>4, <3>3, <3>4
  <2>5. CASE ConvertAssistant \/ ConvertUserOrSystem
    <3>1. attached = Len(tool_results)
      BY <2>5, EndEffect
    <3> QED
      BY <1>0, <2>2, <3>1
  <2>6. CASE NextBlock /\ ~ToolResultBlock
    BY <2>1, <2>3, <2>6, BlockEffect
  <2>7. CASE ToolResultBlock
    <3> PICK n : n = Len(tool_results) + 1
      OBVIOUS
    <3>1. /\ Len(tool_results') = n /\ \A i \in 1 .. n - 1 : tool_results'[i] = tool_results[i]
          /\ attached' = attached
      BY <2>7, NewResult DEF ToolResultBlock, ParseBlock
    <3>2. q \in 1 .. n - 1 /\ q \in attached + 1 .. n
      BY <1>0, <2>2
    <3> QED
      BY <2>3, <3>1, <3>2
  <2>8. CASE EndOfFile \/ UNCHANGED vars \/ \E l \in FileLines : SkipLine(l) \/ Raise(l) \/ ReadRecord(l)
    <3>1. attached' = attached /\ tool_results' = tool_results
      BY <2>8, SkipEffect, ReadEffect, EndOfFileEffect DEF vars, local
    <3> QED
      BY <2>1, <2>3, <3>1
  <2> QED
    BY <2>4, <2>5, <2>6, <2>7, <2>8 DEF AnyNext
<1> QED
  BY <1>1, <1>2, <1>3

\* A result is lost only in OrphanResult, and later calls do not come before it.
LEMMA OrphanStep ==
    ASSUME TypeInv, CorrelationInv, DeliveryInv, OrphanHasNoCall, [AnyNext]_vars
    PROVE  OrphanHasNoCall'
<1> SUFFICES ASSUME NEW a \in Arrived', a \notin Waiting', \A p \in Placed' : a # Origin(p)',
                    NEW k \in DOMAIN steps', steps'[k].source_line < a[1]
             PROVE  ~MakesCall(k, log[a[1]].blocks[a[2]].id)'
  BY DEF OrphanHasNoCall
<1>1. /\ a \in Arrived /\ \A p \in Placed : a # Origin(p)
      /\ \/ a \notin Waiting
         \/ OrphanResult /\ a = <<NextResult.line, NextResult.item>> /\ FromFile(NextResult)
  BY LostStep
<1>2. log'[a[1]] = log[a[1]]
  BY <1>1, ArrivedStep
<1>3. a[1] \in 1 .. line_number /\ line_number \in Nat
  BY <1>1, ArrivedParsed, StepFields DEF Parsed, ParsedAt
<1>4. /\ k \in DOMAIN steps /\ steps[k].source_line < a[1]
      /\ \A id : MakesCall(k, id)' <=> MakesCall(k, id)
  BY <1>3, StepsKept
<1> PICK id : id = log[a[1]].blocks[a[2]].id
  OBVIOUS
<1>5. CASE a \notin Waiting
  <2>1. a \in Arrived \ (Waiting \cup {Origin(p) : p \in Placed})
    BY <1>1, <1>5
  <2>2. ~MakesCall(k, id)
    BY <1>4, <2>1 DEF OrphanHasNoCall
  <2>3. ~MakesCall(k, id)'
    BY <1>4, <2>2
  <2> QED
    BY <1>2, <2>3 DEF MakesCall
<1>6. CASE OrphanResult /\ a = <<NextResult.line, NextResult.item>> /\ FromFile(NextResult)
  <2>1. id \in CallIds => id = NextResult.source_call_id /\ id \notin DOMAIN tool_call_steps
    BY <1>6 DEF FromFile, OrphanResult, ResultId
  <2>2. MakesCall(k, id) => id \in CallIds
    <3>1. steps[k].tool_calls \in Seq(CallIds)
      BY <1>4, StepFields DEF Step
    <3> QED
      BY <3>1 DEF MakesCall
  <2>3. ~MakesCall(k, id)
    BY <1>4, <2>1, <2>2 DEF CorrelationInv, CallTable
  <2>4. ~MakesCall(k, id)'
    BY <1>4, <2>3
  <2> QED
    BY <1>2, <2>4 DEF MakesCall
<1> QED
  BY <1>1, <1>5, <1>6

\* At first no result is lost.
LEMMA OrphanInit == Init => OrphanHasNoCall
BY DEF Init, OrphanHasNoCall

\* The three invariants hold together.
LEMMA AccountingInvariance == Spec => [](TrafficInv /\ DeliveryInv /\ OrphanHasNoCall)
<1>1. Init => TrafficInv /\ DeliveryInv /\ OrphanHasNoCall
  BY TrafficInit, DeliveryInit, OrphanInit
<1>2. /\ TypeInv /\ CorrelationInv /\ [AnyNext]_vars
      /\ TrafficInv /\ DeliveryInv /\ OrphanHasNoCall
      => (TrafficInv /\ DeliveryInv /\ OrphanHasNoCall)'
  BY TrafficStep, DeliveryStep, OrphanStep
<1> QED
  BY <1>1, <1>2, TypeInvariance, CorrelationInvariance, AnyFile, PTL

\* No call and no result of the file goes missing: each is in the trajectory, or counted
\* as lost, and a result is lost only for want of its call.
THEOREM NoToolTrafficLost == Spec => []ToolTrafficAccounted
<1>1. TrafficInv /\ OrphanHasNoCall => ToolTrafficAccounted
  BY DEF TrafficInv, ToolTrafficAccounted
<1> QED
  BY <1>1, AccountingInvariance, PTL

\* No result is delivered twice, what is delivered is a result of the file, and a step
\* holds its results in the order of the file.
THEOREM ResultsDeliveredOnce == Spec => []ResultsOnceInOrder
  BY DeliveryIsOrdered, TypeInvariance, CorrelationInvariance, AccountingInvariance, PTL

-----------------------------------------------------------------------------
(***************************************************************************)
(* The transformation is reported exactly when some result was moved.  The *)
(* code decides it at the end of a record, from a total over all records:  *)
(* within a record with results the total may be ahead of the flag.        *)
(***************************************************************************)
MovedInv ==
    /\ normalized => fidelity["observation_results_preserved"] > 0
    /\ fidelity["observation_results_preserved"] > 0 =>
          normalized \/ (pc = "record" /\ tool_results # <<>>)
    /\ pc = "done" => transformations = normalized

\* The notes of the parser follow the running total of what it moved.
LEMMA MovedStep ==
    ASSUME TypeInv, CorrelationInv, MovedInv, [AnyNext]_vars
    PROVE  MovedInv'
<1> DEFINE moved == fidelity["observation_results_preserved"]
<1>1. moved \in Nat /\ moved' = moved + (IF AttachResult THEN 1 ELSE 0)
  BY TrafficCounters DEF Counters
<1>2. normalized \in BOOLEAN
  BY DEF TypeInv, TypeOK
<1>3. CASE AttachResult \/ OrphanResult
  <2>1. /\ pc' = "record" /\ tool_results' # <<>>
        /\ normalized' = normalized /\ moved' >= moved
    BY <1>1, <1>3, ResultEffect
  <2> QED
    BY <1>1, <2>1 DEF MovedInv
<1>4. CASE ~AttachResult /\ ~OrphanResult
  <2>1. moved' = moved
    BY <1>1, <1>4
  <2>2. CASE ConvertAssistant
    <3>1. pc = "record" /\ tool_results = <<>> /\ pc' = "reading" /\ normalized' = normalized
      BY <2>2, EndEffect DEF ConvertAssistant, TypeInv, LocalsOK
    <3> QED
      BY <2>1, <3>1 DEF MovedInv
  <2>3. CASE ConvertUserOrSystem
    <3>1. pc' = "reading" /\ normalized' = (normalized \/ ResultsMoved)
      BY <2>3, EndEffect DEF ConvertUserOrSystem
    <3> QED
      BY <1>1, <1>2, <2>1, <3>1 DEF MovedInv, ResultsMoved
  <2>4. CASE NextBlock
    <3>1. /\ pc' = "record" /\ pc = "record" /\ normalized' = normalized
          /\ tool_results # <<>> => tool_results' # <<>>
      <4>1. tool_results \in Seq(Result)
        BY DEF TypeInv, TypeOK
      <4> QED
        BY <2>4, <4>1, BlockEffect
    <3> QED
      BY <2>1, <3>1 DEF MovedInv
  <2>5. CASE EndOfFile
    <3>1. pc = "reading" /\ normalized' = normalized /\ transformations' = normalized
      BY <2>5, EndOfFileEffect
    <3> QED
      BY <2>1, <3>1 DEF MovedInv
  <2>6. ASSUME NEW l \in FileLines, SkipLine(l) \/ Raise(l) \/ ReadRecord(l)
        PROVE  MovedInv'
    <3>1. pc = "reading" /\ pc' # "done" /\ normalized' = normalized
      BY <2>6, SkipEffect, ReadEffect
    <3> QED
      BY <2>1, <3>1 DEF MovedInv
  <2>7. CASE UNCHANGED vars
    BY <2>7 DEF MovedInv, vars, local
  <2> QED
    BY <1>4, <2>2, <2>3, <2>4, <2>5, <2>6, <2>7 DEF AnyNext
<1> QED
  BY <1>3, <1>4

\* The report names the transformation exactly when some result was moved.
THEOREM MovesReported == Spec => []NormalizationReported
<1>1. Init => MovedInv
  BY DEF Init, MovedInv, ZeroCounters, Counters
<1>2. TypeInv /\ CorrelationInv /\ MovedInv /\ [AnyNext]_vars => MovedInv'
  BY MovedStep
<1>3. MovedInv => NormalizationReported
  BY DEF MovedInv, NormalizationReported
<1> QED
  BY <1>1, <1>2, <1>3, TypeInvariance, CorrelationInvariance, AnyFile, PTL

-----------------------------------------------------------------------------
(***************************************************************************)
(* What the report says was lost is what the file has and the trajectory   *)
(* has not.                                                                *)
(***************************************************************************)

\* An entry that grows by n adds n to the sum of its list.
LEMMA TallyCells ==
    ASSUME NEW list, IsTally(list), IsFiniteSet(Cells(list)), NEW k, NEW n \in Nat
    PROVE  /\ IsFiniteSet(Cells(Tally(list, {k}, n)))
           /\ Cardinality(Cells(Tally(list, {k}, n))) = Cardinality(Cells(list)) + n
<1> PICK m : m = IF k \in DOMAIN list THEN list[k] ELSE 0
  OBVIOUS
<1>1. m \in Nat /\ \A j \in DOMAIN list : list[j] \in Nat
  BY DEF IsTally
<1> DEFINE more == Tally(list, {k}, n)
           added == {k} \X (m + 1 .. m + n)
<1>2. /\ DOMAIN more = DOMAIN list \cup {k}
      /\ more[k] = m + n
      /\ \A j \in DOMAIN list \ {k} : more[j] = list[j]
  BY <1>1 DEF Tally
<1>3. 1 .. m + n = (1 .. m) \cup (m + 1 .. m + n) /\ (1 .. m) \cap (m + 1 .. m + n) = {}
  BY <1>1
<1>4. k \notin DOMAIN list => 1 .. m = {}
  BY <1>1
<1> HIDE DEF more
<1>5. Cells(more) = Cells(list) \cup added
  <2>1. ASSUME NEW c \in Cells(more) PROVE c \in Cells(list) \cup added
    <3>1. PICK j \in DOMAIN more : c \in {j} \X (1 .. more[j])
      BY DEF Cells
    <3>2. CASE j = k
      BY <1>2, <1>3, <1>4, <3>1, <3>2 DEF Cells
    <3>3. CASE j # k
      BY <1>2, <3>1, <3>3 DEF Cells
    <3> QED
      BY <3>2, <3>3
  <2>2. ASSUME NEW c \in Cells(list) PROVE c \in Cells(more)
    <3>1. PICK j \in DOMAIN list : c \in {j} \X (1 .. list[j])
      BY DEF Cells
    <3>2. CASE j = k
      BY <1>2, <1>3, <3>1, <3>2 DEF Cells
    <3>3. CASE j # k
      BY <1>2, <3>1, <3>3 DEF Cells
    <3> QED
      BY <3>2, <3>3
  <2>3. added \subseteq Cells(more)
    BY <1>2, <1>3 DEF Cells
  <2> QED
    BY <2>1, <2>2, <2>3
<1>6. Cells(list) \cap added = {}
  <2>1. ASSUME NEW c \in Cells(list), c \in added PROVE FALSE
    <3>1. PICK j \in DOMAIN list : c \in {j} \X (1 .. list[j])
      BY <2>1 DEF Cells
    <3>2. j = k /\ c[2] \in 1 .. m /\ c[2] \in m + 1 .. m + n
      BY <2>1, <3>1
    <3> QED
      BY <1>3, <3>2
  <2> QED
    BY <2>1
<1>7. IsFiniteSet(added) /\ Cardinality(added) = n
  <2>1. m + 1 \in Int /\ m + n \in Int
    BY <1>1
  <2>2. IsFiniteSet(m + 1 .. m + n) /\ Cardinality(m + 1 .. m + n) = n
    BY <1>1, <2>1, FS_Interval
  <2> QED
    BY <2>2, ColumnSize
<1> HIDE DEF added
<1> QED
  BY <1>5, <1>6, <1>7, DisjointUnion DEF more

\* The lists of records and of blocks, against their totals.
ListsOK ==
    /\ IsFiniteSet(Cells(breakdown.records)) /\ IsFiniteSet(Cells(breakdown.blocks))
    /\ fidelity["unsupported_source_records"] = Cardinality(Cells(breakdown.records))
    /\ fidelity["unsupported_source_blocks"] = Cardinality(Cells(breakdown.blocks))
    /\ DOMAIN breakdown.with_content = DOMAIN breakdown.blocks
    /\ \A k \in DOMAIN breakdown.blocks :
          breakdown.blocks[k] > 0 /\ breakdown.with_content[k] <= breakdown.blocks[k]

\* What a step may do to the losses of the report: nothing, or one entry of one list
\* grows by as much as its total does.
RecordsKept ==
    /\ fidelity'["unsupported_source_records"] = fidelity["unsupported_source_records"]
    /\ breakdown'.records = breakdown.records

RecordsGrow(k) ==
    /\ fidelity'["unsupported_source_records"] = fidelity["unsupported_source_records"] + 1
    /\ breakdown'.records = Tally(breakdown.records, {k}, 1)

BlocksKept ==
    /\ fidelity'["unsupported_source_blocks"] = fidelity["unsupported_source_blocks"]
    /\ breakdown'.blocks = breakdown.blocks
    /\ breakdown'.with_content = breakdown.with_content

BlocksGrow(k, n, m) ==
    /\ n \in Nat /\ m \in Nat /\ n > 0 /\ m <= n
    /\ fidelity'["unsupported_source_blocks"] = fidelity["unsupported_source_blocks"] + n
    /\ breakdown'.blocks = Tally(breakdown.blocks, {k}, n)
    /\ breakdown'.with_content = Tally(breakdown.with_content, {k}, m)

LossStep ==
    /\ RecordsKept \/ \E k : RecordsGrow(k)
    /\ BlocksKept \/ \E k, n, m : BlocksGrow(k, n, m)

\* Counting blocks touches no list but the two of blocks.
LEMMA BlocksTallied ==
    ASSUME NEW label, NEW w \in BOOLEAN, NEW n \in Nat, n > 0,
           fidelity'["unsupported_source_blocks"] = fidelity["unsupported_source_blocks"] + n,
           fidelity'["unsupported_source_records"] = fidelity["unsupported_source_records"],
           breakdown' = TallyBlocks(breakdown, label, w, n), IsBreakdown(breakdown)
    PROVE  LossStep
<1>1. /\ breakdown'.records = breakdown.records
      /\ breakdown'.blocks = Tally(breakdown.blocks, {label}, n)
      /\ breakdown'.with_content = Tally(breakdown.with_content, {label}, IF w THEN n ELSE 0)
  BY DEF TallyBlocks, IsBreakdown
<1>2. PICK m : m = IF w THEN n ELSE 0
  OBVIOUS
<1>3. m \in Nat /\ m <= n
  BY <1>2
<1>4. BlocksGrow(label, n, m)
  BY <1>1, <1>2, <1>3 DEF BlocksGrow
<1>5. RecordsKept
  BY <1>1 DEF RecordsKept
<1> QED
  BY <1>4, <1>5 DEF LossStep

\* Every step of the parser is such a step.
LEMMA ReportStep ==
    ASSUME TypeInv, CorrelationInv, [AnyNext]_vars
    PROVE  LossStep
<1> DEFINE r == "unsupported_source_records"
           b == "unsupported_source_blocks"
<1>0. /\ fidelity \in [Counters -> Nat] /\ r \in Counters /\ b \in Counters /\ r # b
      /\ fidelity[r] \in Nat /\ fidelity[b] \in Nat /\ IsBreakdown(breakdown)
  BY DEF TypeInv, TypeOK, Counters
<1>1. ASSUME NEW S, fidelity' = Count(fidelity, S), r \notin S, b \notin S
      PROVE  fidelity'[r] = fidelity[r] /\ fidelity'[b] = fidelity[b]
  BY <1>0, <1>1, CountEffect
<1>2. ASSUME fidelity'[r] = fidelity[r], fidelity'[b] = fidelity[b],
             breakdown'.records = breakdown.records, breakdown'.blocks = breakdown.blocks,
             breakdown'.with_content = breakdown.with_content
      PROVE  LossStep
  BY <1>2 DEF LossStep, RecordsKept, BlocksKept
<1>3. ASSUME NEW label, NEW w \in BOOLEAN, CountUnsupportedBlock(label, w)
      PROVE  LossStep
  <2>1. fidelity' = Count(fidelity, {b}) /\ breakdown' = TallyBlocks(breakdown, label, w, 1)
    BY <1>3 DEF CountUnsupportedBlock
  <2>2. fidelity'[b] = fidelity[b] + 1 /\ fidelity'[r] = fidelity[r]
    BY <1>0, <2>1, CountEffect
  <2> QED
    BY <1>0, <2>1, <2>2, BlocksTallied
<1>4. ASSUME NEW l \in FileLines, SkipLine(l) \/ Raise(l) PROVE LossStep
  <2>1. CASE fidelity' = fidelity /\ breakdown' = breakdown
    BY <1>2, <2>1
  <2>2. ASSUME NEW label, NEW category, CountUnsupportedRecord(label, category)
        PROVE  LossStep
    <3>1. /\ breakdown'.records = Tally(breakdown.records, {<<label, category>>}, 1)
          /\ breakdown'.blocks = breakdown.blocks
          /\ breakdown'.with_content = breakdown.with_content
      BY <2>2, <1>0 DEF CountUnsupportedRecord, TallyRecord, IsBreakdown
    <3>2. fidelity'[r] = fidelity[r] + 1 /\ fidelity'[b] = fidelity[b]
      BY <1>0, <2>2, CountEffect DEF CountUnsupportedRecord
    <3>3. RecordsGrow(<<label, category>>) /\ BlocksKept
      BY <3>1, <3>2 DEF RecordsGrow, BlocksKept
    <3> QED
      BY <3>3 DEF LossStep
  <2> QED
    BY <1>4, <2>1, <2>2 DEF SkipLine, Raise, MalformedLine, NonObjectLine, UnsupportedType,
         NoMessage, UnsupportedRole, UnhashableType, UnhashableRole
<1>5. ASSUME NEW l \in FileLines, ReadRecord(l) PROVE LossStep
  <2>1. fidelity' = Count(fidelity, TimestampCounters(l) \cup ContentCounters(l))
    BY <1>5 DEF ReadRecord
  <2>2. CASE NonListContent(l)
    <3>1. breakdown' = TallyBlocks(breakdown, <<"content", "non-list">>, l.content = "other", 1)
      BY <1>5, <2>2 DEF ReadRecord
    <3>2. fidelity'[b] = fidelity[b] + 1 /\ fidelity'[r] = fidelity[r]
      BY <1>0, <2>1, <2>2, CountEffect DEF ContentCounters, TimestampCounters
    <3>3. PICK w \in BOOLEAN : w <=> l.content = "other"
      OBVIOUS
    <3>4. breakdown' = TallyBlocks(breakdown, <<"content", "non-list">>, w, 1)
      BY <3>1, <3>3 DEF TallyBlocks
    <3> QED
      BY <1>0, <3>2, <3>4, BlocksTallied
  <2>3. CASE ~NonListContent(l)
    <3>1. breakdown' = breakdown
      BY <1>5, <2>3 DEF ReadRecord
    <3>2. r \notin TimestampCounters(l) \cup ContentCounters(l)
          /\ b \notin TimestampCounters(l) \cup ContentCounters(l)
      BY <2>3 DEF ContentCounters, TimestampCounters
    <3>3. fidelity'[r] = fidelity[r] /\ fidelity'[b] = fidelity[b]
      BY <1>1, <2>1, <3>2
    <3> QED
      BY <1>2, <3>1, <3>3
  <2> QED
    BY <2>2, <2>3
<1>6. CASE NextBlock
  <2>0. block \in Block /\ DroppedItems(block.items) \in Nat /\ block.payload \in BOOLEAN
    <3>1. block \in Block
      BY <1>6, BlockEffect, RecordFields
    <3> QED
      BY <3>1, DroppedItemsType DEF Block
  <2>1. CASE TextBlock \/ ToolUseBlock
    <3>1. breakdown' = breakdown
      BY <2>1 DEF TextBlock, ToolUseBlock
    <3>2. CASE TextBlock
      BY <1>2, <3>1, <3>2 DEF TextBlock
    <3>3. CASE ToolUseBlock
      <4>1. fidelity'[r] = fidelity[r] /\ fidelity'[b] = fidelity[b]
        BY <1>1, <3>3 DEF ToolUseBlock
      <4> QED
        BY <1>2, <3>1, <4>1
    <3> QED
      BY <2>1, <3>2, <3>3
  <2>2. CASE ToolResultBlock
    <3> PICK n \in Nat : n = DroppedItems(block.items)
      BY <2>0
    <3>1. fidelity' = CountMany(fidelity, b, n)
      BY <2>2 DEF ToolResultBlock, CountDroppedItems
    <3>2. fidelity'[b] = fidelity[b] + n /\ fidelity'[r] = fidelity[r]
      BY <1>0, <3>1 DEF CountMany
    <3>3. CASE n > 0
      <4>1. breakdown' = TallyBlocks(breakdown, <<"tool_result", "item">>, TRUE, n)
        BY <2>2, <3>3 DEF ToolResultBlock, CountDroppedItems
      <4> QED
        BY <1>0, <3>2, <3>3, <4>1, BlocksTallied
    <3>4. CASE ~(n > 0)
      <4>1. breakdown' = breakdown
        BY <2>2, <3>4 DEF ToolResultBlock, CountDroppedItems
      <4>2. fidelity'[b] = fidelity[b]
        BY <1>0, <3>2, <3>4
      <4> QED
        BY <1>2, <3>2, <4>1, <4>2
    <3> QED
      BY <3>3, <3>4
  <2>4. CASE MisplacedToolBlock \/ MalformedBlock
    <3>1. \E label : CountUnsupportedBlock(label, TRUE)
      BY <2>4 DEF MisplacedToolBlock, MalformedBlock
    <3> QED
      BY <1>3, <3>1
  <2>5. CASE UnknownBlock
    <3>1. CountUnsupportedBlock(<<block.kind, "">>, BlockHasPayload(block))
      BY <2>5 DEF UnknownBlock
    <3>2. BlockHasPayload(block) \in BOOLEAN
      BY DEF BlockHasPayload
    <3> QED
      BY <1>3, <3>1, <3>2
  <2> QED
    BY <1>6, <2>1, <2>2, <2>4, <2>5 DEF NextBlock
<1>7. CASE AttachResult \/ OrphanResult
  <2>1. breakdown' = breakdown
    BY <1>7, ResultEffect
  <2>2. \E S : fidelity' = Count(fidelity, S) /\ r \notin S /\ b \notin S
    <3>1. CASE AttachResult
      <4>1. PICK S : /\ S = {"observation_results_preserved"}
                            \cup {c \in {"omitted_tool_result_timestamps"} : record.timestamp = "valid"}
                     /\ fidelity' = Count(fidelity, S)
        BY <3>1 DEF AttachResult
      <4> QED
        BY <4>1
    <3>2. CASE OrphanResult
      BY <3>2 DEF OrphanResult
    <3> QED
      BY <1>7, <3>1, <3>2
  <2>3. fidelity'[r] = fidelity[r] /\ fidelity'[b] = fidelity[b]
    BY <1>1, <2>2
  <2> QED
    BY <1>2, <2>1, <2>3
<1>8. CASE ConvertAssistant \/ ConvertUserOrSystem
  <2>1. \E S : EndRecord(S) /\ r \notin S /\ b \notin S
    <3>1. r \notin UsageCounters /\ b \notin UsageCounters
      BY DEF UsageCounters
    <3> QED
      BY <1>8, <3>1 DEF ConvertAssistant, ConvertUserOrSystem
  <2>2. fidelity'[r] = fidelity[r] /\ fidelity'[b] = fidelity[b]
    <3>1. PICK S : EndRecord(S) /\ r \notin S /\ b \notin S
      BY <2>1
    <3>2. \E T : fidelity' = Count(fidelity, T) /\ r \notin T /\ b \notin T
      BY <3>1 DEF EndRecord
    <3> QED
      BY <1>1, <3>2
  <2>3. /\ breakdown'.records = breakdown.records /\ breakdown'.blocks = breakdown.blocks
        /\ breakdown'.with_content = breakdown.with_content
    <3>1. breakdown' = TallyFields(breakdown, record.ignored)
      BY <1>8, EndEffect
    <3> QED
      BY <1>0, <3>1 DEF TallyFields, IsBreakdown
  <2> QED
    BY <1>2, <2>2, <2>3
<1>9. CASE EndOfFile \/ UNCHANGED vars
  <2>1. fidelity' = fidelity /\ breakdown' = breakdown
    BY <1>9, EndOfFileEffect DEF vars
  <2> QED
    BY <1>2, <2>1
<1> QED
  BY <1>4, <1>5, <1>6, <1>7, <1>8, <1>9 DEF AnyNext

\* The lists add up to the totals after every step.
LEMMA ListsStep ==
    ASSUME TypeInv, CorrelationInv, ListsOK, [AnyNext]_vars
    PROVE  ListsOK'
<1> DEFINE r == "unsupported_source_records"
           b == "unsupported_source_blocks"
<1>0. /\ IsTally(breakdown.records) /\ IsTally(breakdown.blocks) /\ IsTally(breakdown.with_content)
      /\ fidelity[r] \in Nat /\ fidelity[b] \in Nat
  BY DEF TypeInv, TypeOK, IsBreakdown, Counters
<1>1. /\ IsFiniteSet(Cells(breakdown'.records))
      /\ fidelity'[r] = Cardinality(Cells(breakdown'.records))
  <2>1. CASE RecordsKept
    BY <2>1 DEF ListsOK, RecordsKept
  <2>2. CASE \E k : RecordsGrow(k)
    <3>1. PICK k : RecordsGrow(k)
      BY <2>2
    <3>2. PICK t, n : n = 1 /\ t = Tally(breakdown.records, {k}, n)
      OBVIOUS
    <3>3. /\ IsFiniteSet(Cells(t))
          /\ Cardinality(Cells(t)) = Cardinality(Cells(breakdown.records)) + n
      <4>1. n \in Nat /\ IsFiniteSet(Cells(breakdown.records))
        BY <3>2 DEF ListsOK
      <4> QED
        BY <1>0, <3>2, <4>1, TallyCells
    <3> QED
      BY <3>1, <3>2, <3>3 DEF ListsOK, RecordsGrow
  <2> QED
    BY <2>1, <2>2, ReportStep DEF LossStep
<1>2. /\ IsFiniteSet(Cells(breakdown'.blocks))
      /\ fidelity'[b] = Cardinality(Cells(breakdown'.blocks))
      /\ DOMAIN breakdown'.with_content = DOMAIN breakdown'.blocks
      /\ \A k \in DOMAIN breakdown'.blocks :
            breakdown'.blocks[k] > 0 /\ breakdown'.with_content[k] <= breakdown'.blocks[k]
  <2>1. CASE BlocksKept
    BY <2>1 DEF ListsOK, BlocksKept
  <2>2. CASE \E k, n, m : BlocksGrow(k, n, m)
    <3>0. PICK k, n, m : BlocksGrow(k, n, m)
      BY <2>2
    <3>1. PICK t : t = Tally(breakdown.blocks, {k}, n)
      OBVIOUS
    <3>2. PICK u : u = Tally(breakdown.with_content, {k}, m)
      OBVIOUS
    <3>3. /\ IsFiniteSet(Cells(t))
          /\ Cardinality(Cells(t)) = Cardinality(Cells(breakdown.blocks)) + n
      BY <1>0, <3>0, <3>1, TallyCells DEF ListsOK, BlocksGrow
    <3>4. DOMAIN u = DOMAIN t
      BY <3>1, <3>2 DEF ListsOK, Tally
    <3>5. ASSUME NEW j \in DOMAIN t
          PROVE  t[j] > 0 /\ u[j] <= t[j]
      <4>0. n \in Nat /\ m \in Nat /\ n > 0 /\ m <= n
        BY <3>0 DEF BlocksGrow
      <4>1. CASE j \in DOMAIN breakdown.blocks
        <5>1. /\ breakdown.blocks[j] \in Nat /\ breakdown.with_content[j] \in Nat
              /\ breakdown.blocks[j] > 0 /\ breakdown.with_content[j] <= breakdown.blocks[j]
              /\ j \in DOMAIN breakdown.with_content
          BY <1>0, <4>1 DEF ListsOK, IsTally
        <5>2. /\ t[j] = breakdown.blocks[j] + (IF j \in {k} THEN n ELSE 0)
              /\ u[j] = breakdown.with_content[j] + (IF j \in {k} THEN m ELSE 0)
          BY <3>1, <3>2, <4>0, <4>1, <5>1 DEF Tally
        <5> QED
          BY <4>0, <5>1, <5>2
      <4>2. CASE j \notin DOMAIN breakdown.blocks
        <5>1. j = k /\ j \notin DOMAIN breakdown.with_content
          BY <3>1, <3>5, <4>2 DEF Tally, ListsOK
        <5>2. t[j] = n /\ u[j] = m
          BY <3>1, <3>2, <4>0, <4>2, <5>1 DEF Tally
        <5> QED
          BY <4>0, <5>2
      <4> QED
        BY <4>1, <4>2
    <3> QED
      BY <3>0, <3>1, <3>2, <3>3, <3>4, <3>5 DEF BlocksGrow, ListsOK
  <2> QED
    BY <2>1, <2>2, ReportStep DEF LossStep
<1> QED
  BY <1>1, <1>2 DEF ListsOK

-----------------------------------------------------------------------------
\* The turns of the file: the converted lines that the loop is through with.
Turns == {n \in Finished : Converted(n)}

Finishing == ConvertAssistant \/ ConvertUserOrSystem

\* A turn is one more by finishing its record, and by nothing else.
LEMMA TurnsStep ==
    ASSUME TypeInv, CorrelationInv, [AnyNext]_vars
    PROVE  /\ Turns' = Turns \cup {n \in {line_number} : Finishing}
           /\ Finishing => line_number \notin Turns
           /\ \A n \in Turns' : n \in 1 .. line_number /\ log'[n] = log[n]
           /\ IsFiniteSet(Turns)
<1>0. line_number \in Nat
  BY StepFields
<1>1. IsFiniteSet(Turns)
  <2>1. IsFiniteSet(1 .. line_number)
    BY <1>0, FS_Interval
  <2>2. Turns \subseteq 1 .. line_number
    BY <1>0 DEF Turns, Finished
  <2> QED
    BY <2>1, <2>2, FS_Subset
<1>2. CASE Finishing
  <2>1. /\ pc = "record" /\ pc' = "reading" /\ log' = log /\ Converted(line_number)
    BY <1>2, EndEffect DEF Finishing, TypeInv, LocalsOK
  <2>2. /\ line_number' = line_number /\ \A n : Converted(n)' <=> Converted(n)
    BY <2>1 DEF line_number, Converted, Supported
  <2>3. Finished = 1 .. line_number - 1 /\ Finished' = 1 .. line_number
    BY <2>1, <2>2 DEF Finished
  <2>4. line_number \notin Turns /\ Turns' \subseteq 1 .. line_number
    BY <1>0, <2>3 DEF Turns
  <2>5. line_number \in 1 .. line_number
    BY <1>0, <2>1 DEF TypeInv, LocalsOK, line_number
  <2>6. Turns' = Turns \cup {line_number}
    BY <1>0, <2>1, <2>2, <2>3, <2>5 DEF Turns
  <2> QED
    BY <1>1, <1>2, <2>1, <2>4, <2>6
<1>3. CASE ~Finishing
  <2> PICK next : next = line_number + 1
    OBVIOUS
  <2>1. ASSUME NEW l \in FileLines, SkipLine(l) \/ Raise(l) \/ ReadRecord(l)
        PROVE  Turns' = Turns /\ \A n \in Turns' : n \in 1 .. line_number /\ log'[n] = log[n]
    <3>1. /\ pc = "reading" /\ log' = Append(log, l)
          /\ pc' = "record" \/ ~Converted(line_number)'
      BY <2>1, SkipEffect, ReadEffect
    <3>2. /\ line_number' = line_number + 1
          /\ \A n \in 1 .. line_number : log'[n] = log[n] /\ (Converted(n)' <=> Converted(n))
      BY <3>1, FileGrows
    <3>3. Finished = 1 .. line_number
      BY <3>1 DEF Finished
    <3>4. Finished' = 1 .. line_number \/ (Finished' = 1 .. next /\ ~Converted(next)')
      <4>1. CASE pc' = "record"
        BY <1>0, <3>2, <4>1 DEF Finished
      <4>2. CASE pc' # "record"
        <5>1. ~Converted(next)'
          BY <3>1, <3>2, <4>2 DEF Converted, Supported
        <5> QED
          BY <3>2, <4>2, <5>1 DEF Finished
      <4> QED
        BY <4>1, <4>2
    <3>5. ASSUME NEW n PROVE n \in Turns' <=> n \in Turns
      <4>1. CASE n \in 1 .. line_number
        BY <1>0, <3>2, <3>3, <3>4, <4>1 DEF Turns
      <4>2. CASE n \notin 1 .. line_number
        <5>1. n \notin Turns
          BY <3>3, <4>2 DEF Turns
        <5>2. n \in 1 .. next => n = next
          BY <1>0, <4>2
        <5> QED
          BY <3>3, <3>4, <4>2, <5>1, <5>2 DEF Turns
      <4> QED
        BY <4>1, <4>2
    <3> QED
      BY <3>2, <3>3, <3>5 DEF Turns
  <2>2. ASSUME \/ NextBlock \/ AttachResult \/ OrphanResult \/ EndOfFile \/ UNCHANGED vars
        PROVE  Turns' = Turns /\ \A n \in Turns' : n \in 1 .. line_number /\ log'[n] = log[n]
    <3>1. log' = log /\ (pc' = pc \/ (pc = "reading" /\ pc' \in {"done", "rejected"}))
      BY <2>2, BlockEffect, ResultEffect, EndOfFileEffect DEF vars
    <3>2. /\ line_number' = line_number /\ Finished' = Finished
          /\ \A n : Converted(n)' <=> Converted(n)
      BY <3>1 DEF line_number, Finished, Converted, Supported
    <3>3. Turns' = Turns
      BY <3>2 DEF Turns
    <3> QED
      BY <1>0, <3>1, <3>3 DEF Turns, Finished
  <2>3. Turns' = Turns /\ \A n \in Turns' : n \in 1 .. line_number /\ log'[n] = log[n]
    BY <1>3, <2>1, <2>2 DEF AnyNext, Finishing
  <2> QED
    BY <1>1, <1>3, <2>3
<1> QED
  BY <1>2, <1>3

\* Only finishing a record touches the list of fields.
LEMMA FieldsTallied ==
    ASSUME TypeInv, CorrelationInv, [AnyNext]_vars
    PROVE  breakdown'.fields = IF Finishing THEN Tally(breakdown.fields, record.ignored, 1)
                               ELSE breakdown.fields
<1>0. IsBreakdown(breakdown)
  BY DEF TypeInv, TypeOK
<1>1. CASE Finishing
  <2>1. breakdown' = TallyFields(breakdown, record.ignored)
    BY <1>1, EndEffect DEF Finishing
  <2> QED
    BY <1>0, <1>1, <2>1 DEF TallyFields, IsBreakdown
<1>2. CASE ~Finishing
  <2>1. \A label, w, n : TallyBlocks(breakdown, label, w, n).fields = breakdown.fields
    BY DEF TallyBlocks
  <2>2. \A label, category : TallyRecord(breakdown, label, category).fields = breakdown.fields
    BY <1>0 DEF TallyRecord, IsBreakdown
  <2>3. ASSUME NEW l \in FileLines, SkipLine(l) \/ Raise(l) \/ ReadRecord(l)
        PROVE  breakdown'.fields = breakdown.fields
    <3>1. SkipLine(l) \/ Raise(l) =>
             breakdown' = breakdown \/ \E label, c : breakdown' = TallyRecord(breakdown, label, c)
      BY DEF SkipLine, Raise, MalformedLine, NonObjectLine, UnsupportedType, NoMessage,
         UnsupportedRole, UnhashableType, UnhashableRole, CountUnsupportedRecord
    <3>2. ReadRecord(l) =>
             breakdown' = breakdown \/ \E label, w, n : breakdown' = TallyBlocks(breakdown, label, w, n)
      <4> PICK w : w = (l.content = "other")
        OBVIOUS
      <4> QED
        BY DEF ReadRecord
    <3> QED
      BY <2>1, <2>2, <2>3, <3>1, <3>2
  <2>4. CASE NextBlock
    <3>1. breakdown' = breakdown \/ \E label, w, n : breakdown' = TallyBlocks(breakdown, label, w, n)
      BY <2>4 DEF NextBlock, TextBlock, ToolUseBlock, ToolResultBlock, MisplacedToolBlock,
         MalformedBlock, UnknownBlock, CountUnsupportedBlock, CountDroppedItems
    <3> QED
      BY <1>2, <2>1, <3>1
  <2>5. CASE AttachResult \/ OrphanResult \/ EndOfFile \/ UNCHANGED vars
    BY <1>2, <2>5, ResultEffect, EndOfFileEffect DEF vars
  <2> QED
    BY <1>2, <2>3, <2>4, <2>5 DEF AnyNext, Finishing
<1> QED
  BY <1>1, <1>2

\* The list of fields, against the file; a field that is not in it was not ignored.
Ignoring(f) == {n \in Turns : f \in log[n].ignored}

FieldsOK ==
    /\ DOMAIN breakdown.fields \subseteq Fields
    /\ \A f \in Fields :
          Cardinality(Ignoring(f)) = IF f \in DOMAIN breakdown.fields THEN breakdown.fields[f] ELSE 0

\* The list of ignored fields grows by those of a record when it ends.
LEMMA FieldsStep ==
    ASSUME TypeInv, CorrelationInv, FieldsOK, [AnyNext]_vars
    PROVE  FieldsOK'
<1>0. /\ IsFiniteSet(Turns) /\ IsTally(breakdown.fields)
      /\ line_number \in Nat
  BY TurnsStep, StepFields DEF TypeInv, TypeOK, IsBreakdown
<1>1. CASE ~Finishing
  <2>1. breakdown'.fields = breakdown.fields
    BY <1>1, FieldsTallied
  <2>2. Turns' = Turns /\ \A n \in Turns' : log'[n] = log[n]
    BY <1>1, TurnsStep
  <2>3. ASSUME NEW f PROVE Ignoring(f)' = Ignoring(f)
    BY <2>2 DEF Ignoring
  <2> QED
    BY <2>1, <2>3 DEF FieldsOK
<1>2. CASE Finishing
  <2> PICK old : old = breakdown.fields
    OBVIOUS
  <2> PICK lost : lost = record.ignored
    OBVIOUS
  <2>1. breakdown'.fields = Tally(old, lost, 1) /\ lost \subseteq Fields
    <3>1. record \in FileLines
      BY <1>2, EndEffect, RecordFields DEF Finishing
    <3> QED
      BY <1>2, <3>1, FieldsTallied DEF FileLines, Line
  <2>2. /\ Turns' = Turns \cup {line_number} /\ line_number \notin Turns
        /\ \A n \in Turns : log'[n] = log[n]
        /\ log'[line_number] = record
    BY <1>2, TurnsStep DEF record
  <2>3. /\ DOMAIN old \subseteq Fields /\ \A k \in DOMAIN old : old[k] \in Nat
        /\ \A f \in Fields : Cardinality(Ignoring(f)) = IF f \in DOMAIN old THEN old[f] ELSE 0
    BY <1>0 DEF FieldsOK, IsTally
  <2>4. ASSUME NEW f \in Fields
        PROVE  Cardinality(Ignoring(f)') = Cardinality(Ignoring(f)) + (IF f \in lost THEN 1 ELSE 0)
    <3> PICK S : S = Ignoring(f)
      OBVIOUS
    <3> PICK T : T = Ignoring(f)'
      OBVIOUS
    <3>1. IsFiniteSet(S) /\ line_number \notin S
      BY <1>0, <2>2, FS_Subset DEF Ignoring
    <3>2. Cardinality(S) \in Nat
      BY <3>1, FS_CardinalityType
    <3>3. CASE f \in lost
      <4>1. T = S \cup {line_number}
        BY <2>2, <3>3 DEF Ignoring
      <4> QED
        BY <3>1, <3>3, <4>1, OneMore
    <3>4. CASE f \notin lost
      <4>1. T = S
        BY <2>2, <3>4 DEF Ignoring
      <4> QED
        BY <3>2, <3>4, <4>1
    <3> QED
      BY <3>3, <3>4
  <2>5. PICK t : t = Tally(old, lost, 1)
    OBVIOUS
  <2>6. DOMAIN t = DOMAIN old \cup lost
    BY <2>5 DEF Tally
  <2>7. ASSUME NEW f \in Fields
        PROVE  Cardinality(Ignoring(f)') = IF f \in DOMAIN t THEN t[f] ELSE 0
    <3>1. CASE f \in DOMAIN t
      <4>1. t[f] = (IF f \in DOMAIN old THEN old[f] ELSE 0) + (IF f \in lost THEN 1 ELSE 0)
        BY <2>5, <2>6, <3>1 DEF Tally
      <4> QED
        BY <2>3, <2>4, <3>1, <4>1
    <3>2. CASE f \notin DOMAIN t
      BY <2>3, <2>4, <2>6, <3>2
    <3> QED
      BY <3>1, <3>2
  <2> QED
    BY <2>1, <2>3, <2>5, <2>6, <2>7 DEF FieldsOK
<1> QED
  BY <1>1, <1>2

\* A delivered result's time is lost if its record had one.
TimedPlaces == {p \in Placed : log[At(p).line].timestamp = "valid"}

\* The turns whose time is unusable, the one being read with them.
Untimed == {n \in 1 .. line_number : Converted(n) /\ log[n].timestamp = "invalid"}

TimesOK ==
    /\ fidelity["omitted_tool_result_timestamps"] = Cardinality(TimedPlaces)
    /\ fidelity["invalid_source_timestamps"] = Cardinality(Untimed)

\* What the actions do to the two counters of times.
LEMMA TimeCounters ==
    ASSUME TypeInv, [AnyNext]_vars
    PROVE  LET o == "omitted_tool_result_timestamps"
               i == "invalid_source_timestamps"
               judged == \E l \in FileLines : ReadRecord(l) /\ l.timestamp = "invalid"
           IN
           /\ fidelity[o] \in Nat /\ fidelity[i] \in Nat
           /\ fidelity'[o] = fidelity[o]
                             + (IF AttachResult /\ record.timestamp = "valid" THEN 1 ELSE 0)
           /\ fidelity'[i] = fidelity[i] + (IF judged THEN 1 ELSE 0)
<1> DEFINE o == "omitted_tool_result_timestamps"
           i == "invalid_source_timestamps"
           judged == \E l \in FileLines : ReadRecord(l) /\ l.timestamp = "invalid"
           moved == AttachResult /\ record.timestamp = "valid"
<1>0. /\ fidelity \in [Counters -> Nat] /\ {o, i} \subseteq Counters
      /\ fidelity[o] \in Nat /\ fidelity[i] \in Nat
  BY DEF TypeInv, TypeOK, Counters
<1> SUFFICES /\ fidelity'[o] = fidelity[o] + (IF moved THEN 1 ELSE 0)
             /\ fidelity'[i] = fidelity[i] + (IF judged THEN 1 ELSE 0)
  BY <1>0
<1>1. ASSUME pc = "record" PROVE ~judged
  BY <1>1 DEF ReadRecord
<1>2. ASSUME NEW l \in FileLines, ReadRecord(l)
      PROVE  ~moved /\ (judged <=> l.timestamp = "invalid")
  <2>1. pc = "reading" /\ log' = Append(log, l) /\ log \in Seq(FileLines)
    BY <1>2 DEF ReadRecord, TypeInv, TypeOK
  <2>2. ~moved
    BY <2>1 DEF AttachResult, TreatResult, BlocksParsed
  <2>3. ASSUME NEW k \in FileLines, ReadRecord(k) PROVE k = l
    <3>1. log' = Append(log, k)
      BY <2>3 DEF ReadRecord
    <3> QED
      BY <1>2, <2>1, <3>1, FileGrows
  <2> QED
    BY <1>2, <2>2, <2>3
<1>3. ASSUME NEW S, fidelity' = Count(fidelity, S), o \in S <=> moved, i \in S <=> judged
      PROVE  /\ fidelity'[o] = fidelity[o] + (IF moved THEN 1 ELSE 0)
             /\ fidelity'[i] = fidelity[i] + (IF judged THEN 1 ELSE 0)
  BY <1>0, <1>3, CountEffect
<1>4. ASSUME ~moved, ~judged,
             \/ fidelity' = fidelity
             \/ \E S : fidelity' = Count(fidelity, S) /\ S \cap {o, i} = {}
             \/ \E n : fidelity' = CountMany(fidelity, "unsupported_source_blocks", n)
      PROVE  /\ fidelity'[o] = fidelity[o] + (IF moved THEN 1 ELSE 0)
             /\ fidelity'[i] = fidelity[i] + (IF judged THEN 1 ELSE 0)
  BY <1>0, <1>4, CountEffect DEF CountMany
<1>5. ASSUME NEW l \in FileLines, ReadRecord(l)
      PROVE  /\ fidelity'[o] = fidelity[o] + (IF moved THEN 1 ELSE 0)
             /\ fidelity'[i] = fidelity[i] + (IF judged THEN 1 ELSE 0)
  <2>1. fidelity' = Count(fidelity, TimestampCounters(l) \cup ContentCounters(l))
    BY <1>5 DEF ReadRecord
  <2>2. /\ o \notin TimestampCounters(l) \cup ContentCounters(l)
        /\ i \in TimestampCounters(l) \cup ContentCounters(l) <=> l.timestamp = "invalid"
    BY DEF TimestampCounters, ContentCounters
  <2> QED
    BY <1>2, <1>3, <1>5, <2>1, <2>2
<1>6. CASE AttachResult
  <2> PICK S : S = {"observation_results_preserved"} \cup {c \in {o} : record.timestamp = "valid"}
    OBVIOUS
  <2>1. fidelity' = Count(fidelity, S)
    BY <1>6 DEF AttachResult
  <2>2. (o \in S <=> moved) /\ i \notin S
    BY <1>6
  <2>3. ~judged
    BY <1>1, <1>6 DEF AttachResult, TreatResult, BlocksParsed
  <2> QED
    BY <1>3, <2>1, <2>2, <2>3
<1>7. CASE ~AttachResult /\ ~(\E l \in FileLines : ReadRecord(l))
  <2>0. ~moved /\ ~judged
    BY <1>7
  <2>1. ASSUME NEW x \in FileLines, SkipLine(x) \/ Raise(x)
        PROVE  fidelity' = fidelity \/ fidelity' = Count(fidelity, {"unsupported_source_records"})
    BY <2>1 DEF SkipLine, Raise, MalformedLine, NonObjectLine, UnsupportedType, NoMessage,
         UnsupportedRole, UnhashableType, UnhashableRole, CountUnsupportedRecord
  <2>2. CASE NextBlock
    <3>1. \/ fidelity' = fidelity
          \/ fidelity' = Count(fidelity, {"tool_calls_preserved"})
          \/ fidelity' = Count(fidelity, {"unsupported_source_blocks"})
          \/ \E n : fidelity' = CountMany(fidelity, "unsupported_source_blocks", n)
      BY <2>2 DEF NextBlock, TextBlock, ToolUseBlock, ToolResultBlock, MisplacedToolBlock,
         MalformedBlock, UnknownBlock, CountUnsupportedBlock, CountDroppedItems
    <3> QED
      BY <1>4, <2>0, <3>1
  <2>3. CASE OrphanResult
    <3>1. fidelity' = Count(fidelity, {"orphaned_tool_results"})
      BY <2>3 DEF OrphanResult
    <3> QED
      BY <1>4, <2>0, <3>1
  <2>4. CASE ConvertAssistant \/ ConvertUserOrSystem
    <3>1. PICK S : EndRecord(S) /\ S \cap {o, i} = {}
      BY <2>4 DEF ConvertAssistant, ConvertUserOrSystem, UsageCounters
    <3>2. \E T : fidelity' = Count(fidelity, T) /\ T \cap {o, i} = {}
      BY <3>1 DEF EndRecord
    <3> QED
      BY <1>4, <2>0, <3>2
  <2>5. CASE EndOfFile \/ UNCHANGED vars
    <3>1. fidelity' = fidelity
      BY <2>5, EndOfFileEffect DEF vars
    <3> QED
      BY <1>4, <2>0, <3>1
  <2>6. CASE \E x \in FileLines : SkipLine(x) \/ Raise(x)
    <3>1. fidelity' = fidelity \/ fidelity' = Count(fidelity, {"unsupported_source_records"})
      BY <2>1, <2>6
    <3> QED
      BY <1>4, <2>0, <3>1
  <2> QED
    BY <1>7, <2>2, <2>3, <2>4, <2>5, <2>6 DEF AnyNext
<1> QED
  BY <1>5, <1>6, <1>7

\* The counters of times grow with what is placed and what is read.
LEMMA TimesStep ==
    ASSUME TypeInv, CorrelationInv, TrafficInv, DeliveryInv, TimesOK, [AnyNext]_vars
    PROVE  TimesOK'
<1> DEFINE o == "omitted_tool_result_timestamps"
           i == "invalid_source_timestamps"
<1>0. /\ line_number \in Nat /\ fidelity[o] \in Nat /\ fidelity[i] \in Nat
      /\ IsFiniteSet(Placed) /\ IsFiniteSet(TimedPlaces)
  BY StepFields, TimeCounters, FS_Subset DEF TrafficInv, TimedPlaces
<1>1. ASSUME NEW p \in Placed
      PROVE  At(p).line \in 1 .. line_number /\ log'[At(p).line] = log[At(p).line]
  <2>1. <<At(p).line, At(p).item>> \in Arrived
    BY <1>1 DEF DeliveryInv, FromFile
  <2>2. At(p).line \in 1 .. line_number
    BY <2>1, ArrivedParsed DEF Parsed, ParsedAt
  <2> QED
    BY <2>2, ParsedStep
<1>2. fidelity'[o] = Cardinality(TimedPlaces')
  <2>1. CASE AttachResult
    <3> PICK s : s = tool_call_steps[NextResult.source_call_id]
      OBVIOUS
    <3> PICK n : n = Len(steps[s].observation) + 1
      OBVIOUS
    <3> PICK new : new = NextResult
      OBVIOUS
    <3>1. /\ Placed' = Placed \cup {<<s, n>>} /\ <<s, n>> \notin Placed
          /\ \A p \in Placed : At(p)' = At(p)
          /\ At(<<s, n>>)' = new
      BY <2>1, AttachPlaces
    <3>2. log' = log /\ new.line = line_number
      BY <2>1, ResultEffect
    <3>3. /\ \A p \in Placed : p \in TimedPlaces' <=> p \in TimedPlaces
          /\ <<s, n>> \in TimedPlaces' <=> record.timestamp = "valid"
          /\ TimedPlaces \subseteq Placed /\ TimedPlaces' \subseteq Placed'
      BY <3>1, <3>2 DEF TimedPlaces, record
    <3> PICK T : T = TimedPlaces'
      OBVIOUS
    <3>4. CASE record.timestamp = "valid"
      <4>1. T = TimedPlaces \cup {<<s, n>>} /\ <<s, n>> \notin TimedPlaces
        BY <3>1, <3>3, <3>4
      <4>2. Cardinality(T) = Cardinality(TimedPlaces) + 1
        BY <1>0, <4>1, OneMore
      <4> QED
        BY <2>1, <3>4, <4>2, TimeCounters DEF TimesOK
    <3>5. CASE record.timestamp # "valid"
      <4>1. T = TimedPlaces
        BY <3>1, <3>3, <3>5
      <4> QED
        BY <1>0, <2>1, <3>5, <4>1, TimeCounters DEF TimesOK
    <3> QED
      BY <3>4, <3>5
  <2>2. CASE ~AttachResult
    <3>1. Placed' = Placed /\ \A p \in Placed : At(p)' = At(p)
      BY <2>2, PlacedKept
    <3>2. TimedPlaces' = TimedPlaces
      BY <1>1, <3>1 DEF TimedPlaces
    <3> QED
      BY <1>0, <2>2, <3>2, TimeCounters DEF TimesOK
  <2> QED
    BY <2>1, <2>2
<1>3. fidelity'[i] = Cardinality(Untimed')
  <2> PICK next : next = line_number + 1
    OBVIOUS
  <2> PICK T : T = Untimed'
    OBVIOUS
  <2>0. IsFiniteSet(Untimed) /\ next \notin Untimed
    <3>1. IsFiniteSet(1 .. line_number)
      BY <1>0, FS_Interval
    <3> QED
      BY <1>0, <3>1, FS_Subset DEF Untimed
  <2>1. ASSUME NEW l \in FileLines, SkipLine(l) \/ Raise(l) \/ ReadRecord(l)
        PROVE  T = Untimed \cup {n \in {next} : ReadRecord(l) /\ l.timestamp = "invalid"}
    <3>1. /\ log' = Append(log, l)
          /\ ~ReadRecord(l) => ~Converted(line_number)'
          /\ ReadRecord(l) => Converted(line_number)'
      BY <2>1, SkipEffect, ReadEffect
    <3>2. /\ line_number' = next /\ log'[next] = l
          /\ \A n \in 1 .. line_number : log'[n] = log[n] /\ (Converted(n)' <=> Converted(n))
      BY <3>1, FileGrows
    <3>3. Converted(next)' <=> ReadRecord(l)
      BY <3>1, <3>2 DEF Converted, Supported
    <3>4. 1 .. next = (1 .. line_number) \cup {next} /\ next \notin 1 .. line_number
      BY <1>0
    <3> QED
      BY <3>2, <3>3, <3>4 DEF Untimed
  <2>2. CASE \E l \in FileLines : ReadRecord(l) /\ l.timestamp = "invalid"
    <3>1. T = Untimed \cup {next}
      BY <2>1, <2>2
    <3>2. Cardinality(T) = Cardinality(Untimed) + 1
      BY <2>0, <3>1, OneMore
    <3> QED
      BY <2>2, <3>2, TimeCounters DEF TimesOK
  <2>3. CASE ~(\E l \in FileLines : ReadRecord(l) /\ l.timestamp = "invalid")
    <3>1. T = Untimed
      <4>1. CASE \E l \in FileLines : SkipLine(l) \/ Raise(l) \/ ReadRecord(l)
        BY <2>1, <2>3, <4>1
      <4>2. CASE \/ NextBlock \/ AttachResult \/ OrphanResult \/ Finishing
                 \/ EndOfFile \/ UNCHANGED vars
        <5>1. log' = log
          BY <4>2, BlockEffect, ResultEffect, EndEffect, EndOfFileEffect DEF vars, Finishing
        <5> QED
          BY <5>1 DEF Untimed, line_number, Converted, Supported
      <4> QED
        BY <4>1, <4>2 DEF AnyNext, Finishing
    <3> QED
      BY <1>0, <2>3, <3>1, TimeCounters DEF TimesOK
  <2> QED
    BY <2>2, <2>3
<1> QED
  BY <1>2, <1>3 DEF TimesOK

\* Empty lists and zero counters agree with an empty file.
LEMMA LossesInit == Init => ListsOK /\ FieldsOK /\ TimesOK
<1> SUFFICES ASSUME Init PROVE ListsOK /\ FieldsOK /\ TimesOK
  OBVIOUS
<1>1. /\ breakdown.records = <<>> /\ breakdown.blocks = <<>>
      /\ breakdown.with_content = <<>> /\ breakdown.fields = <<>>
      /\ \A c \in Counters : fidelity[c] = 0
  BY DEF Init, EmptyBreakdown, ZeroCounters
<1>2. /\ Cells(breakdown.records) = {} /\ Cells(breakdown.blocks) = {}
      /\ DOMAIN breakdown.blocks = {} /\ DOMAIN breakdown.with_content = {}
      /\ DOMAIN breakdown.fields = {}
  <2>1. DOMAIN <<>> = {}
    OBVIOUS
  <2> QED
    BY <1>1, <2>1 DEF Cells
<1>3. ListsOK
  BY <1>1, <1>2, FS_EmptySet DEF ListsOK, Counters
<1>4. Turns = {} /\ TimedPlaces = {} /\ Untimed = {}
  BY DEF Init, Turns, Finished, line_number, TimedPlaces, Placed, Untimed
<1>5. \A f : Ignoring(f) = {}
  BY <1>4 DEF Ignoring
<1>6. FieldsOK
  BY <1>2, <1>5, FS_EmptySet DEF FieldsOK
<1>7. TimesOK
  BY <1>1, <1>4, FS_EmptySet DEF TimesOK, Counters
<1> QED
  BY <1>3, <1>6, <1>7

\* What the report says was lost, in its lists and in its counters of times, is what the
\* file has and the trajectory has not: the lists sum to the totals, and every total is
\* the number of lines or places that lost something.
THEOREM LossesReported == Spec => []LossesAccounted
<1>1. TypeInv /\ CorrelationInv /\ TrafficInv /\ DeliveryInv /\ [AnyNext]_vars
      /\ ListsOK /\ FieldsOK /\ TimesOK => (ListsOK /\ FieldsOK /\ TimesOK)'
  BY ListsStep, FieldsStep, TimesStep
<1>2. ListsOK /\ FieldsOK /\ TimesOK => LossesAccounted
  <2>1. ASSUME ListsOK, FieldsOK PROVE BreakdownExplainsTotals
    BY <2>1 DEF ListsOK, FieldsOK, Ignoring, Turns, BreakdownExplainsTotals
  <2>2. ASSUME TimesOK PROVE TimestampsAccounted
    BY <2>2 DEF TimesOK, TimedPlaces, Untimed, TimestampsAccounted
  <2> QED
    BY <2>1, <2>2 DEF LossesAccounted
<1> QED
  BY <1>1, <1>2, LossesInit, TypeInvariance, CorrelationInvariance, AccountingInvariance, AnyFile, PTL

-----------------------------------------------------------------------------
(***************************************************************************)
(* The trajectory follows the file: its session metadata are the first     *)
(* that the file has, its steps are the turns of the file in their order,  *)
(* and of the usages that a response repeats one is charged, the first,    *)
(* and the others are reported.  All three rest on the first of a set of   *)
(* lines being stable: the file only grows, at its end.                    *)
(***************************************************************************)

(***************************************************************************)
(* The first of a set of lines.                                            *)
(***************************************************************************)

\* Every set of naturals that is not empty has a first element.
LEMMA FirstOf ==
    ASSUME NEW T \in SUBSET Nat, T # {}
    PROVE  Min(T) \in T /\ \A k \in T : Min(T) <= k
<1>1. PICK m \in T : \A k \in T : ~(<<k, m>> \in OpToRel(<, Nat))
  BY NatLessThanWellFounded, WFMin
<1>2. \A k \in T : <<k, m>> \in Nat \X Nat
  OBVIOUS
<1>3. \A k \in T : k < m => <<k, m>> \in OpToRel(<, Nat)
  BY <1>2 DEF OpToRel
<1>4. \A k \in T : ~(k < m)
  BY <1>1, <1>3
<1>5. \A k \in T : m <= k
  BY <1>4
<1> QED
  BY <1>5 DEF Min

\* A line at the end is the first of a set only if it is alone in it.
LEMMA FirstKept ==
    ASSUME NEW T \in SUBSET Nat, NEW n \in Nat, \A k \in T : k < n, NEW U, U = T \cup {n}
    PROVE  Min(U) = IF T = {} THEN n ELSE Min(T)
<1>1. U \in SUBSET Nat /\ U # {}
  OBVIOUS
<1> PICK u : u = Min(U)
  OBVIOUS
<1> PICK t : t = Min(T)
  OBVIOUS
<1>2. u \in U /\ \A k \in U : u <= k
  BY <1>1, FirstOf
<1>3. CASE T = {}
  BY <1>2, <1>3
<1>4. CASE T # {}
  <2>1. t \in T /\ \A k \in T : t <= k
    BY <1>4, FirstOf
  <2>2. t \in Nat /\ u \in Nat /\ u <= t /\ t < n
    BY <1>1, <1>2, <2>1
  <2>3. u \in T
    BY <1>2, <2>2
  <2>4. t <= u
    BY <2>1, <2>3
  <2>5. u = t
    BY <2>2, <2>4
  <2> QED
    BY <1>4, <2>5
<1> QED
  BY <1>3, <1>4

-----------------------------------------------------------------------------
(***************************************************************************)
(* The session metadata.                                                   *)
(***************************************************************************)

\* The lines that carry a value of a session's metadata.
Carriers(f) == {n \in 1 .. line_number : Supported(n) /\ log[n].meta[f] # NoMeta}

\* Metadata are only taken from the line that is read, and only of a supported type.
LEMMA MetaStep ==
    ASSUME TypeInv, CorrelationInv, [AnyNext]_vars
    PROVE  \/ log' = log /\ meta' = meta
           \/ \E l \in FileLines :
                 /\ log' = Append(log, l)
                 /\ meta' = IF l.shape = "object" /\ l.type \in SupportedTypes THEN FirstWins(l)
                            ELSE meta
<1>1. ASSUME NEW l \in FileLines, SkipLine(l) \/ Raise(l) \/ ReadRecord(l)
      PROVE  /\ log' = Append(log, l)
             /\ meta' = IF l.shape = "object" /\ l.type \in SupportedTypes THEN FirstWins(l)
                        ELSE meta
  BY <1>1 DEF SkipLine, Raise, MalformedLine, NonObjectLine, UnsupportedType, NoMessage,
     UnsupportedRole, UnhashableType, UnhashableRole, SupportedRecord, ReadLine, ReadRecord,
     SupportedTypes
<1>2. ASSUME NextBlock \/ AttachResult \/ OrphanResult \/ EndOfFile \/ UNCHANGED vars
      PROVE  log' = log /\ meta' = meta
  BY <1>2 DEF NextBlock, TextBlock, ToolUseBlock, ToolResultBlock, MisplacedToolBlock,
     MalformedBlock, UnknownBlock, ParseBlock, AttachResult, OrphanResult, TreatResult,
     EndOfFile, vars
<1>3. ASSUME ConvertAssistant \/ ConvertUserOrSystem
      PROVE  log' = log /\ meta' = meta
  BY <1>3 DEF ConvertAssistant, ConvertUserOrSystem, EndRecord
<1> QED
  BY <1>1, <1>2, <1>3 DEF AnyNext

\* The metadata stay those of the first record that has them.
LEMMA SessionStep ==
    ASSUME TypeInv, CorrelationInv, SessionIsFirst, [AnyNext]_vars
    PROVE  SessionIsFirst'
<1>0. line_number \in Nat
  BY StepFields
<1>1. CASE log' = log /\ meta' = meta
  BY <1>1 DEF SessionIsFirst, line_number, Supported
<1>2. ASSUME NEW l \in FileLines, log' = Append(log, l),
             meta' = IF l.shape = "object" /\ l.type \in SupportedTypes THEN FirstWins(l) ELSE meta
      PROVE  SessionIsFirst'
  <2> SUFFICES ASSUME NEW f \in MetaFields
               PROVE  meta'[f] = IF Carriers(f)' = {} THEN NoMeta
                                 ELSE log'[Min(Carriers(f)')].meta[f]
    BY DEF SessionIsFirst, Carriers
  <2> PICK next : next = line_number + 1
    OBVIOUS
  <2> PICK carries \in BOOLEAN :
           carries <=> l.shape = "object" /\ l.type \in SupportedTypes /\ l.meta[f] # NoMeta
    OBVIOUS
  <2> PICK T : T = Carriers(f)
    OBVIOUS
  <2> PICK U : U = Carriers(f)'
    OBVIOUS
  <2>1. /\ line_number' = next /\ log'[next] = l /\ next \in Nat
        /\ \A n \in 1 .. line_number : log'[n] = log[n] /\ (Supported(n)' <=> Supported(n))
    <3>1. /\ line_number' = line_number + 1 /\ log'[line_number + 1] = l
          /\ \A n \in 1 .. line_number : log'[n] = log[n] /\ (Supported(n)' <=> Supported(n))
      BY <1>2, FileGrows
    <3> QED
      BY <1>0, <3>1
  <2>2. /\ T \in SUBSET Nat /\ \A n \in T : n \in 1 .. line_number /\ n < next
    BY <1>0 DEF Carriers
  <2>3. U = T \cup {n \in {next} : carries}
    <3>1. Supported(next)' <=> l.shape = "object" /\ l.type \in SupportedTypes
      BY <2>1 DEF Supported
    <3>2. 1 .. next = (1 .. line_number) \cup {next} /\ next \notin 1 .. line_number
      BY <1>0
    <3> QED
      BY <2>1, <3>1, <3>2 DEF Carriers
  <2>4. meta[f] = IF T = {} THEN NoMeta ELSE log[Min(T)].meta[f]
    BY DEF SessionIsFirst, Carriers
  <2>5. meta'[f] = IF carries /\ meta[f] = NoMeta THEN l.meta[f] ELSE meta[f]
    <3>1. meta \in [MetaFields -> MetaValues \cup {NoMeta}]
      BY DEF TypeInv, TypeOK
    <3> QED
      BY <1>2, <3>1 DEF FirstWins
  <2>6. T # {} => Min(T) \in T /\ log[Min(T)].meta[f] # NoMeta
    <3>1. T # {} => Min(T) \in T
      BY <2>2, FirstOf
    <3> QED
      BY <3>1 DEF Carriers
  <2>7. CASE carries
    <3>1. U = T \cup {next}
      BY <2>3, <2>7
    <3>2. Min(U) = IF T = {} THEN next ELSE Min(T)
      BY <2>1, <2>2, <3>1, FirstKept
    <3>3. meta'[f] = log'[Min(U)].meta[f]
      BY <2>1, <2>2, <2>4, <2>5, <2>6, <2>7, <3>2
    <3> QED
      BY <3>1, <3>3
  <2>8. CASE ~carries
    <3>1. U = T
      BY <2>3, <2>8
    <3> QED
      BY <2>1, <2>2, <2>4, <2>5, <2>6, <2>8, <3>1
  <2> QED
    BY <2>7, <2>8
<1> QED
  BY <1>1, <1>2, MetaStep

\* An empty file has no metadata.
LEMMA SessionInit == Init => SessionIsFirst
BY DEF Init, SessionIsFirst, line_number

-----------------------------------------------------------------------------
(***************************************************************************)
(* The turns.                                                              *)
(***************************************************************************)

\* The blocks before n of the record at hand hold a text; hold a result.
TextBefore(n) ==
    \/ record.content = "string" /\ record.text
    \/ \E b \in DOMAIN record.blocks :
          /\ b < n
          /\ record.blocks[b].kind = "text" /\ record.blocks[b].valid /\ record.blocks[b].payload

ResultBefore(n) ==
    /\ record.role = "user"
    /\ \E b \in DOMAIN record.blocks : b < n /\ record.blocks[b].kind = "tool_result"

\* What the record's blocks parsed so far have left behind.
RecordRead ==
    pc = "record" => /\ content = TextBefore(at)
                     /\ (tool_results # <<>>) = ResultBefore(at)

\* Parsing a block settles the text and the results up to the next.
LEMMA RecordReadStep ==
    ASSUME TypeInv, CorrelationInv, RecordRead, [AnyNext]_vars
    PROVE  RecordRead'
<1>1. ASSUME NEW l \in FileLines, ReadRecord(l) PROVE RecordRead'
  <2>1. record' = l /\ at' = 1 /\ tool_results' = <<>>
    BY <1>1, ReadEffect
  <2>2. content' = (l.content = "string" /\ l.text)
    BY <1>1 DEF ReadRecord
  <2>3. \A b \in DOMAIN l.blocks : ~(b < 1)
    BY LineFields
  <2>4. TextBefore(at)' = (l.content = "string" /\ l.text) /\ ResultBefore(at)' = FALSE
    BY <2>1, <2>3 DEF TextBefore, ResultBefore
  <2> QED
    BY <2>1, <2>2, <2>4 DEF RecordRead
<1>2. CASE NextBlock
  <2>1. /\ pc = "record" /\ log' = log /\ at \in 1 .. MaxBlocks /\ at <= Len(record.blocks)
        /\ at' = at + 1 /\ tool_results \in Seq(Result)
    BY <1>2, BlockEffect DEF TypeInv, TypeOK
  <2>2. record' = record /\ block' = record.blocks[at'] /\ at \in DOMAIN record.blocks
        /\ DOMAIN record.blocks \subseteq Nat
    <3>1. record.blocks \in Seq(Block)
      BY <2>1, RecordFields, LineFields
    <3> QED
      BY <2>1, <3>1 DEF record, line_number, block
  <2>3. \A b \in DOMAIN record.blocks : b < at + 1 <=> b < at \/ b = at
    BY <2>1, <2>2
  <2>4. block = record.blocks[at]
    BY DEF block
  <2>5. /\ TextBefore(at)' = (TextBefore(at) \/ (block.kind = "text" /\ block.valid /\ block.payload))
        /\ ResultBefore(at)' = (ResultBefore(at) \/ (record.role = "user" /\ block.kind = "tool_result"))
    BY <2>1, <2>2, <2>3, <2>4 DEF TextBefore, ResultBefore
  <2>6. content' = (content \/ (block.kind = "text" /\ block.valid /\ block.payload))
    <3>1. content \in BOOLEAN
      BY DEF TypeInv, TypeOK
    <3> QED
      BY <1>2, <3>1 DEF NextBlock, TextBlock, ToolUseBlock, ToolResultBlock, MisplacedToolBlock,
         MalformedBlock, UnknownBlock, CountUnsupportedBlock
  <2>7. (tool_results' # <<>>) =
            (tool_results # <<>> \/ (record.role = "user" /\ block.kind = "tool_result"))
    BY <1>2, <2>1, BlockEffect
  <2> QED
    BY <2>1, <2>5, <2>6, <2>7 DEF RecordRead
<1>3. CASE AttachResult \/ OrphanResult
  <2>1. pc = "record" /\ UNCHANGED <<pc, log, at, content, tool_results>>
    BY <1>3, ResultEffect
  <2> QED
    BY <2>1 DEF RecordRead, TextBefore, ResultBefore, record, line_number
<1>4. ASSUME NEW l \in FileLines, SkipLine(l) \/ Raise(l) PROVE RecordRead'
  BY <1>4, SkipEffect DEF RecordRead
<1>5. CASE Finishing
  BY <1>5, EndEffect DEF RecordRead, Finishing
<1>6. CASE EndOfFile
  BY <1>6, EndOfFileEffect DEF RecordRead
<1>7. CASE UNCHANGED vars
  BY <1>7 DEF vars, local, RecordRead, TextBefore, ResultBefore, record, line_number
<1> QED
  BY <1>1, <1>2, <1>3, <1>4, <1>5, <1>6, <1>7 DEF AnyNext, Finishing

\* When the blocks are parsed, what they left behind is what the file has.
LEMMA RecordIsRead ==
    ASSUME TypeInv, CorrelationInv, RecordRead, Finishing
    PROVE  /\ content = HasText(line_number)
           /\ OnlyResults(line_number) <=> ConvertUserOrSystem /\ ~OwnStep
<1>1. /\ pc = "record" /\ at > Len(record.blocks) /\ at \in Nat
      /\ content \in BOOLEAN
  <2>1. at \in Nat /\ content \in BOOLEAN
    BY BoundAssumption DEF TypeInv, TypeOK
  <2>2. pc = "record" /\ at > Len(record.blocks)
    BY EndEffect DEF Finishing
  <2> QED
    BY <2>1, <2>2
<1>2. \A b \in DOMAIN record.blocks : b < at
  <2>1. record.blocks \in Seq(Block)
    BY <1>1, RecordFields, LineFields
  <2> QED
    BY <1>1, <2>1
<1>3. record = log[line_number]
  BY DEF record
<1>4. content = HasText(line_number)
  BY <1>1, <1>2, <1>3 DEF RecordRead, TextBefore, HasText
<1>5. (tool_results # <<>>) = (record.role = "user"
          /\ \E b \in DOMAIN record.blocks : record.blocks[b].kind = "tool_result")
  BY <1>1, <1>2 DEF RecordRead, ResultBefore
<1>6. OnlyResults(line_number) <=> ~content /\ tool_results # <<>>
  BY <1>3, <1>4, <1>5 DEF OnlyResults
<1>7. record.role = "assistant" => tool_results = <<>>
  BY <1>5
<1>8. ConvertUserOrSystem <=> record.role # "assistant"
  BY DEF Finishing, ConvertAssistant, ConvertUserOrSystem
<1> QED
  BY <1>4, <1>6, <1>7, <1>8 DEF OwnStep

-----------------------------------------------------------------------------
\* What the step of a turn says of it.
StepOf(s, n) ==
    /\ s.source = (IF log[n].role = "assistant" THEN "agent" ELSE log[n].role)
    /\ s.message = HasText(n)
    /\ s.timestamp = (log[n].timestamp = "valid")

\* A step of the trajectory keeps all but its results, and at the end of a record one
\* of its own is added, unless it held results only.
LEMMA TurnEffect ==
    ASSUME TypeInv, CorrelationInv, RecordRead, [AnyNext]_vars
    PROVE  /\ \A i \in DOMAIN steps :
                 /\ i \in DOMAIN steps'
                 /\ steps'[i].source_line = steps[i].source_line
                 /\ steps'[i].source = steps[i].source
                 /\ steps'[i].message = steps[i].message
                 /\ steps'[i].timestamp = steps[i].timestamp
                 /\ steps'[i].source_message_id = steps[i].source_message_id
                 /\ steps'[i].metrics = steps[i].metrics
           /\ IF Finishing /\ ~OnlyResults(line_number)
                THEN \E n : /\ n = Len(steps) + 1 /\ DOMAIN steps' = DOMAIN steps \cup {n}
                            /\ n \notin DOMAIN steps
                            /\ steps'[n].source_line = line_number
                            /\ StepOf(steps'[n], line_number)
                            /\ steps'[n].source_message_id = (IF ConvertAssistant THEN record.id ELSE NoMessageId)
                            /\ steps'[n].metrics = (IF ConvertAssistant /\ UsageGiven /\ ~UsageStored
                                                    THEN record.usage ELSE NoUsage)
                ELSE DOMAIN steps' = DOMAIN steps
<1> USE DEF Finishing
<1>1. CASE Finishing /\ ~OnlyResults(line_number)
  <2> PICK n : n = Len(steps) + 1
    OBVIOUS
  <2>0. content = HasText(line_number) /\ record = log[line_number]
    BY <1>1, RecordIsRead DEF record
  <2>1. CASE ConvertAssistant
    <3> PICK m : m = IF UsageGiven /\ ~UsageStored THEN record.usage ELSE NoUsage
      OBVIOUS
    <3> PICK s : s = NewStep("agent", record.id, m)
      OBVIOUS
    <3>1. steps' = Append(steps, s) /\ record.role = "assistant"
      BY <2>1 DEF ConvertAssistant
    <3>2. /\ s.source = "agent" /\ s.source_line = line_number /\ s.message = content
          /\ s.timestamp = (record.timestamp = "valid")
          /\ s.source_message_id = record.id /\ s.metrics = m
      BY DEF NewStep
    <3>3. /\ DOMAIN steps' = DOMAIN steps \cup {n} /\ n \notin DOMAIN steps /\ steps'[n] = s
          /\ \A i \in DOMAIN steps : steps'[i] = steps[i]
      BY <3>1, AppendStep, StepFields
    <3>4. StepOf(s, line_number)
      BY <2>0, <3>1, <3>2 DEF StepOf
    <3> QED
      BY <1>1, <2>1, <3>2, <3>3, <3>4
  <2>2. CASE ConvertUserOrSystem
    <3> PICK s : s = NewStep(record.role, NoMessageId, NoUsage)
      OBVIOUS
    <3>1. /\ steps' = Append(steps, s) /\ record.role # "assistant" /\ ~ConvertAssistant
      BY <1>1, <2>2, RecordIsRead DEF ConvertUserOrSystem, ConvertAssistant
    <3>2. /\ s.source = record.role /\ s.source_line = line_number /\ s.message = content
          /\ s.timestamp = (record.timestamp = "valid")
          /\ s.source_message_id = NoMessageId /\ s.metrics = NoUsage
      BY DEF NewStep
    <3>3. /\ DOMAIN steps' = DOMAIN steps \cup {n} /\ n \notin DOMAIN steps /\ steps'[n] = s
          /\ \A i \in DOMAIN steps : steps'[i] = steps[i]
      BY <3>1, AppendStep, StepFields
    <3>4. StepOf(s, line_number)
      BY <2>0, <3>1, <3>2 DEF StepOf
    <3> QED
      BY <1>1, <3>1, <3>2, <3>3, <3>4
  <2> QED
    BY <1>1, <2>1, <2>2
<1>2. CASE Finishing /\ OnlyResults(line_number)
  <2>1. steps' = steps
    BY <1>2, RecordIsRead DEF ConvertUserOrSystem
  <2> QED
    BY <1>2, <2>1
<1>3. CASE ~Finishing
  <2>1. CASE AttachResult
    <3> PICK s : s = tool_call_steps[NextResult.source_call_id]
      OBVIOUS
    <3>1. /\ s \in DOMAIN steps /\ DOMAIN steps' = DOMAIN steps
          /\ \A i \in DOMAIN steps : i # s => steps'[i] = steps[i]
          /\ steps'[s] = [steps[s] EXCEPT !.observation = Append(@, NextResult)]
      BY <2>1, AttachEffect
    <3>2. steps[s] \in Step
      BY <3>1, StepFields
    <3>3. /\ steps'[s].source_line = steps[s].source_line
          /\ steps'[s].source = steps[s].source
          /\ steps'[s].message = steps[s].message
          /\ steps'[s].timestamp = steps[s].timestamp
          /\ steps'[s].source_message_id = steps[s].source_message_id
          /\ steps'[s].metrics = steps[s].metrics
      BY <3>1, <3>2 DEF Step
    <3> QED
      BY <1>3, <3>1, <3>3
  <2>2. CASE steps' = steps
    BY <1>3, <2>2
  <2> QED
    BY <1>3, <2>1, <2>2, PlacesStep
<1> QED
  BY <1>1, <1>2, <1>3

\* The step at i is that of a turn.
TurnAt(i) ==
    /\ steps[i].source_line \in Turns
    /\ ~OnlyResults(steps[i].source_line)
    /\ StepOf(steps[i], steps[i].source_line)

TurnsInv ==
    /\ RecordRead
    /\ \A i, j \in DOMAIN steps : i < j => steps[i].source_line < steps[j].source_line
    /\ \A i \in DOMAIN steps : TurnAt(i)
    /\ \A n \in Turns : OnlyResults(n) \/ \E i \in DOMAIN steps : steps[i].source_line = n

\* The steps and the turns grow together, the steps at their end as the file at its.
LEMMA TurnsInvStep ==
    ASSUME TypeInv, CorrelationInv, TurnsInv, [AnyNext]_vars
    PROVE  TurnsInv'
<1>1. RecordRead'
  BY RecordReadStep DEF TurnsInv
<1>2. /\ Turns' = Turns \cup {n \in {line_number} : Finishing}
      /\ \A n \in Turns' : n \in 1 .. line_number /\ log'[n] = log[n]
  BY TurnsStep
<1>3. \A n \in Turns' : OnlyResults(n)' = OnlyResults(n) /\ \A s : StepOf(s, n)' = StepOf(s, n)
  <2>1. ASSUME NEW n \in Turns' PROVE HasText(n)' = HasText(n) /\ log'[n] = log[n]
    BY <1>2 DEF HasText
  <2>2. ASSUME NEW n \in Turns' PROVE OnlyResults(n)' = OnlyResults(n)
    BY <2>1 DEF OnlyResults
  <2>3. ASSUME NEW n \in Turns', NEW s PROVE StepOf(s, n)' = StepOf(s, n)
    BY <2>1 DEF StepOf
  <2> QED
    BY <2>2, <2>3
<1>4. \A i \in DOMAIN steps :
         /\ i \in DOMAIN steps'
         /\ steps'[i].source_line = steps[i].source_line
         /\ steps'[i].source = steps[i].source
         /\ steps'[i].message = steps[i].message
         /\ steps'[i].timestamp = steps[i].timestamp
  BY TurnEffect DEF TurnsInv
<1>5. ASSUME NEW i, i \in DOMAIN steps', NEW n, n = steps'[i].source_line,
             NEW s, s = steps'[i], n \in Turns', ~OnlyResults(n), StepOf(s, n)
      PROVE  TurnAt(i)'
  BY <1>3, <1>5 DEF TurnAt
<1>6. ASSUME NEW i \in DOMAIN steps PROVE TurnAt(i)'
  <2> PICK n : n = steps[i].source_line
    OBVIOUS
  <2> PICK s : s = steps'[i]
    OBVIOUS
  <2>1. n \in Turns /\ ~OnlyResults(n) /\ StepOf(steps[i], n)
    BY DEF TurnsInv, TurnAt
  <2>2. StepOf(s, n)
    BY <1>4, <2>1 DEF StepOf
  <2> QED
    BY <1>2, <1>4, <1>5, <2>1, <2>2
<1>7. ASSUME NEW n \in Turns
      PROVE  OnlyResults(n)' \/ \E i \in DOMAIN steps : i \in DOMAIN steps' /\ steps'[i].source_line = n
  <2>1. n \in Turns'
    BY <1>2
  <2> QED
    BY <1>3, <1>4, <1>7, <2>1 DEF TurnsInv
<1>8. \A i, j \in DOMAIN steps : i < j => steps'[i].source_line < steps'[j].source_line
  BY <1>4 DEF TurnsInv
<1>9. CASE Finishing /\ ~OnlyResults(line_number)
  <2>1. PICK n : /\ n = Len(steps) + 1 /\ DOMAIN steps' = DOMAIN steps \cup {n}
                 /\ n \notin DOMAIN steps
                 /\ steps'[n].source_line = line_number /\ StepOf(steps'[n], line_number)
    BY <1>9, TurnEffect DEF TurnsInv
  <2>2. \A i \in DOMAIN steps : i < n /\ i \in Nat /\ steps'[i].source_line < line_number
    <3>1. pc = "record"
      BY <1>9, EndEffect DEF Finishing
    <3>2. \A i \in DOMAIN steps : i < n /\ i \in Nat
      BY <2>1, StepFields
    <3> QED
      BY <1>4, <3>1, <3>2 DEF CorrelationInv, LineOrder
  <2>3. \A i, j \in DOMAIN steps' : i < j => steps'[i].source_line < steps'[j].source_line
    <3>1. n \in Nat
      BY <2>1, StepFields
    <3> QED
      BY <1>8, <2>1, <2>2, <3>1
  <2>4. line_number \in Turns'
    BY <1>2, <1>9
  <2>5. TurnAt(n)'
    BY <1>5, <1>9, <2>1, <2>4
  <2>6. \A i \in DOMAIN steps' : TurnAt(i)'
    BY <1>6, <2>1, <2>5
  <2>7. \A m \in Turns' : OnlyResults(m)' \/ \E i \in DOMAIN steps' : steps'[i].source_line = m
    BY <1>2, <1>7, <2>1
  <2> QED
    BY <1>1, <2>3, <2>6, <2>7 DEF TurnsInv
<1>10. CASE ~(Finishing /\ ~OnlyResults(line_number))
  <2>1. DOMAIN steps' = DOMAIN steps
    BY <1>10, TurnEffect DEF TurnsInv
  <2>2. \A m \in Turns' : OnlyResults(m)' \/ \E i \in DOMAIN steps' : steps'[i].source_line = m
    BY <1>2, <1>3, <1>7, <1>10, <2>1
  <2> QED
    BY <1>1, <1>6, <1>8, <2>1, <2>2 DEF TurnsInv
<1> QED
  BY <1>9, <1>10

\* An empty file has no turns.
LEMMA TurnsInvInit == Init => TurnsInv
BY DEF Init, TurnsInv, RecordRead, Turns, Finished, line_number

\* Lines in order tell their steps apart.
LEMMA OneStepPerTurn ==
    ASSUME TypeInv, TurnsInv, NEW i \in DOMAIN steps, NEW j \in DOMAIN steps,
           steps[i].source_line = steps[j].source_line
    PROVE  i = j
<1>1. i \in Nat /\ j \in Nat /\ steps[i].source_line \in Nat
  BY StepFields
<1>2. ~(i < j) /\ ~(j < i)
  BY <1>1 DEF TurnsInv
<1> QED
  BY <1>1, <1>2

\* The invariant says of the whole trajectory what is to be shown.
LEMMA TurnsAreKept ==
    ASSUME TypeInv, TurnsInv
    PROVE  EveryTurnKept
<1>1. ASSUME NEW n \in Finished, ~Converted(n) \/ OnlyResults(n)
      PROVE  {i \in DOMAIN steps : steps[i].source_line = n} = {}
  BY <1>1 DEF TurnsInv, TurnAt, Turns
<1>2. ASSUME NEW n \in Finished, ~(~Converted(n) \/ OnlyResults(n))
      PROVE  \E i \in DOMAIN steps :
                  /\ {k \in DOMAIN steps : steps[k].source_line = n} = {i}
                  /\ steps[i].source = (IF log[n].role = "assistant" THEN "agent" ELSE log[n].role)
                  /\ steps[i].message = HasText(n)
                  /\ steps[i].timestamp = (log[n].timestamp = "valid")
  <2>1. PICK i \in DOMAIN steps : steps[i].source_line = n
    BY <1>2 DEF TurnsInv, Turns
  <2>2. StepOf(steps[i], n)
    BY <2>1 DEF TurnsInv, TurnAt
  <2>3. {k \in DOMAIN steps : steps[k].source_line = n} = {i}
    BY <2>1, OneStepPerTurn
  <2> QED
    BY <2>2, <2>3 DEF StepOf
<1> QED
  BY <1>1, <1>2 DEF EveryTurnKept, TurnsInv

\* Turns and metadata, together.
LEMMA TrajectoryInvariance == Spec => [](TurnsInv /\ SessionIsFirst)
<1>1. TypeInv /\ CorrelationInv /\ TurnsInv /\ SessionIsFirst /\ [AnyNext]_vars
         => (TurnsInv /\ SessionIsFirst)'
  BY TurnsInvStep, SessionStep
<1> QED
  BY <1>1, TurnsInvInit, SessionInit, TypeInvariance, CorrelationInvariance, AnyFile, PTL

\* The trajectory follows the file: the session metadata are the first that the file
\* has, and every converted record has exactly one step, of its role and with its text,
\* in the order of the file, but for a record of tool results and no text.
THEOREM FileIsFollowed == Spec => []TrajectoryFollowsFile
<1>1. TypeInv /\ TurnsInv /\ SessionIsFirst => TrajectoryFollowsFile
  BY TurnsAreKept DEF TrajectoryFollowsFile
<1> QED
  BY <1>1, TypeInvariance, TrajectoryInvariance, PTL

-----------------------------------------------------------------------------
(***************************************************************************)
(* The usage of each response.                                             *)
(***************************************************************************)

\* The record at hand brings a usage of response id; the response's first usage.
Brings(id) == ConvertAssistant /\ UsageGiven /\ record.id = id

First(id) == Min(UsageRecords(id))

\* A response has one usage more by finishing a record that brings it.
LEMMA UsageStep ==
    ASSUME TypeInv, CorrelationInv, [AnyNext]_vars, NEW id
    PROVE  /\ UsageRecords(id) \in SUBSET Nat
           /\ UsageRecords(id)' = UsageRecords(id) \cup {n \in {line_number} : Brings(id)}
           /\ \A n \in UsageRecords(id)' : log'[n] = log[n] /\ log[n].id = id
           /\ Brings(id) => \A n \in UsageRecords(id) : n < line_number
<1>0. line_number \in Nat
  BY StepFields
<1>1. /\ Turns' = Turns \cup {n \in {line_number} : Finishing}
      /\ Finishing => line_number \notin Turns
      /\ \A n \in Turns' : n \in 1 .. line_number /\ log'[n] = log[n]
  BY TurnsStep
<1> DEFINE Has(n) == /\ log[n].role = "assistant" /\ log[n].model = "named"
                     /\ log[n].usage # NoUsage /\ log[n].id = id
<1>2. /\ UsageRecords(id) = {n \in Turns : Has(n)}
      /\ UsageRecords(id)' = {n \in Turns' : Has(n)'}
  BY DEF UsageRecords, Turns
<1>3. \A n \in Turns' : Has(n)' <=> Has(n)
  BY <1>1
<1>4. Finishing => (Has(line_number) <=> Brings(id))
  BY DEF Finishing, Brings, ConvertAssistant, ConvertUserOrSystem, UsageGiven, record
<1>5. Brings(id) => Finishing
  BY DEF Brings, Finishing
<1>6. UsageRecords(id)' = UsageRecords(id) \cup {n \in {line_number} : Brings(id)}
  BY <1>1, <1>2, <1>3, <1>4, <1>5
<1>7. \A n \in Turns : n \in 1 .. line_number
  BY <1>1
<1>8. Brings(id) => \A n \in UsageRecords(id) : n < line_number
  BY <1>0, <1>1, <1>2, <1>5, <1>7
<1>9. \A n \in UsageRecords(id)' : log'[n] = log[n] /\ log[n].id = id
  BY <1>1, <1>2, <1>3
<1> QED
  BY <1>0, <1>2, <1>6, <1>7, <1>8, <1>9

\* The first usage of a response stays the first.
LEMMA FirstStep ==
    ASSUME TypeInv, CorrelationInv, [AnyNext]_vars, NEW id
    PROVE  /\ UsageRecords(id) # {} =>
                 /\ UsageRecords(id)' # {} /\ First(id)' = First(id)
                 /\ First(id) \in UsageRecords(id) /\ log'[First(id)] = log[First(id)]
           /\ UsageRecords(id) = {} =>
                 IF Brings(id)
                   THEN /\ UsageRecords(id)' = {line_number} /\ First(id)' = line_number
                        /\ log'[line_number] = record
                   ELSE UsageRecords(id)' = {}
<1> PICK T : T = UsageRecords(id)
  OBVIOUS
<1> PICK U : U = UsageRecords(id)'
  OBVIOUS
<1>1. /\ T \in SUBSET Nat
      /\ U = T \cup {n \in {line_number} : Brings(id)}
      /\ \A n \in U : log'[n] = log[n]
      /\ Brings(id) => \A n \in T : n < line_number
  BY UsageStep
<1>2. line_number \in Nat
  BY StepFields
<1>3. First(id) = Min(T) /\ First(id)' = Min(U)
  BY DEF First
<1>4. T # {} => Min(T) \in T
  BY <1>1, FirstOf
<1>5. CASE Brings(id)
  <2>1. U = T \cup {line_number}
    BY <1>1, <1>5
  <2>2. Min(U) = IF T = {} THEN line_number ELSE Min(T)
    BY <1>1, <1>2, <1>5, <2>1, FirstKept
  <2> QED
    BY <1>1, <1>3, <1>4, <1>5, <2>1, <2>2 DEF record
<1>6. CASE ~Brings(id)
  <2>1. U = T
    BY <1>1, <1>6
  <2> QED
    BY <1>1, <1>3, <1>4, <1>6, <2>1
<1> QED
  BY <1>5, <1>6

\* usage_by_message holds the first usage of every response that has one.
TableOK ==
    \A id \in MessageIds :
        /\ id \in DOMAIN usage_by_message <=> UsageRecords(id) # {}
        /\ id \in DOMAIN usage_by_message => usage_by_message[id] = log[First(id)].usage

\* The usage table gains the first usable usage of a response, and keeps it.
LEMMA TableStep ==
    ASSUME TypeInv, CorrelationInv, TableOK, [AnyNext]_vars
    PROVE  TableOK'
<1> SUFFICES ASSUME NEW id \in MessageIds
             PROVE  /\ id \in DOMAIN usage_by_message' <=> UsageRecords(id)' # {}
                    /\ id \in DOMAIN usage_by_message' =>
                          usage_by_message'[id] = log'[First(id)'].usage
  BY DEF TableOK
<1>1. /\ id \in DOMAIN usage_by_message <=> UsageRecords(id) # {}
      /\ id \in DOMAIN usage_by_message => usage_by_message[id] = log[First(id)].usage
  BY DEF TableOK
<1>2. id # NoMessageId
  BY SentinelAssumption
<1>3. CASE Brings(id) /\ UsageRecords(id) = {}
  <2>1. ~UsageStored /\ UsageGiven /\ record.id = id
    BY <1>1, <1>3 DEF Brings, UsageStored
  <2>2. usage_by_message' = Extend(usage_by_message, {id}, record.usage)
    BY <1>2, <1>3, <2>1 DEF Brings, ConvertAssistant
  <2>3. id \in DOMAIN usage_by_message' /\ usage_by_message'[id] = record.usage
    BY <2>2 DEF Extend
  <2>4. UsageRecords(id)' # {} /\ log'[First(id)'] = record
    BY <1>3, FirstStep
  <2> QED
    BY <2>3, <2>4
<1>4. CASE ~(Brings(id) /\ UsageRecords(id) = {})
  <2>1. /\ id \in DOMAIN usage_by_message' <=> id \in DOMAIN usage_by_message
        /\ id \in DOMAIN usage_by_message => usage_by_message'[id] = usage_by_message[id]
    <3>1. CASE ConvertAssistant
      <4>1. CASE UsageGiven /\ ~UsageStored /\ record.id # NoMessageId
        <5>1. usage_by_message' = Extend(usage_by_message, {record.id}, record.usage)
          BY <3>1, <4>1 DEF ConvertAssistant
        <5>2. id # record.id
          BY <1>1, <1>4, <3>1, <4>1 DEF Brings, UsageStored
        <5> QED
          BY <5>1, <5>2 DEF Extend
      <4>2. CASE ~(UsageGiven /\ ~UsageStored /\ record.id # NoMessageId)
        <5>1. usage_by_message' = usage_by_message
          BY <3>1, <4>2 DEF ConvertAssistant
        <5> QED
          BY <5>1
      <4> QED
        BY <4>1, <4>2
    <3>2. CASE ~ConvertAssistant
      <4>1. usage_by_message' = usage_by_message
        <5>1. ASSUME NEW l \in FileLines, SkipLine(l) \/ Raise(l) \/ ReadRecord(l)
              PROVE  usage_by_message' = usage_by_message
          BY <5>1, SkipEffect, ReadEffect
        <5>2. ConvertUserOrSystem => usage_by_message' = usage_by_message
          BY DEF ConvertUserOrSystem
        <5> QED
          BY <3>2, <5>1, <5>2, BlockEffect, ResultEffect, EndOfFileEffect
             DEF AnyNext, vars, output
      <4> QED
        BY <4>1
    <3> QED
      BY <3>1, <3>2
  <2>2. CASE UsageRecords(id) # {}
    BY <1>1, <2>1, <2>2, FirstStep
  <2>3. CASE UsageRecords(id) = {}
    BY <1>1, <1>4, <2>1, <2>3, FirstStep
  <2> QED
    BY <2>2, <2>3
<1> QED
  BY <1>3, <1>4

-----------------------------------------------------------------------------
\* The steps that carry metrics of a response.
Charged(id) == {i \in DOMAIN steps : steps[i].source_message_id = id /\ steps[i].metrics # NoUsage}

\* They are the step of its first usage.
ChargedOK ==
    \A id \in MessageIds :
        /\ UsageRecords(id) # {} => Charged(id) # {}
        /\ \A i \in Charged(id) :
              /\ UsageRecords(id) # {}
              /\ steps[i].source_line = First(id)
              /\ steps[i].metrics = log[First(id)].usage

\* Only the record whose usage enters the table gives it to its step.
LEMMA ChargedStep ==
    ASSUME TypeInv, CorrelationInv, TurnsInv, TableOK, ChargedOK, [AnyNext]_vars
    PROVE  ChargedOK'
<1> SUFFICES ASSUME NEW id \in MessageIds
             PROVE  /\ UsageRecords(id)' # {} => Charged(id)' # {}
                    /\ \A i \in Charged(id)' :
                          /\ UsageRecords(id)' # {}
                          /\ steps'[i].source_line = First(id)'
                          /\ steps'[i].metrics = log'[First(id)'].usage
  BY DEF ChargedOK
<1>0. id # NoMessageId
  BY SentinelAssumption
<1>1. /\ UsageRecords(id) # {} => Charged(id) # {}
      /\ \A i \in Charged(id) :
            /\ UsageRecords(id) # {}
            /\ steps[i].source_line = First(id)
            /\ steps[i].metrics = log[First(id)].usage
  BY DEF ChargedOK
<1>2. \A i \in DOMAIN steps :
         /\ i \in DOMAIN steps'
         /\ steps'[i].source_line = steps[i].source_line
         /\ steps'[i].source_message_id = steps[i].source_message_id
         /\ steps'[i].metrics = steps[i].metrics
  BY TurnEffect DEF TurnsInv
<1>3. CASE Brings(id) /\ UsageRecords(id) = {}
  <2>1. ~OnlyResults(line_number) /\ Finishing /\ ConvertAssistant /\ UsageGiven
        /\ ~UsageStored /\ record.id = id /\ record.usage # NoUsage
    <3>1. log[line_number].role = "assistant"
      BY <1>3 DEF Brings, ConvertAssistant, record
    <3> QED
      BY <1>3, <3>1 DEF Brings, OnlyResults, Finishing, TableOK, UsageStored, UsageGiven
  <2>2. PICK n : /\ DOMAIN steps' = DOMAIN steps \cup {n} /\ n \notin DOMAIN steps
                 /\ steps'[n].source_line = line_number
                 /\ steps'[n].source_message_id = record.id /\ steps'[n].metrics = record.usage
    BY <2>1, TurnEffect DEF TurnsInv
  <2>3. Charged(id) = {}
    BY <1>1, <1>3
  <2>4. Charged(id)' = {n}
    BY <1>2, <2>1, <2>2, <2>3 DEF Charged
  <2>5. UsageRecords(id)' # {} /\ First(id)' = line_number /\ log'[line_number] = record
    BY <1>3, FirstStep
  <2> QED
    BY <2>2, <2>4, <2>5
<1>4. CASE ~(Brings(id) /\ UsageRecords(id) = {})
  <2>1. Charged(id)' = Charged(id)
    <3>1. CASE Finishing /\ ~OnlyResults(line_number)
      <4>1. PICK n : /\ DOMAIN steps' = DOMAIN steps \cup {n} /\ n \notin DOMAIN steps
                     /\ steps'[n].source_message_id = (IF ConvertAssistant THEN record.id ELSE NoMessageId)
                     /\ steps'[n].metrics = (IF ConvertAssistant /\ UsageGiven /\ ~UsageStored
                                             THEN record.usage ELSE NoUsage)
        BY <3>1, TurnEffect DEF TurnsInv
      <4>2. ~(steps'[n].source_message_id = id /\ steps'[n].metrics # NoUsage)
        BY <1>0, <1>4, <4>1 DEF Brings, TableOK, UsageStored
      <4> QED
        BY <1>2, <4>1, <4>2 DEF Charged
    <3>2. CASE ~(Finishing /\ ~OnlyResults(line_number))
      <4>1. DOMAIN steps' = DOMAIN steps
        BY <3>2, TurnEffect DEF TurnsInv
      <4> QED
        BY <1>2, <4>1 DEF Charged
    <3> QED
      BY <3>1, <3>2
  <2>2. Charged(id) \subseteq DOMAIN steps
    BY DEF Charged
  <2>3. CASE UsageRecords(id) # {}
    BY <1>1, <1>2, <2>1, <2>2, <2>3, FirstStep
  <2>4. CASE UsageRecords(id) = {}
    BY <1>1, <1>4, <2>1, <2>4, FirstStep
  <2> QED
    BY <2>3, <2>4
<1> QED
  BY <1>3, <1>4

\* So each response is counted once.
LEMMA ChargedIsCountedOnce ==
    ASSUME TypeInv, TurnsInv, ChargedOK
    PROVE  UsageCountedOnce
<1> SUFFICES ASSUME NEW id \in MessageIds
             PROVE  IF UsageRecords(id) = {} THEN Charged(id) = {}
                    ELSE \E i \in DOMAIN steps :
                            /\ Charged(id) = {i}
                            /\ steps[i].source_line = First(id)
                            /\ steps[i].metrics = log[First(id)].usage
  BY DEF UsageCountedOnce, Charged, First
<1>1. CASE UsageRecords(id) = {}
  BY <1>1 DEF ChargedOK
<1>2. CASE UsageRecords(id) # {}
  <2>1. PICK i \in Charged(id) : TRUE
    BY <1>2 DEF ChargedOK
  <2>2. \A k \in Charged(id) : k \in DOMAIN steps /\ steps[k].source_line = First(id)
    BY DEF Charged, ChargedOK
  <2>3. Charged(id) = {i}
    BY <2>1, <2>2, OneStepPerTurn
  <2> QED
    BY <1>2, <2>1, <2>2, <2>3 DEF ChargedOK
<1> QED
  BY <1>1, <1>2

-----------------------------------------------------------------------------
\* The usages after the first of their response, and those of them that agree with it.
Repeats ==
    UNION {UsageRecords(id) \ {First(id)} : id \in {m \in MessageIds : UsageRecords(m) # {}}}

Agrees(n) == log[n].usage = log[First(log[n].id)].usage

RepeatsOK ==
    /\ fidelity["duplicate_usage_records"] = Cardinality({n \in Repeats : Agrees(n)})
    /\ fidelity["conflicting_usage_records"] = Cardinality({n \in Repeats : ~Agrees(n)})

\* The record at hand repeats a usage of its response.
Repeating == ConvertAssistant /\ UsageGiven /\ UsageStored

\* A repeated usage is one more, and agrees if it is the one stored.
LEMMA RepeatsStep ==
    ASSUME TypeInv, CorrelationInv, TableOK, [AnyNext]_vars
    PROVE  /\ IsFiniteSet(Repeats) /\ line_number \notin {n \in Repeats : Repeating}
           /\ Repeats' = Repeats \cup {n \in {line_number} : Repeating}
           /\ \A n \in Repeats : Agrees(n)' <=> Agrees(n)
           /\ Repeating => (Agrees(line_number)' <=> usage_by_message[record.id] = record.usage)
<1>0. line_number \in Nat /\ DOMAIN usage_by_message \subseteq MessageIds
  BY StepFields DEF TypeInv, TypeOK
<1>1. IsFiniteSet(Repeats) /\ \A n \in Repeats : n \in Turns
  <2>1. \A n \in Repeats : n \in Turns
    BY DEF Repeats, UsageRecords, Turns
  <2>2. Repeats \subseteq Turns
    BY <2>1
  <2> QED
    BY <2>1, <2>2, TurnsStep, FS_Subset
<1>2. Repeating => line_number \notin Repeats
  BY <1>1, TurnsStep DEF Repeating, Finishing
<1>3. \A n : n \in Repeats <=> \E id \in MessageIds : n \in UsageRecords(id) /\ n # First(id)
  BY DEF Repeats
<1>4. \A n : n \in Repeats' <=> \E id \in MessageIds : n \in UsageRecords(id)' /\ n # First(id)'
  BY DEF Repeats
<1>5. ASSUME NEW n PROVE n \in Repeats' <=> n \in Repeats \/ (Repeating /\ n = line_number)
  <2>1. ASSUME NEW id \in MessageIds
        PROVE  n \in UsageRecords(id)' /\ n # First(id)'
               <=> \/ n \in UsageRecords(id) /\ n # First(id)
                   \/ Repeating /\ n = line_number /\ record.id = id
    <3>1. UsageRecords(id)' = UsageRecords(id) \cup {k \in {line_number} : Brings(id)}
      BY UsageStep
    <3>2. UsageStored /\ record.id = id <=> record.id = id /\ UsageRecords(id) # {}
      BY DEF TableOK, UsageStored
    <3>3. Repeating /\ record.id = id <=> Brings(id) /\ UsageRecords(id) # {}
      BY <3>2 DEF Repeating, Brings
    <3>4. CASE UsageRecords(id) = {}
      BY <3>1, <3>3, <3>4, FirstStep
    <3>5. CASE UsageRecords(id) # {}
      <4>1. First(id)' = First(id) /\ First(id) \in UsageRecords(id)
        BY <3>5, FirstStep
      <4>2. Brings(id) => First(id) # line_number
        BY <1>0, <4>1, UsageStep
      <4> QED
        BY <3>1, <3>3, <3>5, <4>1, <4>2
    <3> QED
      BY <3>4, <3>5
  <2>2. Repeating => record.id \in MessageIds
    BY <1>0 DEF Repeating, UsageStored
  <2> QED
    BY <1>3, <1>4, <2>1, <2>2
<1>6. Repeats' = Repeats \cup {n \in {line_number} : Repeating}
  BY <1>5
<1>7. ASSUME NEW n, NEW id \in MessageIds, n \in UsageRecords(id)', UsageRecords(id) # {}
      PROVE  /\ log'[n] = log[n] /\ log[n].id = id
             /\ Agrees(n)' <=> log[n].usage = log[First(id)].usage
  <2>1. log'[n] = log[n] /\ log[n].id = id
    BY <1>7, UsageStep
  <2>2. log'[First(id)'] = log[First(id)] /\ First(id)' = First(id)
    BY <1>7, FirstStep
  <2> QED
    BY <2>1, <2>2 DEF Agrees
<1>8. ASSUME NEW n \in Repeats PROVE Agrees(n)' <=> Agrees(n)
  <2>1. PICK id \in MessageIds : n \in UsageRecords(id)
    BY <1>3
  <2>2. n \in UsageRecords(id)' /\ UsageRecords(id) # {}
    BY <2>1, UsageStep
  <2> QED
    BY <1>7, <2>2 DEF Agrees
<1>9. ASSUME Repeating
      PROVE  Agrees(line_number)' <=> usage_by_message[record.id] = record.usage
  <2>1. record.id \in MessageIds /\ Brings(record.id) /\ record.id \in DOMAIN usage_by_message
    BY <1>0, <1>9 DEF Repeating, UsageStored, Brings
  <2>2. /\ UsageRecords(record.id) # {}
        /\ usage_by_message[record.id] = log[First(record.id)].usage
    BY <2>1 DEF TableOK
  <2> PICK n, id : n = line_number /\ id = record.id
    OBVIOUS
  <2>3. n \in UsageRecords(id)' /\ record = log[n]
    BY <2>1, UsageStep DEF record
  <2>4. Agrees(n)' <=> log[n].usage = log[First(id)].usage
    BY <1>7, <2>1, <2>2, <2>3
  <2>5. line_number' = line_number
    BY <1>9, EndEffect DEF Repeating, line_number
  <2> QED
    BY <2>2, <2>3, <2>4, <2>5
<1> QED
  BY <1>1, <1>2, <1>6, <1>8, <1>9

\* What the actions do to the two counters of repeated usage.
LEMMA UsageCounted ==
    ASSUME TypeInv, [AnyNext]_vars
    PROVE  LET d == "duplicate_usage_records"
               c == "conflicting_usage_records"
               agrees == usage_by_message[record.id] = record.usage
           IN
           /\ fidelity[d] \in Nat /\ fidelity[c] \in Nat
           /\ fidelity'[d] = fidelity[d] + (IF Repeating /\ agrees THEN 1 ELSE 0)
           /\ fidelity'[c] = fidelity[c] + (IF Repeating /\ ~agrees THEN 1 ELSE 0)
<1> DEFINE d == "duplicate_usage_records"
           c == "conflicting_usage_records"
           agrees == usage_by_message[record.id] = record.usage
<1>0. /\ fidelity \in [Counters -> Nat] /\ {d, c} \subseteq Counters
      /\ fidelity[d] \in Nat /\ fidelity[c] \in Nat
  BY DEF TypeInv, TypeOK, Counters
<1> SUFFICES /\ fidelity'[d] = fidelity[d] + (IF Repeating /\ agrees THEN 1 ELSE 0)
             /\ fidelity'[c] = fidelity[c] + (IF Repeating /\ ~agrees THEN 1 ELSE 0)
  BY <1>0
<1>1. CASE ConvertAssistant
  <2> PICK S : S = UsageCounters
    OBVIOUS
  <2>1. /\ d \in S <=> UsageGiven /\ UsageStored /\ agrees
        /\ c \in S <=> UsageGiven /\ UsageStored /\ ~agrees
    BY DEF UsageCounters
  <2>2. fidelity' = Count(fidelity, S \cup {"source_records_preserved"})
    BY <1>1 DEF ConvertAssistant, EndRecord
  <2> QED
    BY <1>0, <1>1, <2>1, <2>2, CountEffect DEF Repeating
<1>2. CASE ~ConvertAssistant
  <2>0. ~Repeating
    BY <1>2 DEF Repeating
  <2> SUFFICES \/ fidelity' = fidelity
               \/ \E S : fidelity' = Count(fidelity, S) /\ S \cap {d, c} = {}
               \/ \E n : fidelity' = CountMany(fidelity, "unsupported_source_blocks", n)
    BY <1>0, <2>0, CountEffect DEF CountMany
  <2>1. ASSUME NEW x \in FileLines, SkipLine(x) \/ Raise(x)
        PROVE  fidelity' = fidelity \/ fidelity' = Count(fidelity, {"unsupported_source_records"})
    BY <2>1 DEF SkipLine, Raise, MalformedLine, NonObjectLine, UnsupportedType, NoMessage,
         UnsupportedRole, UnhashableType, UnhashableRole, CountUnsupportedRecord
  <2>2. ASSUME NEW x \in FileLines, ReadRecord(x)
        PROVE  \E S : fidelity' = Count(fidelity, S) /\ S \cap {d, c} = {}
    BY <2>2 DEF ReadRecord, TimestampCounters, ContentCounters
  <2>3. CASE NextBlock
    <3>1. \/ fidelity' = fidelity
          \/ fidelity' = Count(fidelity, {"tool_calls_preserved"})
          \/ fidelity' = Count(fidelity, {"unsupported_source_blocks"})
          \/ \E n : fidelity' = CountMany(fidelity, "unsupported_source_blocks", n)
      BY <2>3 DEF NextBlock, TextBlock, ToolUseBlock, ToolResultBlock, MisplacedToolBlock,
         MalformedBlock, UnknownBlock, CountUnsupportedBlock, CountDroppedItems
    <3> QED
      BY <3>1
  <2>4. CASE AttachResult \/ OrphanResult
    <3>1. \E S : fidelity' = Count(fidelity, S) /\ S \cap {d, c} = {}
      <4>1. CASE AttachResult
        <5>1. PICK S : /\ S = {"observation_results_preserved"}
                              \cup {x \in {"omitted_tool_result_timestamps"} : record.timestamp = "valid"}
                       /\ fidelity' = Count(fidelity, S)
          BY <4>1 DEF AttachResult
        <5> QED
          BY <5>1
      <4>2. CASE OrphanResult
        BY <4>2 DEF OrphanResult
      <4> QED
        BY <2>4, <4>1, <4>2
    <3> QED
      BY <3>1
  <2>5. CASE ConvertUserOrSystem
    <3>1. fidelity' = Count(fidelity, {} \cup {"source_records_preserved"})
      BY <2>5 DEF ConvertUserOrSystem, EndRecord
    <3> QED
      BY <3>1
  <2>6. CASE EndOfFile \/ UNCHANGED vars
    BY <2>6, EndOfFileEffect DEF vars
  <2> QED
    BY <1>2, <2>1, <2>2, <2>3, <2>4, <2>5, <2>6 DEF AnyNext
<1> QED
  BY <1>1, <1>2

\* Every later usage of a response is counted when its record ends.
LEMMA RepeatsCountedStep ==
    ASSUME TypeInv, CorrelationInv, TableOK, RepeatsOK, [AnyNext]_vars
    PROVE  RepeatsOK'
<1> PICK same \in BOOLEAN : same <=> usage_by_message[record.id] = record.usage
  OBVIOUS
<1> PICK D : D = {n \in Repeats : Agrees(n)}
  OBVIOUS
<1> PICK C : C = {n \in Repeats : ~Agrees(n)}
  OBVIOUS
<1> PICK E : E = {n \in Repeats : Agrees(n)}'
  OBVIOUS
<1> PICK F : F = {n \in Repeats : ~Agrees(n)}'
  OBVIOUS
<1> PICK here : here = line_number
  OBVIOUS
<1>1. /\ Repeats' = Repeats \cup {n \in {here} : Repeating}
      /\ \A n \in Repeats : Agrees(n)' <=> Agrees(n)
      /\ IsFiniteSet(Repeats) /\ here \notin {n \in Repeats : Repeating}
  BY RepeatsStep
<1>2. Repeating => (Agrees(here)' <=> same)
  <2>1. ASSUME Repeating PROVE line_number' = here
    BY <2>1, EndEffect DEF Repeating, line_number
  <2> QED
    BY <2>1, RepeatsStep DEF Agrees
<1>3. IsFiniteSet(D) /\ IsFiniteSet(C)
  BY <1>1, FS_Subset
<1>4. /\ E = D \cup {n \in {here} : Repeating /\ same}
      /\ F = C \cup {n \in {here} : Repeating /\ ~same}
  BY <1>1, <1>2
<1>5. Repeating => here \notin D /\ here \notin C
  BY <1>1
<1>6. /\ Cardinality(E) = Cardinality(D) + (IF Repeating /\ same THEN 1 ELSE 0)
      /\ Cardinality(F) = Cardinality(C) + (IF Repeating /\ ~same THEN 1 ELSE 0)
  <2>1. ASSUME NEW P, IsFiniteSet(P), NEW Q, NEW b \in BOOLEAN, b => here \notin P,
               Q = P \cup {n \in {here} : b}
        PROVE  Cardinality(Q) = Cardinality(P) + (IF b THEN 1 ELSE 0)
    <3>1. CASE b
      <4>1. Q = P \cup {here}
        BY <2>1, <3>1
      <4> QED
        BY <2>1, <3>1, <4>1, OneMore
    <3>2. CASE ~b
      <4>1. Q = P /\ Cardinality(P) \in Nat
        BY <2>1, <3>2, FS_CardinalityType
      <4> QED
        BY <3>2, <4>1
    <3> QED
      BY <3>1, <3>2
  <2> PICK b \in BOOLEAN : b <=> Repeating /\ same
    OBVIOUS
  <2> PICK e \in BOOLEAN : e <=> Repeating /\ ~same
    OBVIOUS
  <2>2. Cardinality(E) = Cardinality(D) + (IF b THEN 1 ELSE 0)
    BY <1>3, <1>4, <1>5, <2>1
  <2>3. Cardinality(F) = Cardinality(C) + (IF e THEN 1 ELSE 0)
    BY <1>3, <1>4, <1>5, <2>1
  <2> QED
    BY <2>2, <2>3
<1> QED
  BY <1>6, UsageCounted DEF RepeatsOK

\* At first there is no usage.
LEMMA UsageInit == Init => TableOK /\ ChargedOK /\ RepeatsOK
<1> SUFFICES ASSUME Init PROVE TableOK /\ ChargedOK /\ RepeatsOK
  OBVIOUS
<1>1. /\ DOMAIN usage_by_message = {} /\ DOMAIN steps = {}
      /\ fidelity["duplicate_usage_records"] = 0 /\ fidelity["conflicting_usage_records"] = 0
  BY DEF Init, ZeroCounters, Counters
<1>2. \A id : UsageRecords(id) = {} /\ Charged(id) = {}
  BY <1>1 DEF Init, UsageRecords, Finished, line_number, Charged
<1>3. Repeats = {}
  BY <1>2 DEF Repeats
<1> QED
  BY <1>1, <1>2, <1>3, FS_EmptySet DEF TableOK, ChargedOK, RepeatsOK

\* Of the usages of a response the first is charged, at its step and nowhere else, and
\* every other is reported, as a duplicate if it equals the first and as a conflict if not.
THEOREM UsageChargedOnce == Spec => []UsageAccounted
<1>1. /\ TypeInv /\ CorrelationInv /\ TurnsInv /\ [AnyNext]_vars /\ TableOK /\ ChargedOK /\ RepeatsOK
      => (TableOK /\ ChargedOK /\ RepeatsOK)'
  BY TableStep, ChargedStep, RepeatsCountedStep
<1>2. TypeInv /\ TurnsInv /\ ChargedOK /\ RepeatsOK => UsageAccounted
  <2>1. RepeatsOK => RepeatedUsageReported
    BY DEF RepeatsOK, RepeatedUsageReported, Repeats, Agrees, First
  <2> QED
    BY <2>1, ChargedIsCountedOnce DEF UsageAccounted
<1> QED
  BY <1>1, <1>2, UsageInit, TypeInvariance, CorrelationInvariance, TrajectoryInvariance, AnyFile, PTL

-----------------------------------------------------------------------------
(***************************************************************************)
(* The calls of each turn, in their order.                                 *)
(***************************************************************************)

\* The usable calls of a message before its block m.
UsableBefore(blocks, m) ==
    {b \in DOMAIN blocks : b < m /\ blocks[b].kind = "tool_use" /\ UsableCall(blocks[b])}

\* The ids of these calls, one by one.
IdsInOrder(ids, blocks, m) ==
    /\ Len(ids) = Cardinality(UsableBefore(blocks, m))
    /\ \A b \in UsableBefore(blocks, m) :
          ids[Cardinality(UsableBefore(blocks, b)) + 1] = blocks[b].id

\* The calls of a message at block b are fewer than those after it.
LEMMA CallRank ==
    ASSUME NEW blocks \in Seq(Block), NEW m \in Nat
    PROVE  /\ IsFiniteSet(UsableBefore(blocks, m)) /\ Cardinality(UsableBefore(blocks, m)) \in Nat
           /\ \A b \in UsableBefore(blocks, m) :
                 /\ b \in Nat /\ IsFiniteSet(UsableBefore(blocks, b))
                 /\ Cardinality(UsableBefore(blocks, b)) \in Nat
                 /\ Cardinality(UsableBefore(blocks, b)) < Cardinality(UsableBefore(blocks, m))
<1>1. IsFiniteSet(DOMAIN blocks)
  BY FS_Interval
<1>2. \A n : UsableBefore(blocks, n) \subseteq DOMAIN blocks
  BY DEF UsableBefore
<1>3. \A n : IsFiniteSet(UsableBefore(blocks, n)) /\ Cardinality(UsableBefore(blocks, n)) \in Nat
  BY <1>1, <1>2, FS_Subset, FS_CardinalityType
<1>4. ASSUME NEW b \in UsableBefore(blocks, m)
      PROVE  b \in Nat /\ Cardinality(UsableBefore(blocks, b)) < Cardinality(UsableBefore(blocks, m))
  <2>1. b \in Nat /\ b \in UsableBefore(blocks, m) /\ b \notin UsableBefore(blocks, b)
        /\ UsableBefore(blocks, b) \subseteq UsableBefore(blocks, m)
    BY DEF UsableBefore
  <2> QED
    BY <2>1, <1>3, FS_Subset
<1> QED
  BY <1>3, <1>4

\* The trajectory has the calls of each assistant's turn in the order of its message,
\* and the record at hand those before the block it is at.
CallsInOrder ==
    /\ pc = "record" /\ record.role = "assistant" => IdsInOrder(tool_calls, record.blocks, at)
    /\ \A i \in DOMAIN steps :
          LET turn == log[steps[i].source_line] IN
          IF turn.role = "assistant"
            THEN IdsInOrder(steps[i].tool_calls, turn.blocks, Len(turn.blocks) + 1)
            ELSE steps[i].tool_calls = <<>>

\* A block more, a call more if it is a usable one.
LEMMA NextCall ==
    ASSUME NEW blocks \in Seq(Block), NEW m \in 1 .. Len(blocks), NEW ids \in Seq(CallIds),
           IdsInOrder(ids, blocks, m),
           NEW new,
           new = IF blocks[m].kind = "tool_use" /\ UsableCall(blocks[m]) THEN Append(ids, blocks[m].id) ELSE ids
    PROVE  IdsInOrder(new, blocks, m + 1)
<1>1. IsFiniteSet(UsableBefore(blocks, m)) /\ Cardinality(UsableBefore(blocks, m)) \in Nat
  BY CallRank
<1>2. CASE blocks[m].kind = "tool_use" /\ UsableCall(blocks[m])
  <2>1. UsableBefore(blocks, m + 1) = UsableBefore(blocks, m) \cup {m} /\ m \notin UsableBefore(blocks, m)
    BY <1>2 DEF UsableBefore
  <2>2. Cardinality(UsableBefore(blocks, m + 1)) = Cardinality(UsableBefore(blocks, m)) + 1
    BY <1>1, <2>1, OneMore
  <2>3. Len(new) = Len(ids) + 1 /\ new[Len(ids) + 1] = blocks[m].id /\ Len(ids) \in Nat
        /\ \A k \in 1 .. Len(ids) : new[k] = ids[k]
    BY <1>2
  <2>4. ASSUME NEW b \in UsableBefore(blocks, m)
        PROVE  new[Cardinality(UsableBefore(blocks, b)) + 1] = blocks[b].id
    <3>1. m \in Nat /\ Len(ids) = Cardinality(UsableBefore(blocks, m))
      BY DEF IdsInOrder
    <3>2. /\ Cardinality(UsableBefore(blocks, b)) \in Nat
          /\ Cardinality(UsableBefore(blocks, b)) < Len(ids)
      BY <3>1, CallRank
    <3>3. Cardinality(UsableBefore(blocks, b)) + 1 \in 1 .. Len(ids)
      BY <3>2
    <3> QED
      BY <2>3, <3>3 DEF IdsInOrder
  <2>5. new[Cardinality(UsableBefore(blocks, m)) + 1] = blocks[m].id
    BY <2>3 DEF IdsInOrder
  <2>6. Len(new) = Cardinality(UsableBefore(blocks, m + 1))
    BY <2>2, <2>3 DEF IdsInOrder
  <2> QED
    BY <2>1, <2>4, <2>5, <2>6 DEF IdsInOrder
<1>3. CASE ~(blocks[m].kind = "tool_use" /\ UsableCall(blocks[m]))
  <2>1. UsableBefore(blocks, m + 1) = UsableBefore(blocks, m)
    BY <1>3 DEF UsableBefore
  <2> QED
    BY <1>3, <2>1 DEF IdsInOrder
<1> QED
  BY <1>2, <1>3

\* All blocks are before every number behind the last.
LEMMA AllCalls ==
    ASSUME NEW blocks \in Seq(Block), NEW m \in Nat, m > Len(blocks)
    PROVE  UsableBefore(blocks, m) = UsableBefore(blocks, Len(blocks) + 1)
BY DEF UsableBefore

\* The calls stay in their order.
LEMMA CallsInOrderStep ==
    ASSUME TypeInv, CorrelationInv, TurnsInv, CallsInOrder, [AnyNext]_vars
    PROVE  CallsInOrder'
<1>0. /\ \A n \in Turns : n \in 1 .. line_number /\ log'[n] = log[n]
      /\ line_number \in Nat
  BY TurnsStep, StepFields
<1>1. \A i \in DOMAIN steps : log'[steps[i].source_line] = log[steps[i].source_line]
  BY <1>0 DEF TurnsInv, TurnAt
<1>2. \A i \in DOMAIN steps :
         LET turn == log[steps[i].source_line] IN
         IF turn.role = "assistant"
           THEN IdsInOrder(steps[i].tool_calls, turn.blocks, Len(turn.blocks) + 1)
           ELSE steps[i].tool_calls = <<>>
  BY DEF CallsInOrder
<1>3. ASSUME steps' = steps PROVE
         \A i \in DOMAIN steps' :
            LET turn == log'[steps'[i].source_line] IN
            IF turn.role = "assistant"
              THEN IdsInOrder(steps'[i].tool_calls, turn.blocks, Len(turn.blocks) + 1)
              ELSE steps'[i].tool_calls = <<>>
  BY <1>1, <1>2, <1>3
<1>4. CASE AttachResult
  <2> PICK s : s = tool_call_steps[NextResult.source_call_id]
    OBVIOUS
  <2>1. /\ DOMAIN steps' = DOMAIN steps
        /\ \A i \in DOMAIN steps : /\ steps'[i].tool_calls = steps[i].tool_calls
                                   /\ steps'[i].source_line = steps[i].source_line
    BY <1>4, AttachEffect
  <2>2. pc' = pc /\ log' = log /\ at' = at /\ tool_calls' = tool_calls
    BY <1>4, ResultEffect
  <2>3. record' = record
    BY <2>2 DEF record, line_number
  <2> QED
    BY <1>1, <1>2, <2>1, <2>2, <2>3 DEF CallsInOrder
<1>5. CASE Finishing
  <2>1. /\ pc = "record" /\ pc' = "reading" /\ log' = log /\ at > Len(record.blocks)
        /\ \/ steps' = steps
           \/ \E s : /\ steps' = Append(steps, s)
                     /\ s.source_line = line_number /\ s.tool_calls = tool_calls
    BY <1>5, EndEffect DEF Finishing
  <2>2. CASE steps' = steps
    BY <1>3, <2>1, <2>2 DEF CallsInOrder
  <2>3. ASSUME NEW s, steps' = Append(steps, s), s.source_line = line_number, s.tool_calls = tool_calls
        PROVE  CallsInOrder'
    <3> PICK n : n = Len(steps) + 1
      OBVIOUS
    <3>1. /\ DOMAIN steps' = DOMAIN steps \cup {n} /\ steps'[n] = s
          /\ \A i \in DOMAIN steps : steps'[i] = steps[i]
      BY <2>3, AppendStep, StepFields
    <3>2. /\ record \in FileLines /\ record.blocks \in Seq(Block) /\ at \in Nat
          /\ record = log[line_number]
      BY <2>1, RecordFields, LineFields DEF record, TypeInv, TypeOK
    <3>3. IF record.role = "assistant"
            THEN IdsInOrder(tool_calls, record.blocks, Len(record.blocks) + 1)
            ELSE tool_calls = <<>>
      <4>1. record.role = "assistant" => IdsInOrder(tool_calls, record.blocks, at)
        BY <2>1 DEF CallsInOrder
      <4>2. record.role # "assistant" => tool_calls = <<>>
        BY <2>1 DEF TypeInv, LocalsOK
      <4> QED
        BY <2>1, <3>2, <4>1, <4>2, AllCalls DEF IdsInOrder
    <3> QED
      BY <1>1, <1>2, <2>1, <2>3, <3>1, <3>2, <3>3 DEF CallsInOrder
  <2> QED
    BY <2>1, <2>2, <2>3
<1>6. CASE NextBlock
  <2>1. /\ pc = "record" /\ at \in 1 .. MaxBlocks /\ at <= Len(record.blocks) /\ at' = at + 1
        /\ UNCHANGED <<pc, log, steps>>
        /\ IF block.kind = "tool_use" /\ record.role = "assistant" /\ UsableCall(block)
             THEN tool_calls' = Append(tool_calls, block.id)
             ELSE tool_calls' = tool_calls
    BY <1>6, BlockEffect
  <2>2. record' = record /\ record.blocks \in Seq(Block) /\ block = record.blocks[at]
        /\ tool_calls \in Seq(CallIds)
    BY <2>1, RecordFields, LineFields DEF record, line_number, block, TypeInv, TypeOK
  <2>3. ASSUME record.role = "assistant"
        PROVE  IdsInOrder(tool_calls', record.blocks, at + 1)
    <3> PICK new : new = tool_calls'
      OBVIOUS
    <3>1. IdsInOrder(tool_calls, record.blocks, at)
      BY <2>1, <2>3 DEF CallsInOrder
    <3>2. at \in 1 .. Len(record.blocks)
      BY <2>1, <2>2
    <3> QED
      BY <2>1, <2>2, <2>3, <3>1, <3>2, NextCall
  <2> QED
    BY <1>3, <2>1, <2>2, <2>3 DEF CallsInOrder
<1>7. ASSUME NEW l \in FileLines, ReadRecord(l) PROVE CallsInOrder'
  <2>1. pc' = "record" /\ at' = 1 /\ tool_calls' = <<>> /\ steps' = steps
    BY <1>7, ReadEffect
  <2>2. \A blocks : UsableBefore(blocks, 1) = {b \in DOMAIN blocks : b < 1 /\ b \in UsableBefore(blocks, 1)}
    BY DEF UsableBefore
  <2>3. record' = l /\ l.blocks \in Seq(Block)
    BY <1>7, ReadEffect, LineFields
  <2>4. UsableBefore(l.blocks, 1) = {}
    BY <2>3 DEF UsableBefore
  <2>5. IdsInOrder(<<>>, l.blocks, 1)
    BY <2>4, FS_EmptySet DEF IdsInOrder
  <2> QED
    BY <1>3, <2>1, <2>3, <2>5 DEF CallsInOrder
<1>8. ASSUME NEW l \in FileLines, SkipLine(l) \/ Raise(l) PROVE CallsInOrder'
  <2>1. pc' # "record" /\ steps' = steps
    BY <1>8, SkipEffect
  <2> QED
    BY <1>3, <2>1 DEF CallsInOrder
<1>9. CASE OrphanResult
  <2>1. pc' = pc /\ log' = log /\ at' = at /\ tool_calls' = tool_calls /\ steps' = steps
    BY <1>9, ResultEffect DEF OrphanResult
  <2> QED
    BY <1>3, <2>1 DEF CallsInOrder, record, line_number
<1>10. CASE EndOfFile
  <2>1. pc' # "record" /\ steps' = steps
    BY <1>10, EndOfFileEffect
  <2> QED
    BY <1>3, <2>1 DEF CallsInOrder
<1>11. CASE UNCHANGED vars
  <2>1. pc' = pc /\ log' = log /\ at' = at /\ tool_calls' = tool_calls /\ steps' = steps
    BY <1>11 DEF vars, local, output
  <2> QED
    BY <1>3, <2>1 DEF CallsInOrder, record, line_number
<1> QED
  BY <1>4, <1>5, <1>6, <1>7, <1>8, <1>9, <1>10, <1>11 DEF AnyNext, Finishing

\* At the start there are none.
LEMMA CallsInOrderInit == Init => CallsInOrder
BY DEF Init, CallsInOrder

-----------------------------------------------------------------------------
(***************************************************************************)
(* Places in order.                                                        *)
(***************************************************************************)

\* Of two places one precedes the other.
LEMMA PlacesOrdered ==
    /\ \A p, q \in Nat \X Nat :
          /\ p = q \/ Precedes(p, q) \/ Precedes(q, p)
          /\ Precedes(p, q) => ~Precedes(q, p) /\ p # q
    /\ \A p, q, r \in Nat \X Nat : Precedes(p, q) /\ Precedes(q, r) => Precedes(p, r)
BY DEF Precedes

\* The more places precede one of a set, the later it is.
LEMMA RankGrows ==
    ASSUME NEW S \in SUBSET (Nat \X Nat), IsFiniteSet(S)
    PROVE  /\ Cardinality(S) \in Nat
           /\ \A p \in S : /\ Cardinality(Preceding(S, p)) \in 0 .. Cardinality(S) - 1
                           /\ IsFiniteSet(Preceding(S, p))
           /\ \A p, q \in S :
                 Precedes(p, q) => Cardinality(Preceding(S, p)) < Cardinality(Preceding(S, q))
<1>1. \A T \in SUBSET S : /\ IsFiniteSet(T) /\ Cardinality(T) \in Nat
                          /\ \A U \in SUBSET T : U # T => Cardinality(U) < Cardinality(T)
  BY FS_Subset, FS_CardinalityType
<1>2. ASSUME NEW p \in S
      PROVE  Preceding(S, p) \in SUBSET S /\ p \notin Preceding(S, p)
  BY PlacesOrdered DEF Preceding
<1>3. ASSUME NEW p \in S, NEW q \in S, Precedes(p, q)
      PROVE  Preceding(S, p) \subseteq Preceding(S, q) /\ p \in Preceding(S, q)
  BY <1>3, PlacesOrdered DEF Preceding
<1>4. ASSUME NEW p \in S
      PROVE  /\ Cardinality(Preceding(S, p)) \in 0 .. Cardinality(S) - 1
             /\ IsFiniteSet(Preceding(S, p))
  <2>1. /\ Cardinality(Preceding(S, p)) \in Nat /\ IsFiniteSet(Preceding(S, p))
        /\ Cardinality(S) \in Nat /\ Cardinality(Preceding(S, p)) < Cardinality(S)
    BY <1>1, <1>2
  <2> QED
    BY <2>1
<1>5. ASSUME NEW p \in S, NEW q \in S, Precedes(p, q)
      PROVE  Cardinality(Preceding(S, p)) < Cardinality(Preceding(S, q))
  <2>1. Preceding(S, p) # Preceding(S, q)
    BY <1>2, <1>3, <1>5
  <2> QED
    BY <1>1, <1>2, <1>3, <1>5, <2>1
<1> QED
  BY <1>1, <1>4, <1>5

\* InOrder lists each place of the set, at the number of those before it.
LEMMA ListedInOrder ==
    ASSUME NEW S \in SUBSET (Nat \X Nat), IsFiniteSet(S)
    PROVE  /\ Cardinality(S) \in Nat /\ DOMAIN InOrder(S) = 1 .. Cardinality(S)
           /\ \A k \in 1 .. Cardinality(S) :
                 InOrder(S)[k] \in S /\ Cardinality(Preceding(S, InOrder(S)[k])) = k - 1
           /\ \A p \in S : /\ Cardinality(Preceding(S, p)) + 1 \in 1 .. Cardinality(S)
                           /\ InOrder(S)[Cardinality(Preceding(S, p)) + 1] = p
<1> DEFINE Rank(p) == Cardinality(Preceding(S, p))
           N == Cardinality(S)
           rank == [p \in S |-> Rank(p)]
           Ranks == {Rank(p) : p \in S}
<1>1. N \in Nat /\ \A p \in S : Rank(p) \in 0 .. N - 1
  BY RankGrows
<1>2. \A p, q \in S : Rank(p) = Rank(q) => p = q
  <2>1. ASSUME NEW p \in S, NEW q \in S, Precedes(p, q) PROVE Rank(p) # Rank(q)
    BY <2>1, RankGrows, <1>1
  <2> QED
    BY <2>1, PlacesOrdered
<1>3. Cardinality(Ranks) = N
  <2>1. rank \in [S -> Ranks]
    OBVIOUS
  <2>2. \A p, q \in S : rank[p] = rank[q] => p = q
    BY <1>2
  <2>3. \A t \in Ranks : \E p \in S : rank[p] = t
    OBVIOUS
  <2> HIDE DEF rank, Ranks
  <2> QED
    BY <2>1, <2>2, <2>3, SameSize
<1>4. Ranks = 0 .. N - 1
  <2>1. \A n \in Nat : IsFiniteSet(0 .. n - 1) /\ Cardinality(0 .. n - 1) = n
    <3>1. ASSUME NEW n \in Nat
          PROVE  /\ IsFiniteSet(0 .. n - 1)
                 /\ Cardinality(0 .. n - 1) = IF 0 > n - 1 THEN 0 ELSE n - 1 - 0 + 1
      <4>1. 0 \in Int /\ n - 1 \in Int
        OBVIOUS
      <4> QED
        BY <4>1, FS_Interval
    <3> QED
      BY <3>1
  <2>2. Ranks \subseteq 0 .. N - 1
    BY <1>1
  <2> HIDE DEF Ranks
  <2> QED
    BY <1>1, <1>3, <2>1, <2>2, FS_Subset
<1>5. ASSUME NEW k \in 1 .. N
      PROVE  InOrder(S)[k] \in S /\ Rank(InOrder(S)[k]) = k - 1
  <2>1. k - 1 \in Ranks
    BY <1>1, <1>4
  <2>2. \E p \in S : Rank(p) = k - 1
    BY <2>1
  <2>3. InOrder(S)[k] = CHOOSE p \in S : Rank(p) = k - 1
    BY DEF InOrder
  <2> QED
    BY <2>2, <2>3
<1>6. ASSUME NEW p \in S
      PROVE  Rank(p) + 1 \in 1 .. N /\ InOrder(S)[Rank(p) + 1] = p
  <2> PICK k : k = Rank(p) + 1
    OBVIOUS
  <2>1. k \in 1 .. N /\ k - 1 = Rank(p)
    BY <1>1
  <2>2. InOrder(S)[k] \in S /\ Rank(InOrder(S)[k]) = Rank(p)
    BY <1>5, <2>1
  <2> QED
    BY <1>2, <2>1, <2>2
<1>7. DOMAIN InOrder(S) = 1 .. N
  BY DEF InOrder
<1> QED
  BY <1>1, <1>5, <1>6, <1>7

\* And it lists none twice.
LEMMA ListedOnce ==
    ASSUME NEW S \in SUBSET (Nat \X Nat), IsFiniteSet(S)
    PROVE  \A j, k \in DOMAIN InOrder(S) : InOrder(S)[j] = InOrder(S)[k] => j = k
<1>1. ASSUME NEW j \in DOMAIN InOrder(S), NEW k \in DOMAIN InOrder(S), InOrder(S)[j] = InOrder(S)[k]
      PROVE  j = k
  <2>1. j - 1 = k - 1 /\ j \in Nat /\ k \in Nat
    BY <1>1, ListedInOrder
  <2> QED
    BY <2>1
<1> QED
  BY <1>1

\* A map of places that keeps their order, onto a set of the same size, maps the list of
\* the one to that of the other.
LEMMA SameOrder ==
    ASSUME NEW S \in SUBSET (Nat \X Nat), IsFiniteSet(S),
           NEW T \in SUBSET (Nat \X Nat), IsFiniteSet(T),
           Cardinality(S) = Cardinality(T),
           NEW f \in [S -> T],
           \A p, q \in S : Precedes(p, q) => Precedes(f[p], f[q])
    PROVE  \A k \in 1 .. Cardinality(S) : InOrder(T)[k] = f[InOrder(S)[k]]
<1> DEFINE Image == {f[p] : p \in S}
<1>1. \A p, q \in S : f[p] = f[q] => p = q
  BY PlacesOrdered
<1>2. Image = T
  <2>1. f \in [S -> Image] /\ (\A t \in Image : \E p \in S : f[p] = t) /\ Image \subseteq T
    OBVIOUS
  <2> HIDE DEF Image
  <2>2. Cardinality(Image) = Cardinality(S)
    BY <1>1, <2>1, SameSize
  <2> QED
    BY <2>1, <2>2, FS_Subset
<1>3. ASSUME NEW p \in S
      PROVE  Cardinality(Preceding(T, f[p])) = Cardinality(Preceding(S, p))
  <2> DEFINE A == Preceding(S, p)
             B == Preceding(T, f[p])
             g == [q \in A |-> f[q]]
  <2>1. g \in [A -> B]
    BY DEF Preceding
  <2>2. \A q, r \in A : g[q] = g[r] => q = r
    BY <1>1 DEF Preceding
  <2>3. ASSUME NEW t \in B PROVE \E q \in A : g[q] = t
    <3>1. PICK q \in S : f[q] = t
      BY <1>2, <2>3 DEF Preceding
    <3>2. Precedes(f[q], f[p])
      BY <3>1, <2>3 DEF Preceding
    <3>3. Precedes(q, p)
      BY <3>2, PlacesOrdered
    <3> QED
      BY <3>1, <3>3 DEF Preceding
  <2>4. IsFiniteSet(A)
    BY RankGrows
  <2> HIDE DEF A, B, g
  <2> QED
    BY <2>1, <2>2, <2>3, <2>4, SameSize DEF A, B
<1>4. ASSUME NEW k \in 1 .. Cardinality(S)
      PROVE  InOrder(T)[k] = f[InOrder(S)[k]]
  <2> PICK p : p = InOrder(S)[k]
    OBVIOUS
  <2>1. p \in S /\ Cardinality(Preceding(S, p)) = k - 1
    BY ListedInOrder
  <2>2. f[p] \in T /\ Cardinality(Preceding(T, f[p])) = k - 1
    BY <1>3, <2>1
  <2>3. InOrder(T)[k - 1 + 1] = f[p]
    BY <2>2, ListedInOrder
  <2> QED
    BY <2>3
<1> QED
  BY <1>4
=============================================================================
