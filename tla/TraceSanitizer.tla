---------------------------- MODULE TraceSanitizer ----------------------------
(***************************************************************************)
(* The sanitizer of tools/trace_sanitizer.py and the comparison that       *)
(* tools/private_demo.py makes with it: a raw log is parsed, reduced by an *)
(* allowlist to a log of the same length, and the reduced log is parsed    *)
(* again.  The report and the step structure of both should be the same.   *)
(*                                                                         *)
(* Reducing is a function of the whole file: a record, its fields and its  *)
(* blocks are judged one by one, and an identifier gets the number of its  *)
(* first appearance.  Texts lose path names, which changes nothing that is *)
(* modelled.  Left out: JSON strings on lines of their own, which          *)
(* private_demo.py writes back without their quotes.                       *)
(***************************************************************************)
EXTENDS ClaudeParserProperties, SequencesExt

CONSTANTS
    CallPseudonyms,     \* the sequence of call ids that replace those of a log
    MessagePseudonyms,  \* the same for the ids of API responses
    Placeholder         \* stands for every session id and working directory

\* The pseudonyms are numbered and never run out: there is one for each id that a log
\* has room for, or one for each id that there is.
Enough(names, ids, room) ==
    Len(names) >= room \/ (IsFiniteSet(ids) /\ Cardinality(ids) <= Len(names))

ASSUME PseudonymAssumption ==
    /\ CallPseudonyms \in Seq(CallIds) /\ IsInjective(CallPseudonyms)
    /\ Enough(CallPseudonyms, CallIds \cup BlankIds, MaxLines * MaxBlocks)
    /\ MessagePseudonyms \in Seq(MessageIds) /\ IsInjective(MessagePseudonyms)
    /\ Enough(MessagePseudonyms, MessageIds, MaxLines)
    /\ Placeholder \in MetaValues \ NotStrings

VARIABLES
    raw,        \* what the parser made of the raw log, once it has read it
    sanitized   \* the reduced log, or empty before

sanitizerVars == <<vars, raw, sanitized>>

-----------------------------------------------------------------------------
\* record: what is kept of a record at all.
Kept(l) == l.shape = "object" /\ l.type \in SupportedTypes /\ l.message

\* The ids of a file that are replaced, by the place where the sanitizer comes to them.
\* An id of blanks is one of them, though the parser knows no call by it.
CallIdsOf(file) ==
    LET places == {p \in UNION {{n} \X DOMAIN file[n].blocks : n \in DOMAIN file} :
                      /\ Kept(file[p[1]])
                      /\ file[p[1]].blocks[p[2]].kind \in {"tool_use", "tool_result"}
                      /\ file[p[1]].blocks[p[2]].id # NoCallId}
    IN  [p \in places |-> file[p[1]].blocks[p[2]].id]

MessageIdsOf(file) ==
    LET places == {n \in DOMAIN file : Kept(file[n]) /\ file[n].id # NoMessageId} \X {1}
    IN  [p \in places |-> file[p[1]].id]

\* The ids that are in the table once an id is: those that come before it does.
NamedWith(ids, id) ==
    {ids[p] : p \in {p \in DOMAIN ids : \A q \in DOMAIN ids : ids[q] = id => ~Precedes(q, p)}}

Slip_Pseudonym(names, ids, id) ==
    IF id \notin Range(ids) THEN id
    ELSE names[Cardinality({ids[p] : p \in {p \in DOMAIN ids :
                                \E q \in DOMAIN ids : ids[q] = id /\ ~Precedes(q, p)}})]

\* _pseudonym: an id that is absent, empty or no string is kept as it is.
Pseudonym(names, ids, id) ==
    IF id \notin Range(ids) THEN id ELSE names[Cardinality(NamedWith(ids, id))]

\* _result_content: an image gets a source object, and an item without a type one
\* whose type is null.
SanitizedItem(item) ==
    CASE item = "bare_image" -> "image"
      [] item = "untyped"    -> "other"
      [] OTHER               -> item

Slip_SanitizedBlock(b, ids) ==
    CASE b.kind = "tool_use" -> [b EXCEPT !.id = Pseudonym(CallPseudonyms, ids, b.id)]
      [] b.kind = "tool_result" -> [b EXCEPT !.items = [i \in DOMAIN b.items |-> SanitizedItem(b.items[i])]]
      [] OTHER -> b

\* _block.
SanitizedBlock(b, ids) ==
    CASE b.kind = "tool_use" -> [b EXCEPT !.id = Pseudonym(CallPseudonyms, ids, b.id)]
      [] b.kind = "tool_result" ->
            [b EXCEPT !.id = Pseudonym(CallPseudonyms, ids, b.id),
                      !.items = [i \in DOMAIN b.items |-> SanitizedItem(b.items[i])]]
      [] b.kind = "thinking" -> [b EXCEPT !.payload = b.payload /\ b.valid, !.valid = TRUE]
      [] OTHER -> b

Slip_Skeleton(type, subtype) ==
    [shape |-> "object", type |-> type, subtype |-> "none",
     message |-> FALSE, role |-> "other", timestamp |-> "absent", content |-> "list", text |-> FALSE,
     blocks |-> <<>>, model |-> "absent", usage |-> NoUsage, id |-> NoMessageId,
     ignored |-> {}, meta |-> [f \in MetaFields |-> NoMeta]]

\* _skeleton: the type is all that is left, and the subtype of a system record.
Skeleton(type, subtype) ==
    [shape |-> "object", type |-> type, subtype |-> IF type = "system" THEN subtype ELSE "none",
     message |-> FALSE, role |-> "other", timestamp |-> "absent", content |-> "list", text |-> FALSE,
     blocks |-> <<>>, model |-> "absent", usage |-> NoUsage, id |-> NoMessageId,
     ignored |-> {}, meta |-> [f \in MetaFields |-> NoMeta]]

\* record: the session id is replaced whatever it is, the working directory if a string.
ReplacedMeta(data) ==
    {f \in {"sessionId", "cwd"} : data[f] # NoMeta /\ (f = "cwd" => data[f] \notin NotStrings)}

\* _content: what is neither a string nor a list becomes the string "[dropped]".
\* The other fields, and the usage but for its four counts, keep what the parser
\* looks at: that they are there, their value, or that it is unusable.
SanitizedMessage(l, calls, messages) ==
    [l EXCEPT !.blocks  = [b \in DOMAIN @ |-> SanitizedBlock(@[b], calls)],
              !.content = IF NonListContent(l) THEN "string" ELSE @,
              !.text    = @ \/ NonListContent(l),
              !.id      = Pseudonym(MessagePseudonyms, messages, @),
              !.meta    = [f \in MetaFields |->
                              IF f \in ReplacedMeta(@) THEN Placeholder ELSE @[f]]]

\* sanitize_records.  A record that is no JSON object becomes one of unknown type.
SanitizeRecords(file) ==
    LET calls    == CallIdsOf(file)
        messages == MessageIdsOf(file)
    IN  [n \in DOMAIN file |->
            IF Kept(file[n]) THEN SanitizedMessage(file[n], calls, messages)
            ELSE IF file[n].shape = "object" THEN Skeleton(file[n].type, file[n].subtype)
            ELSE Skeleton("unknown", "none")]

-----------------------------------------------------------------------------
SanitizerInit == Init /\ raw = <<>> /\ sanitized = <<>>

ParseRaw ==
    /\ raw = <<>>
    /\ Next
    /\ UNCHANGED <<raw, sanitized>>

\* The sanitizer starts when the raw log has been parsed, and the parser afresh.
Sanitize ==
    /\ raw = <<>> /\ pc = "done"
    /\ raw' = [log |-> log, steps |-> steps, fidelity |-> fidelity, breakdown |-> breakdown]
    /\ sanitized' = SanitizeRecords(log)
    /\ pc' = "reading" /\ log' = <<>> /\ ResetLocals
    /\ steps' = <<>> /\ tool_call_steps' = <<>> /\ usage_by_message' = <<>>
    /\ meta' = [f \in MetaFields |-> NoMeta]
    /\ fidelity' = ZeroCounters /\ breakdown' = EmptyBreakdown
    /\ normalized' = FALSE /\ transformations' = FALSE

ParseSanitized ==
    /\ raw # <<>>
    /\ \/ /\ pc = "reading" /\ line_number < Len(sanitized)
          /\ LET l == sanitized[line_number + 1] IN SkipLine(l) \/ Raise(l) \/ ReadRecord(l)
       \/ NextBlock \/ AttachResult \/ OrphanResult \/ ConvertAssistant \/ ConvertUserOrSystem
       \/ line_number = Len(sanitized) /\ EndOfFile
    /\ UNCHANGED <<raw, sanitized>>

Compared == raw # <<>> /\ pc = "done"

SanitizerEnded == (Compared \/ Failed) /\ UNCHANGED sanitizerVars

SanitizerNext == ParseRaw \/ Sanitize \/ ParseSanitized \/ SanitizerEnded

SanitizerSpec == SanitizerInit /\ [][SanitizerNext]_sanitizerVars

-----------------------------------------------------------------------------
\* trajectory_fidelity: the structure that is compared.  A time is told by its line.
StepSignature(trajectory) ==
    [i \in DOMAIN trajectory |->
        [source |-> trajectory[i].source, model_name |-> trajectory[i].model_name,
         timestamp |-> IF trajectory[i].timestamp THEN trajectory[i].source_line ELSE 0,
         metrics |-> trajectory[i].metrics, tools |-> Len(trajectory[i].tool_calls),
         errors |-> [o \in DOMAIN trajectory[i].observation |-> trajectory[i].observation[o].is_error # "none"],
         has_text |-> trajectory[i].message]]

EquivalenceOk ==
    /\ raw.fidelity = fidelity
    /\ raw.breakdown = breakdown
    /\ StepSignature(raw.steps) = StepSignature(steps)

\* The calls that the parser cannot use for their blank id, and can once it is replaced.
RevivedCalls(l) ==
    {b \in DOMAIN l.blocks :
        /\ Kept(l) /\ l.role = "assistant"
        /\ l.blocks[b].kind = "tool_use" /\ l.blocks[b].valid /\ l.blocks[b].id \in BlankIds}

\* What the sanitizer does not carry over as the parser sees it.
Distorted(l) ==
    \/ l.shape # "object"
    \/ RevivedCalls(l) # {}
    \/ /\ Kept(l) /\ l.role \in SupportedTypes
       /\ \/ NonListContent(l)
          \/ \E b \in DOMAIN l.blocks :
                \/ l.blocks[b].kind = "thinking" /\ l.blocks[b].payload /\ ~l.blocks[b].valid
                \/ /\ l.blocks[b].kind = "tool_result" /\ l.role = "user"
                   /\ ~ClaudeContent(l.blocks[b].items)
                   /\ ToSet(l.blocks[b].items) \cap {"text", "image", "bare_image"} # {}

\* The sanitizer keeps and drops by rules of its own.  The report and the step
\* structure are the same for the reduced log as for the raw one, unless the raw log
\* holds a line that is no object, content that is neither string nor list, a thinking
\* text that is no string, a tool result whose list of items the parser keeps whole
\* but reads item by item once each has a type, or a tool call with nothing wrong but
\* an id of blanks; and in each of these cases they differ.
EquivalenceExplained ==
    Compared => (EquivalenceOk <=> \A n \in DOMAIN raw.log : ~Distorted(raw.log[n]))

\* The reduced log is converted to the same steps.
SameSteps ==
    /\ DOMAIN steps = DOMAIN raw.steps
    /\ \A i \in DOMAIN steps : steps[i].source_line = raw.steps[i].source_line

SameResults ==
    \A i \in DOMAIN steps :
        [o \in DOMAIN steps[i].observation |-> Origin(<<i, o>>)]
            = [o \in DOMAIN raw.steps[i].observation |->
                  <<raw.steps[i].observation[o].line, raw.steps[i].observation[o].item>>]

SameCalls ==
    \A i, j \in DOMAIN steps :
        /\ Len(steps[i].tool_calls) = Len(raw.steps[i].tool_calls)
        /\ \A c \in DOMAIN steps[i].tool_calls, d \in DOMAIN steps[j].tool_calls :
              steps[i].tool_calls[c] = steps[j].tool_calls[d]
                  <=> raw.steps[i].tool_calls[c] = raw.steps[j].tool_calls[d]

\* The comparison sees no ids.  Whatever the log, the reduced one is converted to the
\* same steps, of which two share a response exactly if they did before, and each has
\* the calls it had and those of its record that only a blank id had kept out.  If there
\* are none of these in the log, the steps have the same results, also where a result has
\* a blank id, and two calls share an id exactly if they did before.
CorrelationSurvives ==
    Compared =>
        /\ SameSteps
        /\ \A i, j \in DOMAIN steps :
              steps[i].source_message_id = steps[j].source_message_id
                  <=> raw.steps[i].source_message_id = raw.steps[j].source_message_id
        /\ \A i \in DOMAIN steps :
              Len(steps[i].tool_calls) = Len(raw.steps[i].tool_calls)
                                         + Cardinality(RevivedCalls(raw.log[steps[i].source_line]))
        /\ (\A n \in DOMAIN raw.log : RevivedCalls(raw.log[n]) = {}) => SameResults /\ SameCalls

\* A reduced log is its own reduction: nothing in it is left to drop, and its ids are
\* numbered as the sanitizer would number them.
SanitizingIsIdempotent == SanitizeRecords(sanitized) = sanitized

\* tools/trace_sanitizer.py: converting the sanitized file produces the same fidelity
\* accounting as converting the raw one; here, the same counters.
CountersSurvive == Compared => raw.fidelity = fidelity
=============================================================================
