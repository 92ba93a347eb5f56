---------------------------- MODULE VerifierProofs ----------------------------
(***************************************************************************)
(* The parser and the verifier each decide what in a file is a call, a     *)
(* result and an unsupported record: the parser line by line, by the way   *)
(* it takes through its loop, and the verifier over the whole file.  Where *)
(* they agree and where not is told place by place; with it, what makes    *)
(* the verifier reject a document, and that it rejects the altered ones.   *)
(***************************************************************************)
EXTENDS Verifier, AccountingProofs

\* The lines read that are no turn.
Rejected == {n \in 1 .. line_number : ~Converted(n)}

\* The parser has counted them, unless it raised over the last one.
RejectedOK == pc # "raised" => fidelity["unsupported_source_records"] = Cardinality(Rejected)

\* A line is counted as it is read, if it is no turn.
LEMMA RejectedGrow ==
    ASSUME TypeInv, NEW l \in FileLines, log' = Append(log, l)
    PROVE  /\ IsFiniteSet(Rejected) /\ line_number + 1 \notin Rejected
           /\ Rejected' = Rejected \cup {n \in {line_number + 1} : ~Converted(line_number)'}
<1> PICK next : next = line_number + 1
  OBVIOUS
<1>1. /\ line_number \in Nat /\ line_number' = next /\ log'[next] = l
      /\ \A n \in 1 .. line_number : Converted(n)' <=> Converted(n)
  BY FileGrows
<1>2. IsFiniteSet(Rejected)
  <2>1. IsFiniteSet(1 .. line_number)
    BY <1>1, FS_Interval
  <2> QED
    BY <2>1, FS_Subset DEF Rejected
<1>3. 1 .. next = (1 .. line_number) \cup {next} /\ next \notin 1 .. line_number
  BY <1>1
<1>4. Converted(next)' <=> Converted(line_number)'
  BY <1>1 DEF Converted, Supported
<1> QED
  BY <1>1, <1>2, <1>3, <1>4 DEF Rejected

\* Every step of the parser keeps the count.
LEMMA RejectedStep ==
    ASSUME TypeInv, CorrelationInv, RejectedOK, [AnyNext]_vars
    PROVE  RejectedOK'
<1> DEFINE p == "source_records_preserved"
           u == "unsupported_source_records"
<1>0. /\ fidelity \in [Counters -> Nat] /\ p \in Counters /\ u \in Counters /\ p # u
      /\ fidelity[p] \in Nat /\ fidelity[u] \in Nat
  BY DEF TypeInv, TypeOK, Counters
<1>1. ASSUME log' = log, fidelity'[u] = fidelity[u], pc # "raised" \/ pc' = "raised"
      PROVE  RejectedOK'
  <2>1. Rejected' = Rejected
    BY <1>1 DEF Rejected, line_number, Converted, Supported
  <2> QED
    BY <1>1, <2>1 DEF RejectedOK
<1>2. ASSUME NEW l \in FileLines, SkipLine(l) \/ Raise(l) PROVE RejectedOK'
  <2>1. pc = "reading" /\ log' = Append(log, l) /\ ~Converted(line_number)'
    BY <1>2, SkipEffect
  <2>2. CASE SkipLine(l)
    <3>1. fidelity'[u] = fidelity[u] + 1
      BY <1>0, <1>2, <2>2, LineCounters
    <3> PICK T : T = Rejected'
      OBVIOUS
    <3>2. T = Rejected \cup {line_number + 1}
      BY <2>1, RejectedGrow
    <3>3. Cardinality(T) = Cardinality(Rejected) + 1
      BY <2>1, <3>2, RejectedGrow, OneMore
    <3> QED
      BY <2>1, <3>1, <3>3 DEF RejectedOK
  <2>3. CASE ~SkipLine(l)
    <3>1. pc' = "raised"
      BY <1>2, <2>3 DEF Raise, UnhashableType, UnhashableRole
    <3> QED
      BY <3>1 DEF RejectedOK
  <2> QED
    BY <2>2, <2>3
<1>3. ASSUME NEW l \in FileLines, ReadRecord(l) PROVE RejectedOK'
  <2>1. pc = "reading" /\ log' = Append(log, l) /\ Converted(line_number)'
    BY <1>3, ReadEffect
  <2>2. Rejected' = Rejected
    BY <2>1, RejectedGrow
  <2>3. PICK S : fidelity' = Count(fidelity, S) /\ u \notin S
    BY <1>3 DEF ReadRecord, TimestampCounters, ContentCounters
  <2>4. fidelity'[u] = fidelity[u]
    BY <1>0, <2>3, CountEffect
  <2> QED
    BY <2>1, <2>2, <2>4 DEF RejectedOK
<1>4. CASE NextBlock
  <2>1. pc = "record" /\ log' = log
    BY <1>4, BlockEffect
  <2>2. fidelity'[u] = fidelity[u]
    BY <1>0, <1>4, BlockCounters
  <2> QED
    BY <1>1, <2>1, <2>2
<1>5. CASE AttachResult \/ OrphanResult
  <2>1. pc = "record" /\ log' = log
    BY <1>5 DEF AttachResult, OrphanResult, TreatResult, BlocksParsed
  <2>2. PICK S : fidelity' = Count(fidelity, S) /\ u \notin S
    BY <1>5 DEF AttachResult, OrphanResult
  <2>3. fidelity'[u] = fidelity[u]
    BY <1>0, <2>2, CountEffect
  <2> QED
    BY <1>1, <2>1, <2>3
<1>6. CASE ConvertAssistant \/ ConvertUserOrSystem
  <2>1. pc = "record" /\ log' = log
    BY <1>6, EndEffect
  <2>2. PICK counters : EndRecord(counters) /\ u \notin counters
    BY <1>6 DEF ConvertAssistant, ConvertUserOrSystem, UsageCounters
  <2>3. fidelity'[u] = fidelity[u]
    BY <1>0, <2>2, CountEffect DEF EndRecord
  <2> QED
    BY <1>1, <2>1, <2>3
<1>7. CASE EndOfFile \/ UNCHANGED vars
  <2>1. log' = log /\ fidelity' = fidelity /\ (pc # "raised" \/ pc' = "raised")
    BY <1>7, EndOfFileEffect DEF vars
  <2> QED
    BY <1>1, <2>1
<1> QED
  BY <1>2, <1>3, <1>4, <1>5, <1>6, <1>7 DEF AnyNext

-----------------------------------------------------------------------------
(***************************************************************************)
(* The document: the trajectory, or the trajectory altered once.           *)
(***************************************************************************)

Altered(kind, document) ==
    CASE kind = "lost_result" ->
            \E k \in DOMAIN Document.results :
                document = [Document EXCEPT !.results = RemoveAt(@, k)]
      [] kind = "duplicate_result" ->
            \E k \in DOMAIN Document.results :
                document = [Document EXCEPT !.results = InsertAt(@, k, @[k])]
      [] kind = "wrong_call_id" ->
            \E k \in DOMAIN Document.results :
                \E id \in CallIds \ {Document.results[k].source_call_id} :
                    document = [Document EXCEPT !.results = [@ EXCEPT ![k].source_call_id = id]]
      [] kind = "swapped_results" ->
            \E j, k \in DOMAIN Document.results :
                /\ Document.results[j].source_call_id # Document.results[k].source_call_id
                /\ document = [Document EXCEPT !.results =
                                   [@ EXCEPT ![j].content = Document.results[k].content,
                                             ![k].content = Document.results[j].content]]
      [] kind = "missing_call" ->
            \E k \in DOMAIN Document.calls :
                document = [Document EXCEPT !.calls = RemoveAt(@, k)]
      [] kind = "false_fidelity" ->
            \E c \in ExpectedCounters :
                /\ Document.fidelity[c] > 0
                /\ document = [Document EXCEPT !.fidelity[c] = 0]
      [] OTHER -> kind = "none" /\ document = Document

CandidateOK ==
    /\ stage \in {"parsing", "candidate", "verified"}
    /\ stage = "parsing" => mutation = "none"
    /\ stage # "parsing" => pc = "done" /\ Altered(mutation, candidate)
    /\ stage = "verified" => findings = VerifyDocument

\* The document and the findings are functions of the file, the trajectory, the report
\* and the candidate.
LEMMA DocumentKept ==
    ASSUME UNCHANGED vars
    PROVE  /\ Document' = Document
           /\ \A kind, document : Altered(kind, document)' <=> Altered(kind, document)
<1>1. log' = log /\ steps' = steps /\ fidelity' = fidelity
  BY DEF vars, output
<1>2. CallPlaces' = CallPlaces /\ Placed' = Placed
  BY <1>1 DEF CallPlaces, Placed
<1>3. Document' = Document
  BY <1>1, <1>2 DEF Document, At, Origin
<1> QED
  BY <1>3 DEF Altered

LEMMA FindingsKept ==
    ASSUME UNCHANGED <<vars, candidate>>
    PROVE  VerifyDocument' = VerifyDocument
<1>1. log' = log /\ fidelity' = fidelity /\ candidate' = candidate
  BY DEF vars
<1>2. \A role, kind : SourceBlocks(role, kind)' = SourceBlocks(role, kind)
  BY <1>1 DEF SourceBlocks, BlockAt
<1>3. SourcePlaces' = SourcePlaces
  BY <1>2 DEF SourcePlaces
<1>4. SourceCalls' = SourceCalls
  BY <1>1, <1>2 DEF SourceCalls, BlockAt
<1>5. SourceResults' = SourceResults
  BY <1>1, <1>3 DEF SourceResults, BlockAt
<1>6. UnsupportedRecords' = UnsupportedRecords
  BY <1>1 DEF UnsupportedRecords
<1>7. TimestampedResults' = TimestampedResults
  BY <1>1, <1>3 DEF TimestampedResults
<1>8. ExpectedResults' = ExpectedResults /\ ActualResults' = ActualResults
  BY <1>1, <1>5 DEF ExpectedResults, ActualResults
<1>9. ExpectedFidelity' = ExpectedFidelity
  BY <1>1, <1>6 DEF ExpectedFidelity
<1>10. TimestampFinding' = TimestampFinding
  BY <1>1, <1>7 DEF TimestampFinding
<1> QED
  BY <1>1, <1>4, <1>6, <1>8, <1>9, <1>10 DEF VerifyDocument

\* An alteration alters the trajectory as it was reproduced.
LEMMA MutationStep ==
    ASSUME CandidateOK,
           LostResult \/ DuplicateResult \/ WrongCallId \/ SwappedResults \/ MissingCall \/ FalseFidelity
    PROVE  /\ stage = "candidate" /\ stage' = "candidate" /\ UNCHANGED vars
           /\ Altered(mutation', candidate')
<1> PICK d : d = candidate'
  OBVIOUS
<1> PICK kind : kind = mutation'
  OBVIOUS
<1>1. ASSUME NEW k, Mutate(k)
      PROVE  /\ stage = "candidate" /\ stage' = "candidate" /\ UNCHANGED vars
             /\ kind = k /\ candidate = Document
  <2>1. stage = "candidate" /\ mutation = "none" /\ mutation' = k /\ UNCHANGED <<vars, stage>>
    BY <1>1 DEF Mutate
  <2>2. Altered("none", candidate)
    BY <2>1 DEF CandidateOK
  <2>3. candidate = Document
    BY <2>2 DEF Altered
  <2> QED
    BY <2>1, <2>3
<1>2. CASE LostResult
  <2>1. Mutate("lost_result")
    BY <1>2 DEF LostResult
  <2>2. candidate = Document /\ kind = "lost_result"
    BY <1>1, <2>1
  <2>3. Altered("lost_result", d)
    BY <1>2, <2>2 DEF LostResult, Altered
  <2> QED
    BY <1>1, <2>1, <2>2, <2>3
<1>3. CASE DuplicateResult
  <2>1. Mutate("duplicate_result")
    BY <1>3 DEF DuplicateResult
  <2>2. candidate = Document /\ kind = "duplicate_result"
    BY <1>1, <2>1
  <2>3. Altered("duplicate_result", d)
    BY <1>3, <2>2 DEF DuplicateResult, Altered
  <2> QED
    BY <1>1, <2>1, <2>2, <2>3
<1>4. CASE WrongCallId
  <2>1. Mutate("wrong_call_id")
    BY <1>4 DEF WrongCallId
  <2>2. candidate = Document /\ kind = "wrong_call_id"
    BY <1>1, <2>1
  <2>3. \E k \in DOMAIN Document.results :
           \E id \in CallIds \ {Document.results[k].source_call_id} :
               d = [Document EXCEPT !.results = [@ EXCEPT ![k].source_call_id = id]]
    <3>1. PICK k \in DOMAIN candidate.results :
             \E id \in CallIds \ {candidate.results[k].source_call_id} :
                 d = [candidate EXCEPT !.results = [@ EXCEPT ![k].source_call_id = id]]
      BY <1>4 DEF WrongCallId
    <3>2. PICK id \in CallIds \ {candidate.results[k].source_call_id} :
             d = [candidate EXCEPT !.results = [@ EXCEPT ![k].source_call_id = id]]
      BY <3>1
    <3>3. /\ k \in DOMAIN Document.results
          /\ id \in CallIds \ {Document.results[k].source_call_id}
          /\ d = [Document EXCEPT !.results = [@ EXCEPT ![k].source_call_id = id]]
      BY <2>2, <3>2
    <3> QED
      BY <3>3
  <2>4. Altered("wrong_call_id", d)
    BY <2>3 DEF Altered
  <2> QED
    BY <1>1, <2>1, <2>2, <2>4
<1>5. CASE SwappedResults
  <2>1. Mutate("swapped_results")
    BY <1>5 DEF SwappedResults
  <2>2. candidate = Document /\ kind = "swapped_results"
    BY <1>1, <2>1
  <2>3. \E j, k \in DOMAIN Document.results :
           /\ Document.results[j].source_call_id # Document.results[k].source_call_id
           /\ d = [Document EXCEPT !.results =
                      [@ EXCEPT ![j].content = Document.results[k].content,
                                ![k].content = Document.results[j].content]]
    BY <1>5, <2>2 DEF SwappedResults
  <2>4. Altered("swapped_results", d)
    BY <2>3 DEF Altered
  <2> QED
    BY <1>1, <2>1, <2>2, <2>4
<1>6. CASE MissingCall
  <2>1. Mutate("missing_call")
    BY <1>6 DEF MissingCall
  <2>2. candidate = Document /\ kind = "missing_call"
    BY <1>1, <2>1
  <2>3. Altered("missing_call", d)
    BY <1>6, <2>2 DEF MissingCall, Altered
  <2> QED
    BY <1>1, <2>1, <2>2, <2>3
<1>7. CASE FalseFidelity
  <2>1. Mutate("false_fidelity")
    BY <1>7 DEF FalseFidelity
  <2>2. candidate = Document /\ kind = "false_fidelity"
    BY <1>1, <2>1
  <2>3. Altered("false_fidelity", d)
    BY <1>7, <2>2 DEF FalseFidelity, Altered
  <2> QED
    BY <1>1, <2>1, <2>2, <2>3
<1> QED
  BY <1>2, <1>3, <1>4, <1>5, <1>6, <1>7

\* Every step keeps the document and its findings together.
LEMMA CandidateStep ==
    ASSUME CandidateOK, [VerifierNext]_verifierVars
    PROVE  CandidateOK'
<1> PICK d : d = candidate'
  OBVIOUS
<1> PICK kind : kind = mutation'
  OBVIOUS
<1>1. CASE Parse
  <2>1. stage = "parsing" /\ stage' = stage /\ mutation' = mutation
    BY <1>1, NextWorks DEF CandidateOK, Parse, verification
  <2> QED
    BY <2>1 DEF CandidateOK
<1>2. CASE Reproduce
  <2>1. stage' = "candidate" /\ pc' = "done" /\ d = Document /\ kind = "none" /\ UNCHANGED vars
    BY <1>2 DEF Reproduce, CandidateOK, vars
  <2>2. Altered(kind, d)'
    BY <2>1, DocumentKept DEF Altered
  <2> QED
    BY <2>1, <2>2 DEF CandidateOK
<1>3. CASE LostResult \/ DuplicateResult \/ WrongCallId \/ SwappedResults \/ MissingCall \/ FalseFidelity
  <2>1. stage = "candidate" /\ stage' = "candidate" /\ UNCHANGED vars /\ Altered(kind, d)
    BY <1>3, MutationStep
  <2>2. Altered(kind, d)' /\ pc' = "done"
    BY <2>1, DocumentKept DEF CandidateOK, vars
  <2> QED
    BY <2>1, <2>2 DEF CandidateOK
<1>4. CASE Verify \/ UNCHANGED verifierVars
  <2>1. /\ UNCHANGED <<vars, candidate>> /\ mutation' = mutation /\ pc' = pc
        /\ \/ stage = "candidate" /\ stage' = "verified" /\ findings' = VerifyDocument
           \/ stage' = stage /\ findings' = findings
    BY <1>4 DEF Verify, verifierVars, verification, vars
  <2>2. VerifyDocument' = VerifyDocument /\ (Altered(kind, d)' <=> Altered(kind, d))
    BY <2>1, FindingsKept, DocumentKept
  <2> QED
    BY <2>1, <2>2 DEF CandidateOK
<1> QED
  BY <1>1, <1>2, <1>3, <1>4 DEF VerifierNext, Ended

\* Every step of the verifier is one of the parser or leaves the parser alone.
LEMMA ParserStep ==
    ASSUME [VerifierNext]_verifierVars
    PROVE  [AnyNext]_vars
BY NextIsAny DEF VerifierNext, verifierVars, Parse, Reproduce, LostResult, DuplicateResult, WrongCallId,
       SwappedResults, MissingCall, FalseFidelity, Mutate, Verify, Ended

\* What the parser has counted and built, and what the document says of it, at any time.
ParsedInv ==
    /\ TypeInv /\ CorrelationInv
    /\ RejectedOK
    /\ TrafficInv /\ DeliveryInv /\ TimesOK
    /\ TurnsInv /\ CallsInOrder

VerifierInv == ParsedInv /\ CandidateOK

\* It holds before the file is read.
LEMMA VerifierInvInit == VerifierInit => VerifierInv
<1>1. Init => RejectedOK
  <2>1. Init => Rejected = {} /\ fidelity["unsupported_source_records"] = 0
    BY DEF Init, Rejected, line_number, ZeroCounters, Counters
  <2> QED
    BY <2>1, FS_EmptySet DEF RejectedOK
<1>2. Init => ParsedInv
  BY <1>1, TypeInvInit, CorrelationInit, TrafficInit, DeliveryInit, LossesInit, TurnsInvInit,
     CallsInOrderInit DEF ParsedInv
<1> QED
  BY <1>2 DEF VerifierInit, VerifierInv, CandidateOK

\* And it is kept.
LEMMA VerifierInvStep ==
    ASSUME VerifierInv, [VerifierNext]_verifierVars
    PROVE  VerifierInv'
<1>1. [AnyNext]_vars
  BY ParserStep
<1>2. TypeInv' /\ CorrelationInv'
  BY <1>1, TypeInvStep, CorrelationStep DEF VerifierInv, ParsedInv
<1>3. RejectedOK' /\ TrafficInv' /\ DeliveryInv'
  BY <1>1, RejectedStep, TrafficStep, DeliveryStep DEF VerifierInv, ParsedInv
<1>4. TimesOK' /\ TurnsInv' /\ CallsInOrder'
  BY <1>1, TimesStep, TurnsInvStep, CallsInOrderStep DEF VerifierInv, ParsedInv
<1> QED
  BY <1>2, <1>3, <1>4, CandidateStep DEF VerifierInv, ParsedInv

\* An unaltered document has no conflict over unsupported material.
LEMMA RejectedAreUnsupported ==
    ASSUME ParsedInv, pc = "done"
    PROVE  Cardinality(UnsupportedRecords) = fidelity["unsupported_source_records"]
<1>1. UnsupportedRecords = Rejected
  <2>1. DOMAIN log = 1 .. line_number
    BY DEF ParsedInv, TypeInv, TypeOK, line_number
  <2> QED
    BY <2>1 DEF UnsupportedRecords, Rejected, Converted, Supported
<1> QED
  BY <1>1 DEF ParsedInv, RejectedOK

LEMMA CountsAgree ==
    ASSUME VerifierInv
    PROVE  UnsupportedCountsAgree
<1> SUFFICES ASSUME Verified, mutation = "none"
             PROVE  /\ ~Conflict("unsupported_source_record_is_omitted")
                    /\ ~Conflict("unsupported_material_is_accounted_for")
                    /\ ~Conflict("fidelity_accounting")
  BY DEF UnsupportedCountsAgree
<1>1. pc = "done" /\ Altered("none", candidate) /\ findings = VerifyDocument
  BY DEF VerifierInv, CandidateOK, Verified
<1>2. candidate.fidelity = fidelity
  BY <1>1 DEF Altered, Document
<1>3. Cardinality(UnsupportedRecords) = fidelity["unsupported_source_records"]
  BY <1>1, RejectedAreUnsupported DEF VerifierInv
<1>4. ExpectedFidelity = [c \in ExpectedCounters |-> fidelity[c]]
  BY <1>3 DEF ExpectedFidelity
<1> QED
  BY <1>1, <1>2, <1>3, <1>4 DEF VerifyDocument, Match, Conflict

\* The invariant holds always.
LEMMA VerifierInvariance == VerifierSpec => []VerifierInv
BY VerifierInvInit, VerifierInvStep, PTL DEF VerifierSpec

\* The parser and the verifier count unsupported records alike on every file
\* (UnsupportedCountsAgree).
THEOREM BothCountTheSameRecords == VerifierSpec => []UnsupportedCountsAgree
BY VerifierInvariance, CountsAgree, PTL

-----------------------------------------------------------------------------
(***************************************************************************)
(* The source and the document, place by place.                            *)
(***************************************************************************)

\* The places of the source can be counted, and so can those of the trajectory.
LEMMA SourcePlacesFinite ==
    ASSUME TypeInv, NEW role, NEW kind
    PROVE  /\ SourceBlocks(role, kind) \in SUBSET (Nat \X Nat) /\ IsFiniteSet(SourceBlocks(role, kind))
           /\ \A p \in SourceBlocks(role, kind) :
                 /\ p[1] \in 1 .. line_number /\ p[2] \in 1 .. MaxBlocks /\ p = <<p[1], p[2]>>
                 /\ p[2] \in DOMAIN log[p[1]].blocks /\ p[2] <= Len(log[p[1]].blocks)
<1>1. log \in Seq(FileLines) /\ line_number \in Nat /\ DOMAIN log = 1 .. line_number /\ MaxBlocks \in Nat
  BY BoundAssumption DEF TypeInv, TypeOK, line_number
<1>2. ASSUME NEW n \in 1 .. line_number
      PROVE  \A b \in DOMAIN log[n].blocks : b \in 1 .. MaxBlocks /\ b <= Len(log[n].blocks)
  <2>1. log[n] \in FileLines
    BY <1>1
  <2>2. log[n].blocks \in Seq(Block) /\ Len(log[n].blocks) \in 0 .. MaxBlocks
    BY <2>1, LineFields
  <2> QED
    BY <1>1, <2>2
<1>3. ASSUME NEW p \in SourceBlocks(role, kind)
      PROVE  /\ p \in (1 .. line_number) \X (1 .. MaxBlocks)
             /\ p[2] \in DOMAIN log[p[1]].blocks /\ p[2] <= Len(log[p[1]].blocks)
  <2>1. PICK n \in 1 .. line_number : p \in {n} \X DOMAIN log[n].blocks
    BY <1>1 DEF SourceBlocks
  <2> QED
    BY <1>2, <2>1
<1>4. IsFiniteSet((1 .. line_number) \X (1 .. MaxBlocks))
  <2>1. 1 \in Int /\ line_number \in Int /\ MaxBlocks \in Int
    BY <1>1
  <2>2. IsFiniteSet(1 .. line_number) /\ IsFiniteSet(1 .. MaxBlocks)
    BY <2>1, FS_Interval
  <2> QED
    BY <2>2, FS_Product
<1>5. SourceBlocks(role, kind) \subseteq (1 .. line_number) \X (1 .. MaxBlocks)
  BY <1>3
<1> QED
  BY <1>1, <1>3, <1>4, <1>5, FS_Subset

\* A delivered result is one of the source, from its place, and answers a usable call.
LEMMA DeliveredFromSource ==
    ASSUME ParsedInv, NEW p \in Placed
    PROVE  /\ p \in Nat \X Nat /\ p[1] \in DOMAIN steps /\ p[2] \in DOMAIN steps[p[1]].observation
           /\ Origin(p) \in SourcePlaces
           /\ BlockAt(Origin(p)).id = At(p).source_call_id /\ At(p).source_call_id \in CallIds
           /\ Origin(p)[1] = At(p).line
<1>1. PICK i \in DOMAIN steps : p \in {i} \X DOMAIN steps[i].observation
  BY DEF Placed
<1>2. p[1] = i /\ p[2] \in DOMAIN steps[i].observation /\ p = <<p[1], p[2]>>
  BY <1>1
<1>3. /\ TypeInv /\ i \in Nat /\ steps[i] \in Step /\ steps[i].observation \in Seq(Result)
  BY StepFields DEF ParsedInv
<1>4. p[2] \in Nat
  BY <1>2, <1>3
<1>5. /\ Origin(p) \in Arrived /\ At(p).source_call_id = log[At(p).line].blocks[At(p).item].id
      /\ Origin(p) = <<At(p).line, At(p).item>>
  BY DeliveredId DEF ParsedInv, DeliveryInv, FromFile, Origin
<1>6. Origin(p) \in SourcePlaces
  <2>1. /\ Origin(p)[1] \in 1 .. line_number /\ Origin(p)[2] \in Nat /\ Origin(p)[2] >= 1
        /\ Converted(Origin(p)[1]) /\ log[Origin(p)[1]].role = "user"
        /\ Origin(p)[2] <= Len(log[Origin(p)[1]].blocks)
        /\ log[Origin(p)[1]].blocks[Origin(p)[2]].kind = "tool_result"
    BY <1>5, BoundAssumption DEF Arrived
  <2>2. log \in Seq(FileLines) /\ DOMAIN log = 1 .. line_number /\ line_number \in Nat
    BY <1>3 DEF TypeInv, TypeOK, line_number
  <2>3. log[Origin(p)[1]].blocks \in Seq(Block)
    <3> PICK n : n = Origin(p)[1]
      OBVIOUS
    <3>1. n \in DOMAIN log /\ log[n] \in FileLines
      BY <2>1, <2>2
    <3> QED
      BY <3>1, LineFields
  <2>4. Origin(p)[2] \in DOMAIN log[Origin(p)[1]].blocks
    BY <2>1, <2>3
  <2>5. Origin(p) = <<Origin(p)[1], Origin(p)[2]>>
    BY <1>5
  <2> QED
    BY <2>1, <2>2, <2>4, <2>5 DEF SourcePlaces, SourceBlocks, BlockAt, Converted, Supported
<1>7. At(p).source_call_id \in CallIds
  <2>1. MakesCall(i, At(p).source_call_id)
    BY <1>2 DEF ParsedInv, CorrelationInv, Delivered, LatestAt, At
  <2>2. steps[i].tool_calls \in Seq(CallIds)
    BY <1>3 DEF Step
  <2> QED
    BY <2>1, <2>2 DEF MakesCall
<1> QED
  BY <1>1, <1>2, <1>3, <1>4, <1>5, <1>6, <1>7 DEF BlockAt

\* The results of the source, in their list.
LEMMA SourceResultsListed ==
    ASSUME TypeInv
    PROVE  /\ Cardinality(SourcePlaces) \in Nat /\ DOMAIN SourceResults = 1 .. Cardinality(SourcePlaces)
           /\ \A k \in DOMAIN SourceResults :
                 /\ SourceResults[k].content \in SourcePlaces
                 /\ SourceResults[k].source_call_id = BlockAt(SourceResults[k].content).id
           /\ \A p \in SourcePlaces : \E k \in DOMAIN SourceResults : SourceResults[k].content = p
           /\ \A j, k \in DOMAIN SourceResults :
                 SourceResults[j].content = SourceResults[k].content => j = k
<1> DEFINE R == InOrder(SourcePlaces)
<1>1. SourcePlaces \in SUBSET (Nat \X Nat) /\ IsFiniteSet(SourcePlaces)
  BY SourcePlacesFinite DEF SourcePlaces
<1>2. /\ Cardinality(SourcePlaces) \in Nat /\ DOMAIN R = 1 .. Cardinality(SourcePlaces)
      /\ \A k \in DOMAIN R : R[k] \in SourcePlaces
      /\ \A p \in SourcePlaces : \E k \in DOMAIN R : R[k] = p
      /\ \A j, k \in DOMAIN R : R[j] = R[k] => j = k
  BY <1>1, ListedInOrder, ListedOnce
<1>3. SourceResults = [k \in DOMAIN R |-> [source_call_id |-> BlockAt(R[k]).id, content |-> R[k]]]
  BY DEF SourceResults
<1> HIDE DEF R
<1> QED
  BY <1>2, <1>3

\* The results of the document, in theirs.
LEMMA DocumentResultsListed ==
    ASSUME ParsedInv
    PROVE  LET results == Document.results IN
           /\ Cardinality(Placed) \in Nat /\ results \in Seq([source_call_id : CallIds, content : SourcePlaces])
           /\ Len(results) = Cardinality(Placed)
           /\ \A k \in DOMAIN results :
                 /\ results[k].content \in DeliveredPlaces
                 /\ results[k].source_call_id = BlockAt(results[k].content).id
           /\ \A p \in DeliveredPlaces : \E k \in DOMAIN results : results[k].content = p
           /\ \A j, k \in DOMAIN results : results[j].content = results[k].content => j = k
<1> DEFINE R == InOrder(Placed)
           Entry(p) == [source_call_id |-> At(p).source_call_id, content |-> Origin(p)]
           results == Document.results
<1>1. Placed \in SUBSET (Nat \X Nat) /\ IsFiniteSet(Placed)
  BY DeliveredFromSource DEF ParsedInv, TrafficInv
<1>2. /\ Cardinality(Placed) \in Nat /\ DOMAIN R = 1 .. Cardinality(Placed)
      /\ \A k \in DOMAIN R : R[k] \in Placed /\ Cardinality(Preceding(Placed, R[k])) = k - 1
      /\ \A p \in Placed : \E k \in DOMAIN R : R[k] = p
  BY <1>1, ListedInOrder
<1>3. results = [k \in DOMAIN R |-> Entry(R[k])]
  BY DEF Document
<1>4. ASSUME NEW p \in Placed
      PROVE  /\ Entry(p) \in [source_call_id : CallIds, content : SourcePlaces]
             /\ Entry(p).content = Origin(p) /\ Entry(p).content \in DeliveredPlaces
             /\ Entry(p).source_call_id = BlockAt(Entry(p).content).id
  BY DeliveredFromSource DEF DeliveredPlaces
<1>5. \A p, q \in Placed : Origin(p) = Origin(q) => p = q
  BY DEF ParsedInv, DeliveryInv, PlacedOnce
<1>6. \A j, k \in DOMAIN R : R[j] = R[k] => j = k
  BY <1>1, ListedOnce
<1>7. \A p \in DeliveredPlaces : \E q \in Placed : p = Origin(q)
  BY DEF DeliveredPlaces
<1> HIDE DEF R, Entry, results
<1>8. results \in Seq([source_call_id : CallIds, content : SourcePlaces]) /\ Len(results) = Cardinality(Placed)
  <2>0. PICK T : T = [source_call_id : CallIds, content : SourcePlaces]
    OBVIOUS
  <2> PICK n : n = Cardinality(Placed)
    OBVIOUS
  <2>1. n \in Nat /\ DOMAIN R = 1 .. n
    BY <1>2
  <2>2. \A k \in 1 .. n : Entry(R[k]) \in T
    BY <1>2, <1>4, <2>0
  <2>3. results = [k \in 1 .. n |-> Entry(R[k])]
    BY <1>3, <2>1
  <2>4. results \in [1 .. n -> T]
    BY <2>2, <2>3
  <2>5. results \in Seq(T)
    BY <2>1, <2>4
  <2>6. Len(results) = n
    BY <2>1, <2>4, <2>5
  <2> QED
    BY <2>0, <2>5, <2>6
<1>9. \A k \in DOMAIN results : results[k] = Entry(R[k]) /\ R[k] \in Placed /\ k \in DOMAIN R
  BY <1>2, <1>3
<1>10. \A j, k \in DOMAIN results : results[j].content = results[k].content => j = k
  BY <1>4, <1>5, <1>6, <1>9
<1>11. \A p \in DeliveredPlaces : \E k \in DOMAIN results : results[k].content = p
  BY <1>2, <1>3, <1>4, <1>7
<1> QED
  BY <1>2, <1>4, <1>8, <1>9, <1>10, <1>11 DEF results

\* An id that one result of a list has, has its content alone.
LEMMA SingleContent ==
    ASSUME NEW n \in Nat, NEW results, DOMAIN results = 1 .. n, NEW k \in 1 .. n,
           \A j \in 1 .. n : results[j].source_call_id = results[k].source_call_id => j = k
    PROVE  ContentsOf(results, results[k].source_call_id) = <<results[k].content>>
<1> DEFINE id == results[k].source_call_id
           mine == {j \in DOMAIN results : results[j].source_call_id = id}
           nth(m) == CHOOSE i \in mine : Cardinality({j \in mine : j <= i}) = m
<1>1. mine = {k}
  OBVIOUS
<1>2. Cardinality({k}) = 1
  BY FS_Singleton
<1>3. {j \in mine : j <= k} = {k}
  BY <1>1
<1>4. nth(1) = k
  BY <1>1, <1>2, <1>3
<1>5. ContentsOf(results, id) = [m \in 1 .. Cardinality(mine) |-> results[nth(m)].content]
  BY DEF ContentsOf
<1>6. 1 .. Cardinality(mine) = {1}
  BY <1>1, <1>2
<1> HIDE DEF nth, mine, id
<1>7. ContentsOf(results, id) = [m \in {1} |-> results[nth(m)].content]
  BY <1>5, <1>6
<1>8. ContentsOf(results, id) = [m \in 1 .. 1 |-> results[k].content]
  BY <1>4, <1>7
<1> QED
  BY <1>8 DEF id

-----------------------------------------------------------------------------
(***************************************************************************)
(* What the verifier expects and what it finds.                            *)
(***************************************************************************)

\* Where each id is answered once, the oracle has each result under its own id.
LEMMA Expected ==
    ASSUME TypeInv, AnsweredOnce
    PROVE  /\ DOMAIN ExpectedResults = {BlockAt(p).id : p \in SourcePlaces}
           /\ \A p \in SourcePlaces : ExpectedResults[BlockAt(p).id] = <<p>>
<1> DEFINE R == SourceResults
<1>1. PICK n \in Nat : DOMAIN R = 1 .. n
  BY SourceResultsListed
<1>2. /\ \A k \in DOMAIN R : R[k].content \in SourcePlaces /\ R[k].source_call_id = BlockAt(R[k].content).id
      /\ \A p \in SourcePlaces : \E k \in DOMAIN R : R[k].content = p
      /\ \A j, k \in DOMAIN R : R[j].content = R[k].content => j = k
  BY SourceResultsListed
<1> HIDE DEF R
<1>3. Ids(R) = {BlockAt(p).id : p \in SourcePlaces}
  BY <1>2 DEF Ids
<1>4. ASSUME NEW p \in SourcePlaces
      PROVE  ContentsOf(R, BlockAt(p).id) = <<p>>
  <2>1. PICK k \in DOMAIN R : R[k].content = p
    BY <1>2
  <2>2. \A j \in 1 .. n : R[j].source_call_id = R[k].source_call_id => j = k
    BY <1>1, <1>2 DEF AnsweredOnce
  <2>3. k \in 1 .. n
    BY <1>1, <2>1
  <2>4. ContentsOf(R, R[k].source_call_id) = <<R[k].content>>
    BY <1>1, <2>2, <2>3, SingleContent
  <2>5. R[k].source_call_id = BlockAt(p).id
    BY <1>2, <2>1
  <2> QED
    BY <2>1, <2>4, <2>5
<1>5. ExpectedResults = [id \in Ids(R) |-> <<Last(ContentsOf(R, id))>>]
  BY DEF ExpectedResults, R
<1>6. \A p : Last(<<p>>) = p
  BY DEF Last
<1> QED
  BY <1>3, <1>4, <1>5, <1>6

\* The document has each result that was delivered, under its own id and under no other.
LEMMA DocumentAnswers ==
    ASSUME ParsedInv, AnsweredOnce
    PROVE  LET results == Document.results IN
           /\ DeliveredPlaces \subseteq SourcePlaces
           /\ Ids(results) \ {NoCallId} = {BlockAt(p).id : p \in DeliveredPlaces}
           /\ \A p \in DeliveredPlaces : ContentsOf(results, BlockAt(p).id) = <<p>>
           /\ \A j, k \in DOMAIN results : results[j].source_call_id = results[k].source_call_id => j = k
<1> DEFINE R == Document.results
<1>1. PICK n \in Nat : DOMAIN R = 1 .. n
  BY DocumentResultsListed
<1>2. /\ \A k \in DOMAIN R : R[k].content \in DeliveredPlaces /\ R[k].source_call_id = BlockAt(R[k].content).id
      /\ \A p \in DeliveredPlaces : \E k \in DOMAIN R : R[k].content = p
      /\ \A j, k \in DOMAIN R : R[j].content = R[k].content => j = k
  BY DocumentResultsListed
<1>3. \A p \in DeliveredPlaces : p \in SourcePlaces /\ BlockAt(p).id \in CallIds
  BY DeliveredFromSource DEF DeliveredPlaces
<1> HIDE DEF R
<1>4. \A j, k \in DOMAIN R : R[j].source_call_id = R[k].source_call_id => j = k
  BY <1>2, <1>3 DEF AnsweredOnce
<1>5. Ids(R) \ {NoCallId} = {BlockAt(p).id : p \in DeliveredPlaces}
  BY <1>2, <1>3, SentinelAssumption DEF Ids
<1>6. ASSUME NEW p \in DeliveredPlaces
      PROVE  ContentsOf(R, BlockAt(p).id) = <<p>>
  <2>1. PICK k \in DOMAIN R : R[k].content = p
    BY <1>2
  <2>2. \A j \in 1 .. n : R[j].source_call_id = R[k].source_call_id => j = k
    BY <1>1, <1>4
  <2>3. k \in 1 .. n
    BY <1>1, <2>1
  <2>4. ContentsOf(R, R[k].source_call_id) = <<R[k].content>>
    BY <1>1, <2>2, <2>3, SingleContent
  <2>5. R[k].source_call_id = BlockAt(p).id
    BY <1>2, <2>1
  <2> QED
    BY <2>1, <2>4, <2>5
<1> QED
  BY <1>3, <1>4, <1>5, <1>6 DEF R

\* The results correlate exactly if every result of the source was delivered.
LEMMA CorrelationFound ==
    ASSUME ParsedInv, AnsweredOnce, candidate = Document
    PROVE  ExpectedResults = ActualResults <=> SourcePlaces = DeliveredPlaces
<1> DEFINE R == candidate.results
<1>1. /\ DeliveredPlaces \subseteq SourcePlaces
      /\ Ids(R) \ {NoCallId} = {BlockAt(p).id : p \in DeliveredPlaces}
      /\ \A p \in DeliveredPlaces : ContentsOf(R, BlockAt(p).id) = <<p>>
  BY DocumentAnswers
<1>2. ActualResults = [id \in Ids(R) \ {NoCallId} |-> ContentsOf(R, id)]
  BY DEF ActualResults
<1>3. /\ DOMAIN ExpectedResults = {BlockAt(p).id : p \in SourcePlaces}
      /\ \A p \in SourcePlaces : ExpectedResults[BlockAt(p).id] = <<p>>
      /\ ExpectedResults = [id \in DOMAIN ExpectedResults |-> ExpectedResults[id]]
  BY Expected DEF ExpectedResults, ParsedInv
<1> HIDE DEF R
<1>4. CASE SourcePlaces = DeliveredPlaces
  <2>1. DOMAIN ExpectedResults = Ids(R) \ {NoCallId}
    BY <1>1, <1>3, <1>4
  <2>2. ASSUME NEW id \in Ids(R) \ {NoCallId} PROVE ExpectedResults[id] = ContentsOf(R, id)
    <3>1. PICK p \in DeliveredPlaces : id = BlockAt(p).id
      BY <1>1
    <3> QED
      BY <1>1, <1>3, <1>4, <3>1
  <2> QED
    BY <1>2, <1>3, <1>4, <2>1, <2>2
<1>5. CASE ExpectedResults = ActualResults
  <2>1. ASSUME NEW p \in SourcePlaces PROVE p \in DeliveredPlaces
    <3>1. BlockAt(p).id \in Ids(R) \ {NoCallId}
      BY <1>2, <1>3, <1>5
    <3> QED
      BY <1>1, <3>1 DEF AnsweredOnce
  <2> QED
    BY <1>1, <1>5, <2>1
<1> QED
  BY <1>4, <1>5

\* The count of omitted times agrees exactly if the time of every result of the source
\* that has one is valid and the result was delivered.
LEMMA TimesFound ==
    ASSUME ParsedInv
    PROVE  /\ TimestampedResults \in Nat
           /\ TimestampedResults = 0 <=> \A p \in SourcePlaces : log[p[1]].timestamp = "absent"
           /\ TimestampedResults = fidelity["omitted_tool_result_timestamps"] <=>
                 \A p \in SourcePlaces :
                    /\ log[p[1]].timestamp # "invalid"
                    /\ log[p[1]].timestamp = "valid" => p \in DeliveredPlaces
<1> DEFINE T == {p \in SourcePlaces : log[p[1]].timestamp # "absent"}
           D == {p \in DeliveredPlaces : log[p[1]].timestamp = "valid"}
           origin == [p \in TimedPlaces |-> Origin(p)]
<1>1. SourcePlaces \in SUBSET (Nat \X Nat) /\ IsFiniteSet(SourcePlaces)
  BY SourcePlacesFinite DEF SourcePlaces, ParsedInv
<1>2. IsFiniteSet(T) /\ Cardinality(T) \in Nat
  BY <1>1, FS_Subset, FS_CardinalityType
<1>3. D \subseteq T
  BY DeliveredFromSource DEF DeliveredPlaces
<1>4. Cardinality(D) = fidelity["omitted_tool_result_timestamps"]
  <2>1. \A p \in Placed : Origin(p)[1] = At(p).line
    BY DeliveredFromSource
  <2>2. origin \in [TimedPlaces -> D]
    BY <2>1 DEF TimedPlaces, DeliveredPlaces
  <2>3. \A d \in D : \E p \in TimedPlaces : origin[p] = d
    BY <2>1 DEF TimedPlaces, DeliveredPlaces
  <2>4. \A p, q \in TimedPlaces : origin[p] = origin[q] => p = q
    BY DEF ParsedInv, DeliveryInv, PlacedOnce, TimedPlaces
  <2>5. IsFiniteSet(TimedPlaces)
    <3>1. IsFiniteSet(Placed) /\ TimedPlaces \subseteq Placed
      BY DEF ParsedInv, TrafficInv, TimedPlaces
    <3> QED
      BY <3>1, FS_Subset
  <2> HIDE DEF origin, D
  <2>6. Cardinality(D) = Cardinality(TimedPlaces)
    BY <2>2, <2>3, <2>4, <2>5, SameSize
  <2> QED
    BY <2>6 DEF ParsedInv, TimesOK
<1>5. TimestampedResults = Cardinality(T)
  BY DEF TimestampedResults
<1>6. Cardinality(T) = 0 <=> T = {}
  BY <1>2, FS_EmptySet
<1>7. Cardinality(T) = Cardinality(D) <=> T \subseteq D
  BY <1>2, <1>3, FS_Subset
<1>8. \A p \in SourcePlaces : log[p[1]].timestamp \in {"absent", "valid", "invalid"}
  <2>1. ASSUME NEW p \in SourcePlaces PROVE log[p[1]].timestamp \in {"absent", "valid", "invalid"}
    <3> PICK n : n = p[1]
      OBVIOUS
    <3>1. n \in DOMAIN log /\ log \in Seq(FileLines)
      BY SourcePlacesFinite DEF SourcePlaces, ParsedInv, TypeInv, TypeOK, line_number
    <3>2. log[n] \in FileLines
      BY <3>1
    <3> QED
      BY <3>2 DEF FileLines, Line
  <2> QED
    BY <2>1
<1>9. T \subseteq D <=> \A p \in SourcePlaces :
                           /\ log[p[1]].timestamp # "invalid"
                           /\ log[p[1]].timestamp = "valid" => p \in DeliveredPlaces
  BY <1>8
<1>10. T = {} <=> \A p \in SourcePlaces : log[p[1]].timestamp = "absent"
  OBVIOUS
<1> QED
  BY <1>2, <1>4, <1>5, <1>6, <1>7, <1>9, <1>10

\* The calls of the source.
SourceUses == SourceBlocks("assistant", "tool_use")

\* A usable call of a turn is in the trajectory: at the step of its turn, after those that
\* come before it in the message.
StepAt(n) == CHOOSE i \in DOMAIN steps : steps[i].source_line = n

CallPlace(p) == <<StepAt(p[1]), Cardinality(UsableBefore(log[p[1]].blocks, p[2])) + 1>>

LEMMA UsedAreCalled ==
    ASSUME ParsedInv, pc = "done"
    PROVE  /\ Called = {p \in SourceUses : Converted(p[1]) /\ UsableCall(BlockAt(p))}
           /\ IsFiniteSet(SourceUses) /\ SourceUses \in SUBSET (Nat \X Nat)
           /\ IsFiniteSet(CallPlaces) /\ Cardinality(CallPlaces) = Cardinality(Called)
<1>1. /\ SourceUses \in SUBSET (Nat \X Nat) /\ IsFiniteSet(SourceUses)
      /\ \A p \in SourceUses : /\ p[1] \in 1 .. line_number /\ p[2] \in 1 .. MaxBlocks
                                /\ p[2] <= Len(log[p[1]].blocks)
  BY SourcePlacesFinite DEF SourceUses, ParsedInv
<1>2. Finished = 1 .. line_number /\ tool_calls = <<>>
  BY DEF Finished, ParsedInv, TypeInv, LocalsOK
<1>3. ASSUME NEW p \in SourceUses, Converted(p[1]), UsableCall(BlockAt(p))
      PROVE  p \in Called
  BY <1>1, <1>2, <1>3 DEF Called, Parsed, ParsedAt, SourceUses, SourceBlocks, BlockAt
<1>4. ASSUME NEW p \in Called
      PROVE  p \in SourceUses /\ Converted(p[1]) /\ UsableCall(BlockAt(p))
  <2> PICK n : n = p[1]
    OBVIOUS
  <2> PICK b : b = p[2]
    OBVIOUS
  <2>1. /\ p = <<n, b>> /\ n \in 1 .. line_number /\ b \in 1 .. MaxBlocks /\ b <= Len(log[n].blocks)
        /\ Converted(n) /\ log[n].role = "assistant"
        /\ log[n].blocks[b].kind = "tool_use" /\ UsableCall(log[n].blocks[b])
    BY DEF Called, Parsed, ParsedAt
  <2>2. log \in Seq(FileLines) /\ n \in DOMAIN log
    BY <2>1 DEF ParsedInv, TypeInv, TypeOK, line_number
  <2>3. log[n].blocks \in Seq(Block)
    <3>1. log[n] \in FileLines
      BY <2>2
    <3> QED
      BY <3>1, LineFields
  <2>4. b \in DOMAIN log[n].blocks
    BY <2>1, <2>3, BoundAssumption
  <2> QED
    BY <2>1, <2>2, <2>4 DEF SourceUses, SourceBlocks, BlockAt, Converted, Supported
<1>5. Cardinality(CallPlaces) = Cardinality(Called)
  <2>1. IsFiniteSet(CallPlaces) /\ Cardinality(CallPlaces) \in Nat
    BY FS_CardinalityType DEF ParsedInv, TrafficInv
  <2>2. Len(tool_calls) + Cardinality(CallPlaces) = Cardinality(Called)
    BY CallsCounted DEF ParsedInv, TrafficInv
  <2> QED
    BY <1>2, <2>1, <2>2
<1> QED
  BY <1>1, <1>3, <1>4, <1>5 DEF ParsedInv, TrafficInv

LEMMA CallsPlaced ==
    ASSUME ParsedInv, pc = "done", NEW p \in Called
    PROVE  LET i == StepAt(p[1])
               c == Cardinality(UsableBefore(log[p[1]].blocks, p[2])) + 1
           IN  /\ i \in DOMAIN steps /\ i \in Nat /\ steps[i].source_line = p[1]
               /\ c \in Nat /\ c \in DOMAIN steps[i].tool_calls
               /\ steps[i].tool_calls[c] = BlockAt(p).id
<1>1. PICK n, b : /\ p = <<n, b>> /\ n \in Nat /\ n \in Turns /\ b \in Nat
                  /\ b <= Len(log[n].blocks) /\ b >= 1 /\ n \in DOMAIN log
                  /\ log[n].role = "assistant" /\ log[n].blocks[b].kind = "tool_use" /\ UsableCall(log[n].blocks[b])
  BY BoundAssumption DEF Called, Parsed, ParsedAt, Turns, Finished, ParsedInv, TypeInv, TypeOK, line_number
<1>2. PICK i : i \in DOMAIN steps /\ i \in Nat /\ steps[i].source_line = n /\ i = StepAt(n)
  <2>1. \E i \in DOMAIN steps : steps[i].source_line = n
    BY <1>1 DEF ParsedInv, TurnsInv, OnlyResults
  <2>2. StepAt(n) \in DOMAIN steps /\ steps[StepAt(n)].source_line = n
    BY <2>1 DEF StepAt
  <2> QED
    BY <2>2, StepFields DEF ParsedInv
<1> PICK blocks : blocks = log[n].blocks
  OBVIOUS
<1> PICK calls : calls = steps[i].tool_calls
  OBVIOUS
<1>3. blocks \in Seq(Block)
  <2>1. log \in Seq(FileLines)
    BY DEF ParsedInv, TypeInv, TypeOK
  <2>2. log[n] \in FileLines
    BY <1>1, <2>1
  <2> QED
    BY <2>2, LineFields
<1>4. IdsInOrder(calls, blocks, Len(blocks) + 1)
  BY <1>1, <1>2 DEF ParsedInv, CallsInOrder
<1>5. b \in UsableBefore(blocks, Len(blocks) + 1) /\ Len(blocks) + 1 \in Nat
  BY <1>1, <1>3 DEF UsableBefore
<1>6. /\ Cardinality(UsableBefore(blocks, b)) \in Nat
      /\ Cardinality(UsableBefore(blocks, b)) < Len(calls)
      /\ calls[Cardinality(UsableBefore(blocks, b)) + 1] = blocks[b].id
  BY <1>3, <1>4, <1>5, CallRank DEF IdsInOrder
<1>7. calls \in Seq(CallIds)
  BY <1>2, StepFields DEF Step, ParsedInv
<1>8. Cardinality(UsableBefore(blocks, b)) + 1 \in DOMAIN calls
  BY <1>6, <1>7
<1> QED
  BY <1>1, <1>2, <1>6, <1>8 DEF BlockAt

\* The places of calls in the trajectory are in the order of those in the source.
LEMMA CallsFollowSource ==
    ASSUME ParsedInv, pc = "done", NEW p \in Called, NEW q \in Called, Precedes(p, q)
    PROVE  Precedes(CallPlace(p), CallPlace(q))
<1>1. /\ StepAt(p[1]) \in DOMAIN steps /\ StepAt(p[1]) \in Nat /\ steps[StepAt(p[1])].source_line = p[1]
      /\ StepAt(q[1]) \in DOMAIN steps /\ StepAt(q[1]) \in Nat /\ steps[StepAt(q[1])].source_line = q[1]
  BY CallsPlaced
<1>2. p[1] \in Nat /\ q[1] \in Nat /\ p[2] \in Nat /\ q[2] \in Nat
  BY DEF Called, Parsed
<1>3. CASE p[1] < q[1]
  <2> PICK i : i = StepAt(p[1])
    OBVIOUS
  <2> PICK j : j = StepAt(q[1])
    OBVIOUS
  <2>1. /\ i \in DOMAIN steps /\ i \in Nat /\ j \in DOMAIN steps /\ j \in Nat
        /\ steps[i].source_line < steps[j].source_line
        /\ steps[i].source_line \in Nat /\ steps[j].source_line \in Nat
    BY <1>1, <1>2, <1>3
  <2>2. i # j /\ ~(j < i)
    BY <2>1 DEF ParsedInv, TurnsInv
  <2>3. i < j
    BY <2>1, <2>2
  <2> QED
    BY <2>3 DEF Precedes, CallPlace
<1>4. CASE p[1] = q[1] /\ p[2] < q[2]
  <2> PICK blocks : blocks = log[p[1]].blocks
    OBVIOUS
  <2>1. blocks \in Seq(Block) /\ p[2] \in DOMAIN blocks
        /\ blocks[p[2]].kind = "tool_use" /\ UsableCall(blocks[p[2]])
    <3>1. log \in Seq(FileLines) /\ p[1] \in DOMAIN log
      BY UsedAreCalled, SourcePlacesFinite DEF SourceUses, ParsedInv, TypeInv, TypeOK, line_number
    <3>2. log[p[1]] \in FileLines
      BY <3>1
    <3> QED
      BY <3>2, LineFields, UsedAreCalled, SourcePlacesFinite
         DEF SourceUses, SourceBlocks, BlockAt, ParsedInv
  <2>2. p[2] \in UsableBefore(blocks, q[2])
    BY <1>4, <2>1 DEF UsableBefore
  <2>3. /\ Cardinality(UsableBefore(blocks, p[2])) \in Nat
        /\ Cardinality(UsableBefore(blocks, q[2])) \in Nat
        /\ Cardinality(UsableBefore(blocks, p[2])) < Cardinality(UsableBefore(blocks, q[2]))
    BY <1>2, <2>1, <2>2, CallRank
  <2> QED
    BY <1>4, <2>3 DEF Precedes, CallPlace
<1> QED
  BY <1>3, <1>4 DEF Precedes

\* The calls agree exactly if the parser came to every call of the source and could use it.
LEMMA CallsFound ==
    ASSUME ParsedInv, pc = "done"
    PROVE  /\ DOMAIN SourceCalls = 1 .. Cardinality(SourceUses) /\ Cardinality(SourceUses) \in Nat
           /\ DOMAIN Document.calls = 1 .. Cardinality(Called) /\ Cardinality(Called) \in Nat
           /\ Cardinality(Called) <= Cardinality(SourceUses)
           /\ SourceCalls = Document.calls <=> SourceUses = Called
<1>1. /\ IsFiniteSet(SourceUses) /\ SourceUses \in SUBSET (Nat \X Nat)
      /\ IsFiniteSet(CallPlaces) /\ Cardinality(CallPlaces) = Cardinality(Called)
      /\ Called \subseteq SourceUses
  BY UsedAreCalled
<1>2. CallPlaces \in SUBSET (Nat \X Nat)
  <2>1. ASSUME NEW p \in CallPlaces PROVE p \in Nat \X Nat
    <3>1. PICK i \in DOMAIN steps : p \in {i} \X DOMAIN steps[i].tool_calls
      BY DEF CallPlaces
    <3>2. i \in Nat /\ steps[i].tool_calls \in Seq(CallIds)
      BY StepFields DEF Step, ParsedInv
    <3> QED
      BY <3>1, <3>2
  <2> QED
    BY <2>1
<1>3. /\ Cardinality(SourceUses) \in Nat /\ DOMAIN InOrder(SourceUses) = 1 .. Cardinality(SourceUses)
      /\ Cardinality(Called) \in Nat /\ DOMAIN InOrder(CallPlaces) = 1 .. Cardinality(Called)
      /\ \A k \in 1 .. Cardinality(SourceUses) : InOrder(SourceUses)[k] \in SourceUses
  BY <1>1, <1>2, ListedInOrder
<1>4. /\ Cardinality(Called) <= Cardinality(SourceUses)
      /\ Called # SourceUses => Cardinality(Called) < Cardinality(SourceUses)
  BY <1>1, <1>3, FS_Subset
<1>5. /\ SourceCalls = [k \in 1 .. Cardinality(SourceUses) |-> BlockAt(InOrder(SourceUses)[k]).id]
      /\ Document.calls = [k \in 1 .. Cardinality(Called) |->
                             steps[InOrder(CallPlaces)[k][1]].tool_calls[InOrder(CallPlaces)[k][2]]]
  BY <1>3 DEF SourceCalls, SourceUses, Document
<1>6. ASSUME SourceUses # Called PROVE SourceCalls # Document.calls
  <2>1. DOMAIN SourceCalls # DOMAIN Document.calls
    BY <1>3, <1>4, <1>5, <1>6
  <2> QED
    BY <2>1
<1>7. ASSUME SourceUses = Called PROVE SourceCalls = Document.calls
  <2> DEFINE place == [p \in SourceUses |-> CallPlace(p)]
  <2>1. ASSUME NEW p \in SourceUses
        PROVE  /\ CallPlace(p) \in CallPlaces
               /\ steps[CallPlace(p)[1]].tool_calls[CallPlace(p)[2]] = BlockAt(p).id
    BY <1>7, CallsPlaced DEF CallPlace, CallPlaces
  <2>2. place \in [SourceUses -> CallPlaces]
    BY <2>1
  <2>3. \A p, q \in SourceUses : Precedes(p, q) => Precedes(place[p], place[q])
    BY <1>7, CallsFollowSource
  <2>4. \A k \in 1 .. Cardinality(SourceUses) : InOrder(CallPlaces)[k] = place[InOrder(SourceUses)[k]]
    <3> HIDE DEF place
    <3> QED
      BY <1>1, <1>2, <1>7, <2>2, <2>3, SameOrder
  <2>5. \A k \in 1 .. Cardinality(SourceUses) :
           steps[InOrder(CallPlaces)[k][1]].tool_calls[InOrder(CallPlaces)[k][2]]
             = BlockAt(InOrder(SourceUses)[k]).id
    BY <1>3, <2>1, <2>4
  <2> QED
    BY <1>5, <1>7, <2>5
<1> QED
  BY <1>3, <1>4, <1>5, <1>6, <1>7

-----------------------------------------------------------------------------
(***************************************************************************)
(* Rejections have reasons, and alterations are rejected.                  *)
(***************************************************************************)

\* When a finding is a conflict.
LEMMA Conflicts ==
    ASSUME VerifierInv, Verified
    PROVE  /\ pc = "done" /\ Altered(mutation, candidate)
           /\ Conflict("tool_calls") <=> SourceCalls # candidate.calls
           /\ Conflict("tool_result_correlation") <=> ExpectedResults # ActualResults
           /\ Conflict("fidelity_accounting") <=>
                 ExpectedFidelity # [c \in ExpectedCounters |-> candidate.fidelity[c]]
           /\ Conflict("tool_result_timestamps") <=>
                 /\ TimestampedResults # 0
                 /\ TimestampedResults # candidate.fidelity["omitted_tool_result_timestamps"]
           /\ {"tool_calls", "tool_result_correlation", "fidelity_accounting"} \subseteq DOMAIN findings
<1>1. pc = "done" /\ Altered(mutation, candidate) /\ findings = VerifyDocument
  BY DEF VerifierInv, CandidateOK, Verified
<1>2. /\ findings.tool_calls = Match(SourceCalls, candidate.calls, "PRESERVED")
      /\ findings.tool_result_correlation = Match(ExpectedResults, ActualResults, "NORMALIZED")
      /\ findings.fidelity_accounting =
            Match(ExpectedFidelity, [c \in ExpectedCounters |-> candidate.fidelity[c]], "PRESERVED")
      /\ findings.tool_result_timestamps = TimestampFinding
      /\ {"tool_calls", "tool_result_correlation", "fidelity_accounting"} \subseteq DOMAIN findings
  BY <1>1 DEF VerifyDocument
<1>3. TimestampFinding = "CONFLICT" <=>
         /\ TimestampedResults # 0
         /\ TimestampedResults # candidate.fidelity["omitted_tool_result_timestamps"]
  BY DEF TimestampFinding, Match
<1> QED
  BY <1>1, <1>2, <1>3 DEF Conflict, Match

LEMMA ReasonsGiven ==
    ASSUME VerifierInv
    PROVE  RejectionsHaveAReason
<1> SUFFICES ASSUME Verified, mutation = "none"
             PROVE  /\ Conflict("tool_calls") <=>
                          \E p \in SourceBlocks("assistant", "tool_use") :
                              ~Converted(p[1]) \/ ~UsableCall(BlockAt(p))
                    /\ Conflict("tool_result_timestamps") <=>
                          /\ \E p \in SourcePlaces : log[p[1]].timestamp # "absent"
                          /\ \E p \in SourcePlaces :
                                \/ log[p[1]].timestamp = "invalid"
                                \/ log[p[1]].timestamp = "valid" /\ p \notin DeliveredPlaces
                    /\ AnsweredOnce =>
                          (Conflict("tool_result_correlation") <=> SourcePlaces # DeliveredPlaces)
  BY DEF RejectionsHaveAReason
<1>1. pc = "done" /\ ParsedInv
  BY Conflicts DEF VerifierInv
<1>2. candidate = Document
  <2>1. Altered("none", candidate)
    BY Conflicts
  <2> QED
    BY <2>1 DEF Altered
<1>3. Conflict("tool_calls") <=>
         \E p \in SourceBlocks("assistant", "tool_use") : ~Converted(p[1]) \/ ~UsableCall(BlockAt(p))
  <2>1. Conflict("tool_calls") <=> SourceUses # Called
    BY <1>1, <1>2, Conflicts, CallsFound
  <2> QED
    BY <1>1, <2>1, UsedAreCalled DEF SourceUses
<1>4. Conflict("tool_result_timestamps") <=>
         /\ \E p \in SourcePlaces : log[p[1]].timestamp # "absent"
         /\ \E p \in SourcePlaces :
               \/ log[p[1]].timestamp = "invalid"
               \/ log[p[1]].timestamp = "valid" /\ p \notin DeliveredPlaces
  <2>1. candidate.fidelity = fidelity
    BY <1>2 DEF Document
  <2> QED
    BY <1>1, <2>1, Conflicts, TimesFound
<1>5. AnsweredOnce => (Conflict("tool_result_correlation") <=> SourcePlaces # DeliveredPlaces)
  BY <1>1, <1>2, Conflicts, CorrelationFound
<1> QED
  BY <1>3, <1>4, <1>5

\* The verifier rejects what the parser wrote only for a reason that is in the file, and
\* for each such reason it does (RejectionsHaveAReason).
THEOREM RejectionsExplained == VerifierSpec => []RejectionsHaveAReason
BY VerifierInvariance, ReasonsGiven, PTL

\* A list less one.
LEMMA Removed ==
    ASSUME NEW T, NEW s \in Seq(T), NEW k \in 1 .. Len(s)
    PROVE  /\ DOMAIN RemoveAt(s, k) = 1 .. Len(s) - 1
           /\ \A j \in 1 .. Len(s) - 1 : RemoveAt(s, k)[j] = IF j < k THEN s[j] ELSE s[j + 1]
<1> DEFINE a == SubSeq(s, 1, k - 1)
           b == SubSeq(s, k + 1, Len(s))
<1>1. /\ a \in Seq(T) /\ Len(a) = k - 1
      /\ \A j \in 1 .. k - 1 : a[j] = s[j]
  OBVIOUS
<1>2. /\ b \in Seq(T) /\ Len(b) = Len(s) - k
      /\ \A j \in 1 .. Len(s) - k : b[j] = s[k + j]
  OBVIOUS
<1>3. RemoveAt(s, k) = a \o b
  BY DEF RemoveAt
<1> HIDE DEF a, b
<1>4. /\ a \o b \in Seq(T) /\ Len(a \o b) = Len(a) + Len(b)
      /\ \A j \in 1 .. Len(a) + Len(b) :
            (a \o b)[j] = IF j <= Len(a) THEN a[j] ELSE b[j - Len(a)]
  BY <1>1, <1>2, ConcatProperties
<1>5. Len(a) + Len(b) = Len(s) - 1
  BY <1>1, <1>2
<1>6. DOMAIN (a \o b) = 1 .. Len(s) - 1
  BY <1>4, <1>5
<1>7. ASSUME NEW j \in 1 .. Len(s) - 1
      PROVE  (a \o b)[j] = IF j < k THEN s[j] ELSE s[j + 1]
  <2> PICK i : i = j - Len(a)
    OBVIOUS
  <2>1. CASE j < k
    BY <1>1, <1>4, <1>5, <2>1
  <2>2. CASE ~(j < k)
    <3>1. ~(j <= Len(a)) /\ i \in 1 .. Len(s) - k /\ k + i = j + 1
      BY <1>1, <1>2, <2>2
    <3>2. (a \o b)[j] = b[i]
      BY <1>4, <1>5, <3>1
    <3> QED
      BY <1>2, <2>2, <3>1, <3>2
  <2> QED
    BY <2>1, <2>2
<1> QED
  BY <1>3, <1>6, <1>7

\* A list with one of its entries twice.
LEMMA Doubled ==
    ASSUME NEW T, NEW s \in Seq(T), NEW k \in 1 .. Len(s)
    PROVE  LET t == InsertAt(s, k, s[k])
           IN  DOMAIN t = 1 .. Len(s) + 1 /\ t[k] = s[k] /\ t[k + 1] = s[k]
<1> DEFINE a == SubSeq(s, 1, k - 1)
           b == SubSeq(s, k, Len(s))
           c == <<s[k]>>
<1>1. a \in Seq(T) /\ Len(a) = k - 1
  OBVIOUS
<1>2. b \in Seq(T) /\ Len(b) = Len(s) - k + 1 /\ b[1] = s[k]
  OBVIOUS
<1>3. c \in Seq(T) /\ Len(c) = 1 /\ c[1] = s[k]
  OBVIOUS
<1>4. InsertAt(s, k, s[k]) = (a \o c) \o b
  BY DEF InsertAt
<1> HIDE DEF a, b, c
<1>5. a \o c \in Seq(T) /\ Len(a \o c) = k /\ (a \o c)[k] = s[k]
  <2>1. /\ a \o c \in Seq(T) /\ Len(a \o c) = Len(a) + Len(c)
        /\ \A j \in 1 .. Len(a) + Len(c) : (a \o c)[j] = IF j <= Len(a) THEN a[j] ELSE c[j - Len(a)]
    BY <1>1, <1>3, ConcatProperties
  <2>2. k \in 1 .. Len(a) + Len(c) /\ ~(k <= Len(a)) /\ k - Len(a) = 1 /\ Len(a) + Len(c) = k
    BY <1>1, <1>3
  <2> QED
    BY <1>3, <2>1, <2>2
<1>6. PICK d : d = a \o c
  OBVIOUS
<1>7. d \in Seq(T) /\ Len(d) = k /\ d[k] = s[k]
  BY <1>6, <1>5
<1>8. /\ d \o b \in Seq(T) /\ Len(d \o b) = Len(d) + Len(b)
      /\ \A j \in 1 .. Len(d) + Len(b) : (d \o b)[j] = IF j <= Len(d) THEN d[j] ELSE b[j - Len(d)]
  BY <1>2, <1>7, ConcatProperties
<1>9. /\ Len(d) + Len(b) = Len(s) + 1
      /\ k \in 1 .. Len(d) + Len(b) /\ k <= Len(d)
      /\ k + 1 \in 1 .. Len(d) + Len(b) /\ ~(k + 1 <= Len(d)) /\ k + 1 - Len(d) = 1
  BY <1>2, <1>7
<1>10. DOMAIN (d \o b) = 1 .. Len(s) + 1
  BY <1>8, <1>9
<1>11. (d \o b)[k] = s[k] /\ (d \o b)[k + 1] = s[k]
  BY <1>2, <1>7, <1>8, <1>9
<1> QED
  BY <1>6, <1>4, <1>10, <1>11

\* What the oracle expects for a result of the document.
LEMMA Delivery ==
    ASSUME ParsedInv, AnsweredOnce
    PROVE  LET R == Document.results IN
           /\ R \in Seq([source_call_id : CallIds, content : SourcePlaces])
           /\ \A k \in 1 .. Len(R) :
                 /\ R[k] \in [source_call_id : CallIds, content : SourcePlaces]
                 /\ R[k].source_call_id \in DOMAIN ExpectedResults
                 /\ ExpectedResults[R[k].source_call_id] = <<R[k].content>>
                 /\ R[k].source_call_id = BlockAt(R[k].content).id
           /\ \A j, k \in 1 .. Len(R) : R[j].source_call_id = R[k].source_call_id => j = k
<1> DEFINE R == Document.results
<1>1. /\ R \in Seq([source_call_id : CallIds, content : SourcePlaces]) /\ DOMAIN R = 1 .. Len(R)
      /\ \A k \in DOMAIN R : R[k].content \in DeliveredPlaces /\ R[k].source_call_id = BlockAt(R[k].content).id
  BY DocumentResultsListed
<1>2. /\ DeliveredPlaces \subseteq SourcePlaces
      /\ \A j, k \in DOMAIN R : R[j].source_call_id = R[k].source_call_id => j = k
  BY DocumentAnswers
<1>3. /\ DOMAIN ExpectedResults = {BlockAt(p).id : p \in SourcePlaces}
      /\ \A p \in SourcePlaces : ExpectedResults[BlockAt(p).id] = <<p>>
  BY Expected DEF ParsedInv
<1> HIDE DEF R
<1>4. \A k \in 1 .. Len(R) : R[k] \in [source_call_id : CallIds, content : SourcePlaces]
  <2>1. PICK T : T = [source_call_id : CallIds, content : SourcePlaces]
    OBVIOUS
  <2>2. R \in Seq(T)
    BY <1>1, <2>1
  <2>3. \A k \in 1 .. Len(R) : R[k] \in T
    BY <2>2, ElementOfSeq
  <2> QED
    BY <2>1, <2>3
<1>5. \A k \in 1 .. Len(R) :
         /\ R[k].source_call_id \in DOMAIN ExpectedResults
         /\ ExpectedResults[R[k].source_call_id] = <<R[k].content>>
         /\ R[k].source_call_id = BlockAt(R[k].content).id
  BY <1>1, <1>2, <1>3
<1>6. \A j, k \in 1 .. Len(R) : R[j].source_call_id = R[k].source_call_id => j = k
  BY <1>1, <1>2
<1>7. R \in Seq([source_call_id : CallIds, content : SourcePlaces])
  BY <1>1
<1> QED
  BY <1>4, <1>5, <1>6, <1>7 DEF R

\* A result that is lost is missed.
LEMMA LossSeen ==
    ASSUME ParsedInv, AnsweredOnce, NEW k \in DOMAIN Document.results,
           candidate.results = RemoveAt(Document.results, k)
    PROVE  ExpectedResults # ActualResults
<1> DEFINE R == Document.results
           id == R[k].source_call_id
<1>1. /\ R \in Seq([source_call_id : CallIds, content : SourcePlaces]) /\ k \in 1 .. Len(R)
      /\ id \in DOMAIN ExpectedResults
      /\ \A j, i \in 1 .. Len(R) : R[j].source_call_id = R[i].source_call_id => j = i
  BY Delivery
<1> HIDE DEF R
<1>2. ASSUME NEW j \in DOMAIN candidate.results PROVE candidate.results[j].source_call_id # id
  <2>1. j \in 1 .. Len(R) - 1 /\ candidate.results[j] = IF j < k THEN R[j] ELSE R[j + 1]
    BY <1>1, Removed DEF R
  <2>2. j \in 1 .. Len(R) /\ j + 1 \in 1 .. Len(R) /\ (j < k => j # k) /\ (~(j < k) => j + 1 # k)
    BY <1>1, <2>1
  <2> QED
    BY <1>1, <2>1, <2>2
<1>3. id \notin Ids(candidate.results)
  BY <1>2 DEF Ids
<1> QED
  BY <1>1, <1>3 DEF ActualResults

\* One that is there twice is seen twice.
LEMMA DoubleSeen ==
    ASSUME ParsedInv, AnsweredOnce, NEW k \in DOMAIN Document.results,
           candidate.results = InsertAt(Document.results, k, Document.results[k])
    PROVE  ExpectedResults # ActualResults
<1> DEFINE R == Document.results
           id == R[k].source_call_id
           mine == {j \in DOMAIN candidate.results : candidate.results[j].source_call_id = id}
<1>1. /\ R \in Seq([source_call_id : CallIds, content : SourcePlaces]) /\ k \in 1 .. Len(R)
      /\ ExpectedResults[id] = <<R[k].content>> /\ R[k] \in [source_call_id : CallIds, content : SourcePlaces]
  BY Delivery
<1>2. id \in CallIds
  BY <1>1
<1> HIDE DEF R
<1>3. /\ DOMAIN candidate.results = 1 .. Len(R) + 1
      /\ candidate.results[k] = R[k] /\ candidate.results[k + 1] = R[k]
  BY <1>1, Doubled DEF R
<1>4. k \in mine /\ k + 1 \in mine /\ k # k + 1
  BY <1>1, <1>3
<1>5. IsFiniteSet(mine) /\ Cardinality(mine) \in Nat
  <2>1. 1 \in Int /\ Len(R) + 1 \in Int
    BY <1>1
  <2>2. IsFiniteSet(1 .. Len(R) + 1) /\ mine \subseteq 1 .. Len(R) + 1
    BY <1>3, <2>1, FS_Interval
  <2> QED
    BY <2>2, FS_Subset, FS_CardinalityType
<1>6. id \in DOMAIN ActualResults /\ ActualResults[id] = ContentsOf(candidate.results, id)
  BY <1>2, <1>4, SentinelAssumption DEF ActualResults, Ids
<1>7. DOMAIN ContentsOf(candidate.results, id) = 1 .. Cardinality(mine)
  BY DEF ContentsOf
<1>8. 1 .. Cardinality(mine) # {1}
  <2>1. \A m : mine # {m}
    BY <1>4
  <2> HIDE DEF mine
  <2>2. Cardinality(mine) # 1
    BY <1>5, <2>1, FS_Singleton
  <2>3. Cardinality(mine) = 0 \/ 2 \in 1 .. Cardinality(mine)
    BY <1>5, <2>2
  <2> QED
    BY <2>3
<1>9. DOMAIN <<R[k].content>> = {1}
  OBVIOUS
<1> HIDE DEF mine, id
<1> QED
  BY <1>1, <1>6, <1>7, <1>8, <1>9

\* One under another id is missed under its own.
LEMMA WrongIdSeen ==
    ASSUME ParsedInv, AnsweredOnce, NEW k \in DOMAIN Document.results,
           NEW other \in CallIds \ {Document.results[k].source_call_id},
           candidate.results = [Document.results EXCEPT ![k].source_call_id = other]
    PROVE  ExpectedResults # ActualResults
<1> DEFINE R == Document.results
           id == R[k].source_call_id
<1>1. /\ R \in Seq([source_call_id : CallIds, content : SourcePlaces]) /\ k \in 1 .. Len(R)
      /\ id \in DOMAIN ExpectedResults
      /\ \A j, i \in 1 .. Len(R) : R[j].source_call_id = R[i].source_call_id => j = i
  BY Delivery
<1> HIDE DEF R
<1>2. ASSUME NEW j \in DOMAIN candidate.results PROVE candidate.results[j].source_call_id # id
  <2>1. candidate.results = [R EXCEPT ![k] = [R[k] EXCEPT !.source_call_id = other]] /\ DOMAIN R = 1 .. Len(R)
    BY <1>1 DEF R
  <2>2. j \in 1 .. Len(R) /\ (j # k => candidate.results[j] = R[j])
    BY <1>1, <2>1
  <2>3. candidate.results[k].source_call_id = other
    <3>1. R[k] \in [source_call_id : CallIds, content : SourcePlaces]
      BY Delivery DEF R
    <3> QED
      BY <1>1, <2>1, <3>1
  <2> QED
    BY <1>1, <2>2, <2>3 DEF R
<1>3. id \notin Ids(candidate.results)
  BY <1>2 DEF Ids
<1> QED
  BY <1>1, <1>3 DEF ActualResults

\* Contents that are exchanged are both in the wrong place.
LEMMA SwapSeen ==
    ASSUME ParsedInv, AnsweredOnce, NEW j \in DOMAIN Document.results, NEW k \in DOMAIN Document.results,
           Document.results[j].source_call_id # Document.results[k].source_call_id,
           candidate.results = [Document.results EXCEPT ![j].content = Document.results[k].content,
                                                        ![k].content = Document.results[j].content]
    PROVE  ExpectedResults # ActualResults
<1> DEFINE R == Document.results
           C == candidate.results
           id == R[j].source_call_id
<1>1. /\ R \in Seq([source_call_id : CallIds, content : SourcePlaces])
      /\ j \in 1 .. Len(R) /\ k \in 1 .. Len(R) /\ DOMAIN R = 1 .. Len(R) /\ Len(R) \in Nat
      /\ ExpectedResults[id] = <<R[j].content>> /\ id \in CallIds /\ id # R[k].source_call_id
      /\ id = BlockAt(R[j].content).id /\ R[k].source_call_id = BlockAt(R[k].content).id
  BY Delivery
<1>2. \A i \in 1 .. Len(R) : R[i] \in [source_call_id : CallIds, content : SourcePlaces]
  BY Delivery
<1>3. \A i, m \in 1 .. Len(R) : R[i].source_call_id = R[m].source_call_id => i = m
  BY Delivery
<1>4. C = [R EXCEPT ![j] = [R[j] EXCEPT !.content = R[k].content],
                    ![k] = [R[k] EXCEPT !.content = R[j].content]]
  <2>1. j # k
    OBVIOUS
  <2> QED
    BY <2>1
<1> HIDE DEF R, C, id
<1>5. j # k /\ R[j].content # R[k].content
  BY <1>1 DEF id
<1>6. /\ DOMAIN C = 1 .. Len(R)
      /\ C[j] = [R[j] EXCEPT !.content = R[k].content] /\ C[k] = [R[k] EXCEPT !.content = R[j].content]
      /\ \A i \in 1 .. Len(R) \ {j, k} : C[i] = R[i]
  BY <1>1, <1>4, <1>5
<1>7. C[j].source_call_id = id /\ C[k].source_call_id = R[k].source_call_id /\ C[j].content = R[k].content
  BY <1>1, <1>2, <1>6 DEF id
<1>8. \A i \in 1 .. Len(R) : C[i].source_call_id = R[i].source_call_id
  BY <1>6, <1>7 DEF id
<1>9. \A i \in 1 .. Len(R) : C[i].source_call_id = C[j].source_call_id => i = j
  BY <1>1, <1>3, <1>8
<1>10. ContentsOf(C, C[j].source_call_id) = <<C[j].content>>
  <2>1. PICK n \in Nat : n = Len(R)
    BY <1>1
  <2>2. DOMAIN C = 1 .. n /\ j \in 1 .. n
    BY <1>1, <1>6, <2>1
  <2>3. \A i \in 1 .. n : C[i].source_call_id = C[j].source_call_id => i = j
    BY <1>9, <2>1
  <2> QED
    BY <2>2, <2>3, SingleContent
<1>11. id \in Ids(C) \ {NoCallId} /\ ActualResults[id] = <<R[k].content>>
  <2>1. j \in DOMAIN C /\ C[j].source_call_id = id /\ id # NoCallId
    BY <1>1, <1>6, <1>7, SentinelAssumption
  <2>2. id \in Ids(C) \ {NoCallId}
    BY <2>1 DEF Ids
  <2>3. ActualResults = [i \in Ids(C) \ {NoCallId} |-> ContentsOf(C, i)]
    BY DEF ActualResults, C
  <2> QED
    BY <1>7, <1>10, <2>2, <2>3
<1> QED
  BY <1>1, <1>5, <1>11

\* A document with a call less has less of them than the source.
LEMMA MissingCallSeen ==
    ASSUME ParsedInv, pc = "done", NEW k \in DOMAIN Document.calls,
           candidate.calls = RemoveAt(Document.calls, k)
    PROVE  SourceCalls # candidate.calls
<1> DEFINE c == Document.calls
           n == Cardinality(Called)
           T == {c[i] : i \in 1 .. n}
<1>1. /\ DOMAIN SourceCalls = 1 .. Cardinality(SourceUses) /\ Cardinality(SourceUses) \in Nat
      /\ DOMAIN c = 1 .. n /\ n \in Nat /\ n <= Cardinality(SourceUses)
  BY CallsFound
<1>2. c = [i \in 1 .. n |-> c[i]]
  BY <1>1 DEF Document
<1>3. c \in Seq(T) /\ Len(c) = n
  <2> HIDE DEF c, n
  <2>1. c \in [1 .. n -> T]
    BY <1>2
  <2>2. c \in Seq(T)
    BY <1>1, <2>1
  <2> QED
    BY <1>1, <2>1, <2>2
<1> HIDE DEF T
<1>4. DOMAIN candidate.calls = 1 .. n - 1
  BY <1>1, <1>3, Removed
<1>5. n \in 1 .. Cardinality(SourceUses) /\ n \notin 1 .. n - 1
  BY <1>1
<1> QED
  BY <1>1, <1>4, <1>5

\* A counter that is set to zero differs from the parser's.
LEMMA FalseCountSeen ==
    ASSUME ParsedInv, pc = "done", NEW c \in ExpectedCounters, Document.fidelity[c] > 0,
           candidate.fidelity = [Document.fidelity EXCEPT ![c] = 0]
    PROVE  ExpectedFidelity # [d \in ExpectedCounters |-> candidate.fidelity[d]]
<1>1. Document.fidelity = fidelity
  BY DEF Document
<1>2. ExpectedFidelity[c] = fidelity[c]
  BY RejectedAreUnsupported DEF ExpectedFidelity
<1>3. c \in DOMAIN fidelity
  BY DEF ParsedInv, TypeInv, TypeOK, Counters, ExpectedCounters
<1>4. candidate.fidelity[c] = 0 /\ fidelity[c] > 0
  BY <1>1, <1>3
<1> QED
  BY <1>2, <1>4

LEMMA MutationsSeen ==
    ASSUME VerifierInv
    PROVE  MutationsRejected
<1> SUFFICES ASSUME Verified, AnsweredOnce, mutation # "none"
             PROVE  \E name \in DOMAIN findings : Conflict(name)
  BY DEF MutationsRejected
<1>1. pc = "done" /\ ParsedInv /\ Altered(mutation, candidate)
  BY Conflicts DEF VerifierInv
<1>2. \/ mutation = "lost_result" \/ mutation = "duplicate_result" \/ mutation = "wrong_call_id"
      \/ mutation = "swapped_results" \/ mutation = "missing_call" \/ mutation = "false_fidelity"
  BY <1>1 DEF Altered
<1>3. ASSUME ExpectedResults # ActualResults PROVE \E name \in DOMAIN findings : Conflict(name)
  BY <1>3, Conflicts
<1>4. /\ \A r : [Document EXCEPT !.results = r].results = r
      /\ \A c : [Document EXCEPT !.calls = c].calls = c
      /\ \A f : [Document EXCEPT !.fidelity = f].fidelity = f
  BY DEF Document
<1>5. CASE mutation = "lost_result"
  <2>1. Altered("lost_result", candidate)
    BY <1>1, <1>5
  <2>2. PICK k \in DOMAIN Document.results :
           candidate = [Document EXCEPT !.results = RemoveAt(@, k)]
    BY <2>1 DEF Altered
  <2>3. candidate.results = RemoveAt(Document.results, k)
    BY <1>4, <2>2
  <2> QED
    BY <1>1, <1>3, <2>3, LossSeen
<1>6. CASE mutation = "duplicate_result"
  <2>1. Altered("duplicate_result", candidate)
    BY <1>1, <1>6
  <2>2. PICK k \in DOMAIN Document.results :
           candidate = [Document EXCEPT !.results = InsertAt(@, k, @[k])]
    BY <2>1 DEF Altered
  <2>3. candidate.results = InsertAt(Document.results, k, Document.results[k])
    BY <1>4, <2>2
  <2> QED
    BY <1>1, <1>3, <2>3, DoubleSeen
<1>7. CASE mutation = "wrong_call_id"
  <2>1. Altered("wrong_call_id", candidate)
    BY <1>1, <1>7
  <2>2. PICK k \in DOMAIN Document.results :
           \E id \in CallIds \ {Document.results[k].source_call_id} :
              candidate = [Document EXCEPT !.results = [@ EXCEPT ![k].source_call_id = id]]
    BY <2>1 DEF Altered
  <2>3. PICK id \in CallIds \ {Document.results[k].source_call_id} :
           candidate.results = [Document.results EXCEPT ![k].source_call_id = id]
    BY <1>4, <2>2
  <2> QED
    BY <1>1, <1>3, <2>3, WrongIdSeen
<1>8. CASE mutation = "swapped_results"
  <2>1. Altered("swapped_results", candidate)
    BY <1>1, <1>8
  <2>2. PICK j \in DOMAIN Document.results, k \in DOMAIN Document.results :
           /\ Document.results[j].source_call_id # Document.results[k].source_call_id
           /\ candidate = [Document EXCEPT !.results =
                               [@ EXCEPT ![j].content = Document.results[k].content,
                                         ![k].content = Document.results[j].content]]
    BY <2>1 DEF Altered
  <2>3. candidate.results = [Document.results EXCEPT ![j].content = Document.results[k].content,
                                                     ![k].content = Document.results[j].content]
    BY <1>4, <2>2
  <2> QED
    BY <1>1, <1>3, <2>2, <2>3, SwapSeen
<1>9. CASE mutation = "missing_call"
  <2>1. Altered("missing_call", candidate)
    BY <1>1, <1>9
  <2>2. PICK k \in DOMAIN Document.calls : candidate = [Document EXCEPT !.calls = RemoveAt(@, k)]
    BY <2>1 DEF Altered
  <2>3. candidate.calls = RemoveAt(Document.calls, k)
    BY <1>4, <2>2
  <2>4. SourceCalls # candidate.calls
    BY <1>1, <2>3, MissingCallSeen
  <2> QED
    BY <2>4, Conflicts
<1>10. CASE mutation = "false_fidelity"
  <2>1. Altered("false_fidelity", candidate)
    BY <1>1, <1>10
  <2>2. PICK c \in ExpectedCounters :
           /\ Document.fidelity[c] > 0
           /\ candidate = [Document EXCEPT !.fidelity[c] = 0]
    BY <2>1 DEF Altered
  <2>3. candidate.fidelity = [Document.fidelity EXCEPT ![c] = 0]
    BY <2>2 DEF Document
  <2>4. ExpectedFidelity # [d \in ExpectedCounters |-> candidate.fidelity[d]]
    BY <1>1, <2>2, <2>3, FalseCountSeen
  <2> QED
    BY <2>4, Conflicts
<1> QED
  BY <1>2, <1>5, <1>6, <1>7, <1>8, <1>9, <1>10

\* No altered document is accepted, where each id is answered once (MutationsRejected).
THEOREM AlterationsRejected == VerifierSpec => []MutationsRejected
BY VerifierInvariance, MutationsSeen, PTL
=============================================================================
