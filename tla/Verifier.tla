------------------------------- MODULE Verifier -------------------------------
(***************************************************************************)
(* The interoperability verifier of src/interoperability: reproduce.py     *)
(* writes the trajectory of the parser to a candidate document, something  *)
(* may alter the document, as the negative controls of the tests do, and   *)
(* verifier.py reads the source on its own, decides again what in it is a  *)
(* call, a result and an unsupported record, and compares.                 *)
(*                                                                         *)
(* The oracle is taken to be true to the source: its calls, results and    *)
(* records are those that the verifier finds there, and the counts of its  *)
(* policy are what the parser had to report.  The findings that compare    *)
(* the oracle with the source then agree and are left out, with those that *)
(* compare it with the output's step roles, step timestamps, step texts    *)
(* and session id, and those on redaction and on the one ignored field: an *)
(* alteration of the steps themselves is not one of the model's.  The      *)
(* implementation is "asb".  The content of a result is told by where it   *)
(* was read, a call by its id, and an invalid time is one that Python      *)
(* takes for true.                                                         *)
(***************************************************************************)
EXTENDS ClaudeParserProperties, SequencesExt

VARIABLES
    stage,      \* "parsing", "candidate", "verified"
    candidate,  \* the calls, results and report of the document, in its order
    mutation,   \* how the document was altered, if it was
    findings    \* the state of each finding

verification == <<stage, candidate, mutation, findings>>
verifierVars == <<vars, verification>>

-----------------------------------------------------------------------------
BlockAt(place) == log[place[1]].blocks[place[2]]

\* _content_blocks(record, role): the blocks of a kind in the messages of a role, as
\* places <<line, item>>.  Neither the type nor the shape of a record matters, beyond
\* that it has a message of the role.
SourceBlocks(role, kind) ==
    {place \in UNION {{n} \X DOMAIN log[n].blocks : n \in DOMAIN log} :
        /\ log[place[1]].shape = "object" /\ log[place[1]].message
        /\ log[place[1]].role = role
        /\ BlockAt(place).kind = kind}

SourcePlaces == SourceBlocks("user", "tool_result")

SourceCalls ==
    LET calls == InOrder(SourceBlocks("assistant", "tool_use"))
    IN  [k \in DOMAIN calls |-> BlockAt(calls[k]).id]

SourceResults ==
    LET results == InOrder(SourcePlaces)
    IN  [k \in DOMAIN results |->
            [source_call_id |-> BlockAt(results[k]).id, content |-> results[k]]]

Slip_UnsupportedRecords ==
    {n \in DOMAIN log : log[n].shape # "object" \/ log[n].type \notin SupportedTypes
                        \/ ~log[n].message}

\* _unsupported_source_record_descriptors, by position.
UnsupportedRecords ==
    {n \in DOMAIN log : log[n].shape # "object" \/ log[n].type \notin SupportedTypes
                        \/ ~log[n].message \/ log[n].role \notin SupportedTypes}

Slip_TimestampedResults == Cardinality(SourcePlaces)

\* The count of _tool_result_timestamp_finding.
TimestampedResults ==
    Cardinality({p \in SourcePlaces : log[p[1]].timestamp # "absent"})

-----------------------------------------------------------------------------
Ids(results) == {results[k].source_call_id : k \in DOMAIN results}

\* The contents of the results for an id, in their order.
ContentsOf(results, id) ==
    LET mine == {k \in DOMAIN results : results[k].source_call_id = id}
        nth(n) == CHOOSE k \in mine : Cardinality({j \in mine : j <= k}) = n
    IN  [n \in 1 .. Cardinality(mine) |-> results[nth(n)].content]

\* The dictionary of the oracle's results: a later one replaces an earlier one.
ExpectedResults ==
    [id \in Ids(SourceResults) |-> <<Last(ContentsOf(SourceResults, id))>>]

Slip_ActualResults ==
    [id \in Ids(candidate.results) \ {NoCallId} |-> <<Head(ContentsOf(candidate.results, id))>>]

\* actual_result_map: an id with several results keeps the list of them.
ActualResults ==
    [id \in Ids(candidate.results) \ {NoCallId} |-> ContentsOf(candidate.results, id)]

\* asb_policy.expected_fidelity; the verifier puts its own count of records into it.
ExpectedCounters ==
    {"source_records_preserved", "tool_calls_preserved", "observation_results_preserved",
     "unsupported_source_records", "unsupported_source_blocks", "orphaned_tool_results",
     "omitted_tool_result_timestamps", "invalid_source_timestamps"}

ExpectedFidelity ==
    [c \in ExpectedCounters |->
        IF c = "unsupported_source_records" THEN Cardinality(UnsupportedRecords) ELSE fidelity[c]]

Match(expected, actual, success_state) ==
    IF expected = actual THEN success_state ELSE "CONFLICT"

TimestampFinding ==
    IF TimestampedResults = 0 THEN "NOT_APPLICABLE"
    ELSE Match(TimestampedResults, candidate.fidelity["omitted_tool_result_timestamps"], "OMITTED")

\* _verify_document, without the findings that are left out.
VerifyDocument ==
    [tool_calls |-> Match(SourceCalls, candidate.calls, "PRESERVED"),
     tool_result_correlation |-> Match(ExpectedResults, ActualResults, "NORMALIZED"),
     fidelity_accounting |->
        Match(ExpectedFidelity, [c \in ExpectedCounters |-> candidate.fidelity[c]], "PRESERVED"),
     unsupported_material_is_accounted_for |->
        Match(<<Cardinality(UnsupportedRecords), fidelity["unsupported_source_blocks"]>>,
              <<candidate.fidelity["unsupported_source_records"],
                candidate.fidelity["unsupported_source_blocks"]>>, "DEGRADED"),
     tool_result_timestamps |-> TimestampFinding,
     unsupported_source_record_is_omitted |->
        Match(Cardinality(UnsupportedRecords),
              candidate.fidelity["unsupported_source_records"], "OMITTED")]

-----------------------------------------------------------------------------
VerifierInit ==
    /\ Init
    /\ stage = "parsing"
    /\ candidate = [calls |-> <<>>, results |-> <<>>, fidelity |-> ZeroCounters]
    /\ mutation = "none"
    /\ findings = <<>>

Parse == Next /\ UNCHANGED verification

\* The trajectory as the verifier reads it.
Document ==
    LET calls   == InOrder(CallPlaces)
        results == InOrder(Placed)
    IN  [calls    |-> [k \in DOMAIN calls |-> steps[calls[k][1]].tool_calls[calls[k][2]]],
         results  |-> [k \in DOMAIN results |->
                          [source_call_id |-> At(results[k]).source_call_id,
                           content |-> Origin(results[k])]],
         fidelity |-> fidelity]

Reproduce ==
    /\ stage = "parsing"
    /\ pc = "done"
    /\ stage' = "candidate"
    /\ candidate' = Document
    /\ UNCHANGED <<vars, mutation, findings>>

\* The document is altered once, before it is verified.
Mutate(kind) ==
    /\ stage = "candidate"
    /\ mutation = "none"
    /\ mutation' = kind
    /\ UNCHANGED <<vars, stage, findings>>

LostResult ==
    /\ Mutate("lost_result")
    /\ \E k \in DOMAIN candidate.results :
          candidate' = [candidate EXCEPT !.results = RemoveAt(@, k)]

DuplicateResult ==
    /\ Mutate("duplicate_result")
    /\ \E k \in DOMAIN candidate.results :
          candidate' = [candidate EXCEPT !.results = InsertAt(@, k, @[k])]

WrongCallId ==
    /\ Mutate("wrong_call_id")
    /\ \E k \in DOMAIN candidate.results :
          \E id \in CallIds \ {candidate.results[k].source_call_id} :
              candidate' = [candidate EXCEPT !.results = [@ EXCEPT ![k].source_call_id = id]]

SwappedResults ==
    /\ Mutate("swapped_results")
    /\ \E j, k \in DOMAIN candidate.results :
          /\ candidate.results[j].source_call_id # candidate.results[k].source_call_id
          /\ candidate' = [candidate EXCEPT !.results =
                              [@ EXCEPT ![j].content = candidate.results[k].content,
                                        ![k].content = candidate.results[j].content]]

MissingCall ==
    /\ Mutate("missing_call")
    /\ \E k \in DOMAIN candidate.calls :
          candidate' = [candidate EXCEPT !.calls = RemoveAt(@, k)]

FalseFidelity ==
    /\ Mutate("false_fidelity")
    /\ \E c \in ExpectedCounters :
          /\ candidate.fidelity[c] > 0
          /\ candidate' = [candidate EXCEPT !.fidelity[c] = 0]

Verify ==
    /\ stage = "candidate"
    /\ stage' = "verified"
    /\ findings' = VerifyDocument
    /\ UNCHANGED <<vars, candidate, mutation>>

Ended == (stage = "verified" \/ Failed) /\ UNCHANGED verifierVars

VerifierNext ==
    \/ Parse \/ Reproduce
    \/ LostResult \/ DuplicateResult \/ WrongCallId \/ SwappedResults
    \/ MissingCall \/ FalseFidelity
    \/ Verify \/ Ended

VerifierSpec == VerifierInit /\ [][VerifierNext]_verifierVars

-----------------------------------------------------------------------------
Verified == stage = "verified"

Conflict(name) == findings[name] = "CONFLICT"

\* The places of the source whose results are in the trajectory.
DeliveredPlaces == {Origin(p) : p \in Placed}

AnsweredOnce ==
    \A p, q \in SourcePlaces : BlockAt(p).id = BlockAt(q).id => p = q

\* The parser and the verifier each decide what an unsupported record is, in code of
\* their own, and on no file do they count differently: an unaltered document never
\* conflicts over its unsupported material.
UnsupportedCountsAgree ==
    Verified /\ mutation = "none" =>
        /\ ~Conflict("unsupported_source_record_is_omitted")
        /\ ~Conflict("unsupported_material_is_accounted_for")
        /\ ~Conflict("fidelity_accounting")

\* When the verifier rejects what the parser wrote, there is a reason in the file:
\* a call that the parser could not use or did not come to; a time of a result that
\* it did not deliver or could not use; or, where each id is answered once, a result
\* that it did not deliver.  Where there is such a reason, the verifier rejects.
RejectionsHaveAReason ==
    Verified /\ mutation = "none" =>
        /\ Conflict("tool_calls") <=>
              \E p \in SourceBlocks("assistant", "tool_use") :
                  ~Converted(p[1]) \/ ~UsableCall(BlockAt(p))
        /\ Conflict("tool_result_timestamps") <=>
              /\ \E p \in SourcePlaces : log[p[1]].timestamp # "absent"
              /\ \E p \in SourcePlaces :
                    \/ log[p[1]].timestamp = "invalid"
                    \/ log[p[1]].timestamp = "valid" /\ p \notin DeliveredPlaces
        /\ AnsweredOnce => (Conflict("tool_result_correlation") <=> SourcePlaces # DeliveredPlaces)

\* Where each id is answered once, no document that was altered in one of the ways
\* above is accepted.
MutationsRejected ==
    Verified /\ AnsweredOnce /\ mutation # "none" => \E name \in DOMAIN findings : Conflict(name)

\* docs/INTEROPERABILITY.md, comparison model: an output that contradicts a source fact
\* is a conflict.  A result of the source that a document lost is such a contradiction.
LostResultIsConflict ==
    Verified /\ mutation = "lost_result" => \E name \in DOMAIN findings : Conflict(name)
=============================================================================
