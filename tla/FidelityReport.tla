---------------------------- MODULE FidelityReport ----------------------------
(***************************************************************************)
(* The conversion accounting of src/bridge/models.py: the scalar counters  *)
(* of class FidelityReport, and its three breakdown lists.                 *)
(*                                                                         *)
(* A breakdown list holds one entry per key; the code searches it for the  *)
(* key, adds to the entry found, or appends a new one.  Here it is the     *)
(* function from key to count that the list denotes.  The order of the     *)
(* entries is presentation only (sort_breakdowns makes it that of the      *)
(* keys) and is not modelled.                                              *)
(***************************************************************************)
EXTENDS Naturals

Counters ==
    { "source_records_preserved", "tool_calls_preserved",
      "observation_results_preserved", "unsupported_source_records",
      "unsupported_source_blocks", "orphaned_tool_results",
      "omitted_tool_result_timestamps", "invalid_source_timestamps",
      "synthetic_agent_records", "duplicate_usage_records",
      "conflicting_usage_records" }

ZeroCounters == [c \in Counters |-> 0]

EmptyBreakdown == [records |-> <<>>, blocks |-> <<>>, with_content |-> <<>>,
                   fields |-> <<>>]

\* `report.c += 1` for every counter c of the set.
Count(report, counters) ==
    [c \in Counters |-> IF c \in counters THEN report[c] + 1 ELSE report[c]]

\* `report.c += n`
CountMany(report, c, n) == [report EXCEPT ![c] = @ + n]

\* The slip that replaces the entry found instead of adding to it.
Slip_Tally(list, keys, n) ==
    [k \in DOMAIN list \cup keys |-> IF k \in keys THEN n ELSE list[k]]

\* The entry of every key of the set grows by n; a missing entry starts at 0.
Tally(list, keys, n) ==
    [k \in DOMAIN list \cup keys |->
        (IF k \in DOMAIN list THEN list[k] ELSE 0) + (IF k \in keys THEN n ELSE 0)]

\* The breakdown half of count_unsupported_record(label, category).
TallyRecord(breakdown, label, category) ==
    [breakdown EXCEPT !.records = Tally(@, {<<label, category>>}, 1)]

\* The breakdown half of n calls of count_unsupported_block(label, with_content).
TallyBlocks(breakdown, label, with_content, n) ==
    [records      |-> breakdown.records,
     blocks       |-> Tally(breakdown.blocks, {label}, n),
     with_content |-> Tally(breakdown.with_content, {label}, IF with_content THEN n ELSE 0),
     fields       |-> breakdown.fields]

\* count_ignored_field(field) for every field of the set.
TallyFields(breakdown, fields) ==
    [breakdown EXCEPT !.fields = Tally(@, fields, 1)]

-----------------------------------------------------------------------------
IsTally(list) == list = [k \in DOMAIN list |-> list[k]] /\ \A k \in DOMAIN list : list[k] \in Nat

IsBreakdown(breakdown) ==
    /\ breakdown = [records |-> breakdown.records, blocks |-> breakdown.blocks,
                    with_content |-> breakdown.with_content, fields |-> breakdown.fields]
    /\ IsTally(breakdown.records)
    /\ IsTally(breakdown.blocks)
    /\ IsTally(breakdown.with_content)
    /\ IsTally(breakdown.fields)

=============================================================================
