--------------------------- MODULE MCObserveExport ---------------------------
(***************************************************************************)
(* Small trajectories: none, times out of order and unusable, calls with   *)
(* no result, one and two, and results of other calls.                     *)
(***************************************************************************)
EXTENDS ObserveExportProperties

CONSTANTS a, b, c

MCCallIds == {a, b, c}

Observed(time, calls, results) ==
    [time |-> time, valid |-> TRUE, tool_calls |-> calls,
     observation |-> [r \in DOMAIN results |->
                        [source_call_id |-> results[r][1], is_error |-> results[r][2]]]]

Said(time) == Observed(time, <<>>, <<>>)

Undated == [Said(0) EXCEPT !.valid = FALSE]

MCTrajectories ==
    { <<>>,
      <<Undated>>,
      <<Observed(1, <<a>>, <<>>), Undated>>,
      <<Said(2), Said(1)>>,
      <<Said(2), Observed(1, <<a, b>>, << <<b, "true">>, <<a, "none">> >>), Said(3)>>,
      <<Observed(3, <<a, b>>, << <<a, "affirmed">>, <<c, "true">>, <<a, "other">> >>), Said(1)>> }

Answered == {"success", "failure"}
Arrives == {"success"}
Raises == {"success", "failure", "raise"}
=============================================================================
