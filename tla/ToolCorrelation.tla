---------------------------- MODULE ToolCorrelation ----------------------------
(***************************************************************************)
(* What the parser promises about tool results, without the parser: calls  *)
(* are made step by step, and a result is delivered to the latest step     *)
(* that made its call, after the results that step already has, or it is   *)
(* lost because no step made the call.  Nothing delivered is ever moved,   *)
(* changed or withdrawn.                                                   *)
(***************************************************************************)
EXTENDS Naturals, Sequences

CONSTANTS CallIds, Results

VARIABLES
    calls,      \* calls[i]: the ids of the calls that step i made
    delivered,  \* delivered[i]: the results that step i has received, in order
    lost        \* how many results had no call to go to

Init == calls = <<>> /\ delivered = <<>> /\ lost = 0

Callers(id) == {i \in DOMAIN calls : id \in calls[i]}

AddStep(ids) ==
    /\ calls' = Append(calls, ids)
    /\ delivered' = Append(delivered, <<>>)
    /\ UNCHANGED lost

Deliver(result) ==
    \E i \in Callers(result.source_call_id) :
        /\ \A k \in Callers(result.source_call_id) : k <= i
        /\ delivered' = [delivered EXCEPT ![i] = Append(@, result)]
        /\ UNCHANGED <<calls, lost>>

Lose(result) ==
    /\ Callers(result.source_call_id) = {}
    /\ lost' = lost + 1
    /\ UNCHANGED <<calls, delivered>>

Next ==
    \/ \E ids \in SUBSET CallIds : AddStep(ids)
    \/ \E result \in Results : Deliver(result) \/ Lose(result)

Spec == Init /\ [][Next]_<<calls, delivered, lost>>
=============================================================================
