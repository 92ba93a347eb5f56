-------------------------- MODULE CandidatePublication --------------------------
(***************************************************************************)
(* What the private demo promises of its candidates: a run's output is     *)
(* judged once, only output that passed becomes a candidate, a place holds *)
(* one candidate at most, and a candidate stays as it was published.       *)
(***************************************************************************)
CONSTANTS Places, Runs, NoRun

VARIABLES
    verdict,    \* what the scan of a run's output said: "none", "PASS" or "FAIL"
    candidate   \* the run whose output a place holds as its candidate

Init ==
    /\ verdict = [r \in Runs |-> "none"]
    /\ candidate = [p \in Places |-> NoRun]

Judge(r) ==
    /\ verdict[r] = "none"
    /\ verdict' \in {[verdict EXCEPT ![r] = v] : v \in {"PASS", "FAIL"}}
    /\ UNCHANGED candidate

Publish(r, p) ==
    /\ verdict[r] = "PASS"
    /\ candidate[p] = NoRun
    /\ \A q \in Places : candidate[q] # r
    /\ candidate' = [candidate EXCEPT ![p] = r]
    /\ UNCHANGED verdict

Next == \E r \in Runs : Judge(r) \/ \E p \in Places : Publish(r, p)

Spec == Init /\ [][Next]_<<verdict, candidate>>
=============================================================================
