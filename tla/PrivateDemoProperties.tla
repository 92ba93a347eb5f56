------------------------- MODULE PrivateDemoProperties -------------------------
(***************************************************************************)
(* What the private demo must get right: which files may become a          *)
(* candidate, what they may be trusted for, and what becomes of the others.*)
(***************************************************************************)
EXTENDS PrivateDemo

Stages ==
    {"start", "hash", "read", "stage", "source", "atif", "manifest", "report", "scan",
     "hash_after", "results", "decide", "sums", "report_status", "ended"}

TypeOK ==
    /\ raw \in 0 .. MaxVersion
    /\ pc \in [Runs -> Stages]
    /\ run_dir \in [Runs -> Seconds \cup {NoSecond}]
    /\ sha_before \in [Runs -> Nat] /\ records \in [Runs -> Nat] /\ sha_after \in [Runs -> Nat]
    /\ findings \in [Runs -> (SUBSET Files) \cup {Unscanned}]
    /\ equivalent \in [Runs -> BOOLEAN]
    /\ wrote \in [Runs -> 0 .. ResultFiles]
    /\ exit \in [Runs -> {"none", "ok", "failed", "aborted"}]
    /\ directories \subseteq Seconds /\ staged \subseteq directories /\ published \subseteq directories
    /\ staging \in [Seconds -> SUBSET (Files \X Runs)]
    /\ candidate \in [Seconds -> SUBSET (Files \X Runs)]
    /\ results \in [Seconds -> [1 .. ResultFiles -> Runs \cup {NoRun}]]
    /\ sums \in [Seconds -> Runs \cup {NoRun}]

-----------------------------------------------------------------------------
\* The candidate of a directory is all of the output of one run.
CandidateOf(s, r) == s \in published /\ candidate[s] = Files \X {r}

\* Whatever is aborted and whoever else runs, what is there as a candidate is the whole
\* output of one run, the scan of that very output found nothing, and the scan results
\* and the notes beside it are complete and that run's.
CandidateScanned ==
    \A s \in published :
        \E r \in Runs : /\ CandidateOf(s, r)
                        /\ findings[r] = {}
                        /\ \A k \in 1 .. ResultFiles : results[s][k] = r

\* Runs that start in the same second never write into one directory.
OneRunPerDirectory ==
    \A s \in Seconds : \E r \in Runs :
        /\ \A f \in staging[s] \cup candidate[s] : f[2] = r
        /\ \A k \in 1 .. ResultFiles : results[s][k] \in {r, NoRun}
        /\ sums[s] \in {r, NoRun}

\* The manifest says which raw log the candidate comes from by the hash that was taken
\* before the log was read.  Where the log grew in between, so that the hash is of
\* another content, the notes say that the log changed and the run does not exit with 0.
HashNamesContent ==
    \A s \in Seconds, r \in Runs :
        CandidateOf(s, r) =>
            (records[r] # sha_before[r] => ~Unchanged(r) /\ exit[r] # "ok")

\* Exit status 0 means that all is there: a candidate with its checksums, from the raw
\* log whose hash the manifest gives, with the same accounting as the raw log.
SuccessIsComplete ==
    \A r \in Runs :
        exit[r] = "ok" =>
            /\ CandidateOf(run_dir[r], r) /\ sums[run_dir[r]] = r
            /\ records[r] = sha_before[r] /\ equivalent[r]

\* A run that ends by itself leaves nothing staged behind, and only one that passed the
\* scan leaves a candidate.
NothingLeftStaged ==
    \A r \in Runs :
        exit[r] \in {"ok", "failed"} =>
            /\ run_dir[r] \notin staged /\ staging[run_dir[r]] = {}
            /\ run_dir[r] \in published <=> findings[r] = {}

\* docs/DEMO_REAL_SESSION.md, step 3: if the scan fails, every candidate file is deleted.
\* A run that is not aborted gets there.
FailedScanDeleted ==
    \A r \in Runs :
        (findings[r] \notin {{}, Unscanned}) ~> (exit[r] = "aborted" \/ run_dir[r] \notin staged)

-----------------------------------------------------------------------------
\* The run whose output a directory holds as its candidate.
Publisher(s) == IF \E r \in Runs : CandidateOf(s, r) THEN CHOOSE r \in Runs : CandidateOf(s, r) ELSE NoRun

Verdict(r) ==
    CASE findings[r] = Unscanned -> "none"
      [] findings[r] = {}        -> "PASS"
      [] OTHER                   -> "FAIL"

Publication == INSTANCE CandidatePublication WITH
    Places    <- Seconds,
    verdict   <- [r \in Runs |-> Verdict(r)],
    candidate <- [s \in Seconds |-> Publisher(s)]

\* Every behaviour of the pipeline publishes as CandidatePublication does: output that
\* passed, once, in an empty place, for good.
ImplementsPublication == Publication!Spec
=============================================================================
