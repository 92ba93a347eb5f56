------------------------------ MODULE PrivateDemo ------------------------------
(***************************************************************************)
(* main of tools/private_demo.py: a raw log, which may still be growing,   *)
(* is hashed, read and sanitized in memory; the sanitized log is staged,   *)
(* converted, described and scanned; the staging directory becomes the     *)
(* candidate if the scan passed and is deleted if not.                     *)
(*                                                                         *)
(* Several invocations may run, over the same raw log and under the same   *)
(* root, and each may end at any point, by an exception, a command that    *)
(* fails or a kill, with its files left behind.  A run directory is named  *)
(* for the second it was made in, so two runs may choose the same name;    *)
(* nobody else writes under the root.                                      *)
(* What the scan finds and whether the comparison of raw and sanitized log *)
(* succeeds is open (TraceSanitizer has the latter); only writing, renaming*)
(* and deleting files is in steps, and a write is one.                     *)
(***************************************************************************)
EXTENDS Naturals

CONSTANTS
    Runs,           \* the invocations
    NoRun,
    Seconds,        \* the names a run directory may get
    NoSecond,
    Findings,       \* the sets of files that a scan may find to fail
    ResultFiles,    \* how many files a run writes beside the candidate
    MaxVersion      \* bound on the growth of the raw log

Files == {"source", "atif", "report", "manifest"}

ASSUME DemoAssumption ==
    /\ Runs # {} /\ NoRun \notin Runs /\ NoSecond \notin Seconds
    /\ Findings \subseteq SUBSET Files
    /\ ResultFiles \in Nat \ {0} /\ MaxVersion \in Nat

VARIABLES
    raw,            \* the version of the raw log; it only grows
    pc, run_dir,    \* where a run is, and the directory it made
    sha_before,     \* the version that raw_sha_before is the hash of
    records,        \* the version that was read
    sha_after,      \* the version that raw_sha_after is the hash of
    findings,       \* the staged files that failed the scan, once it was made
    equivalent,     \* equivalence_ok
    wrote,          \* how many of its result files the run has written
    exit,           \* "none", "ok" (0), "failed" (2) or "aborted"
    directories,    \* the run directories on disk
    staged,         \* those with a staging directory in them
    staging,        \* <<file, run that wrote it>> in each staging directory
    published,      \* the run directories with a candidate in them
    candidate,      \* its files, likewise
    results,        \* the run that wrote each result file last
    sums            \* the run that wrote SHA256SUMS.txt

memory == <<sha_before, records, sha_after, findings, equivalent>>
disk == <<directories, staged, staging, published, candidate, results, sums>>
vars == <<raw, pc, run_dir, memory, wrote, exit, disk>>

Unscanned == {"unscanned"}

Init ==
    /\ raw = 0
    /\ pc = [r \in Runs |-> "start"]
    /\ run_dir = [r \in Runs |-> NoSecond]
    /\ sha_before = [r \in Runs |-> 0] /\ records = [r \in Runs |-> 0]
    /\ sha_after = [r \in Runs |-> 0]
    /\ findings = [r \in Runs |-> Unscanned] /\ equivalent = [r \in Runs |-> FALSE]
    /\ wrote = [r \in Runs |-> 0]
    /\ exit = [r \in Runs |-> "none"]
    /\ directories = {} /\ staged = {} /\ published = {}
    /\ staging = [s \in Seconds |-> {}] /\ candidate = [s \in Seconds |-> {}]
    /\ results = [s \in Seconds |-> [k \in 1 .. ResultFiles |-> NoRun]]
    /\ sums = [s \in Seconds |-> NoRun]

-----------------------------------------------------------------------------
Go(r, from, to) == pc[r] = from /\ pc' = [pc EXCEPT ![r] = to]

\* The session that is demonstrated may still be going on.
Grow ==
    /\ raw < MaxVersion
    /\ raw' = raw + 1
    /\ UNCHANGED <<pc, run_dir, memory, wrote, exit, disk>>

Slip_MakeRunDir(r) ==
    /\ Go(r, "start", "hash")
    /\ \E s \in Seconds :
          /\ run_dir' = [run_dir EXCEPT ![r] = s]
          /\ directories' = directories \cup {s}
    /\ UNCHANGED <<raw, memory, wrote, exit, staged, staging, published, candidate, results, sums>>

\* mkdir(exist_ok=False): a directory that is there makes it raise.
MakeRunDir(r) ==
    /\ Go(r, "start", "hash")
    /\ \E s \in Seconds \ directories :
          /\ run_dir' = [run_dir EXCEPT ![r] = s]
          /\ directories' = directories \cup {s}
    /\ UNCHANGED <<raw, memory, wrote, exit, staged, staging, published, candidate, results, sums>>

RunDirTaken(r) ==
    /\ directories # {}
    /\ Go(r, "start", "ended")
    /\ exit' = [exit EXCEPT ![r] = "aborted"]
    /\ UNCHANGED <<raw, run_dir, memory, wrote, disk>>

HashBefore(r) ==
    /\ Go(r, "hash", "read")
    /\ sha_before' = [sha_before EXCEPT ![r] = raw]
    /\ UNCHANGED <<raw, run_dir, records, sha_after, findings, equivalent, wrote, exit, disk>>

\* Read, parsed and sanitized, all in memory.
ReadRecords(r) ==
    /\ Go(r, "read", "stage")
    /\ records' = [records EXCEPT ![r] = raw]
    /\ UNCHANGED <<raw, run_dir, sha_before, sha_after, findings, equivalent, wrote, exit, disk>>

MakeStaging(r) ==
    /\ Go(r, "stage", "source")
    /\ run_dir[r] \notin staged
    /\ staged' = staged \cup {run_dir[r]}
    /\ UNCHANGED <<raw, run_dir, memory, wrote, exit, directories, staging, published,
                   candidate, results, sums>>

WriteStaged(r, file, to) ==
    /\ Go(r, file, to)
    /\ staging' = [staging EXCEPT ![run_dir[r]] = @ \cup {<<file, r>>}]
    /\ UNCHANGED <<raw, run_dir, memory, wrote, exit, directories, staged, published,
                   candidate, results, sums>>

\* `import` and `explain` run as commands of their own on what has been staged.
WriteSource(r) == WriteStaged(r, "source", "atif")
Import(r) == WriteStaged(r, "atif", "manifest")
WriteManifest(r) == WriteStaged(r, "manifest", "report")
Explain(r) == WriteStaged(r, "report", "scan")

\* The scan of all four files and the comparison of the two conversions.
ScanAndCompare(r) ==
    /\ Go(r, "scan", "hash_after")
    /\ \E found \in Findings : findings' = [findings EXCEPT ![r] = found]
    /\ \E ok \in BOOLEAN : equivalent' = [equivalent EXCEPT ![r] = ok]
    /\ UNCHANGED <<raw, run_dir, sha_before, records, sha_after, wrote, exit, disk>>

Slip_HashAfter(r) ==
    /\ Go(r, "hash_after", "results")
    /\ sha_after' = [sha_after EXCEPT ![r] = sha_before[r]]
    /\ UNCHANGED <<raw, run_dir, sha_before, records, findings, equivalent, wrote, exit, disk>>

HashAfter(r) ==
    /\ Go(r, "hash_after", "results")
    /\ sha_after' = [sha_after EXCEPT ![r] = raw]
    /\ UNCHANGED <<raw, run_dir, sha_before, records, findings, equivalent, wrote, exit, disk>>

Slip_WriteResult(r) ==
    /\ Go(r, "results", IF wrote[r] = ResultFiles THEN "decide" ELSE "results")
    /\ wrote' = [wrote EXCEPT ![r] = @ + 1]
    /\ results' = [results EXCEPT ![run_dir[r]][wrote[r] + 1] = r]
    /\ UNCHANGED <<raw, run_dir, memory, exit, directories, staged, staging, published,
                   candidate, sums>>

WriteResult(r) ==
    /\ Go(r, "results", IF wrote[r] + 1 = ResultFiles THEN "decide" ELSE "results")
    /\ wrote' = [wrote EXCEPT ![r] = @ + 1]
    /\ results' = [results EXCEPT ![run_dir[r]][wrote[r] + 1] = r]
    /\ UNCHANGED <<raw, run_dir, memory, exit, directories, staged, staging, published,
                   candidate, sums>>

Slip_Passed(r) == "source" \notin findings[r]

Passed(r) == findings[r] = {}

\* staging.rename(candidate): all files at once.
Publish(r) ==
    /\ Passed(r)
    /\ Go(r, "decide", "sums")
    /\ run_dir[r] \in staged /\ run_dir[r] \notin published
    /\ staged' = staged \ {run_dir[r]} /\ published' = published \cup {run_dir[r]}
    /\ candidate' = [candidate EXCEPT ![run_dir[r]] = staging[run_dir[r]]]
    /\ staging' = [staging EXCEPT ![run_dir[r]] = {}]
    /\ UNCHANGED <<raw, run_dir, memory, wrote, exit, directories, results, sums>>

WriteSums(r) ==
    /\ Go(r, "sums", "report_status")
    /\ sums' = [sums EXCEPT ![run_dir[r]] = r]
    /\ UNCHANGED <<raw, run_dir, memory, wrote, exit, directories, staged, staging, published,
                   candidate, results>>

\* shutil.rmtree(staging): file by file, then the directory.
RemoveStaged(r) ==
    /\ pc[r] = "decide" /\ ~Passed(r)
    /\ \E f \in staging[run_dir[r]] : staging' = [staging EXCEPT ![run_dir[r]] = @ \ {f}]
    /\ UNCHANGED <<raw, pc, run_dir, memory, wrote, exit, directories, staged, published,
                   candidate, results, sums>>

Slip_Withhold(r) ==
    /\ Go(r, "decide", "report_status")
    /\ ~Passed(r)
    /\ UNCHANGED <<raw, run_dir, memory, wrote, exit, disk>>

Withhold(r) ==
    /\ Go(r, "decide", "report_status")
    /\ ~Passed(r)
    /\ staging[run_dir[r]] = {}
    /\ staged' = staged \ {run_dir[r]}
    /\ UNCHANGED <<raw, run_dir, memory, wrote, exit, directories, staging, published,
                   candidate, results, sums>>

Unchanged(r) == sha_before[r] = sha_after[r]

\* The exit status: 2 unless scan, comparison and raw log are all in order.
Slip_Exit(r) ==
    /\ Go(r, "report_status", "ended")
    /\ exit' = [exit EXCEPT ![r] = IF Passed(r) /\ Unchanged(r) THEN "ok" ELSE "failed"]
    /\ UNCHANGED <<raw, run_dir, memory, wrote, disk>>

Exit(r) ==
    /\ Go(r, "report_status", "ended")
    /\ exit' = [exit EXCEPT ![r] = IF Passed(r) /\ equivalent[r] /\ Unchanged(r) THEN "ok" ELSE "failed"]
    /\ UNCHANGED <<raw, run_dir, memory, wrote, disk>>

\* Every file that was written stays.
Abort(r) ==
    /\ pc[r] # "ended"
    /\ pc' = [pc EXCEPT ![r] = "ended"]
    /\ exit' = [exit EXCEPT ![r] = "aborted"]
    /\ UNCHANGED <<raw, run_dir, memory, wrote, disk>>

-----------------------------------------------------------------------------
Proceed(r) ==
    \/ MakeRunDir(r) \/ RunDirTaken(r) \/ HashBefore(r) \/ ReadRecords(r) \/ MakeStaging(r)
    \/ WriteSource(r) \/ Import(r) \/ WriteManifest(r) \/ Explain(r)
    \/ ScanAndCompare(r) \/ HashAfter(r) \/ WriteResult(r)
    \/ Publish(r) \/ WriteSums(r) \/ RemoveStaged(r) \/ Withhold(r) \/ Exit(r)

AllEnded == (\A r \in Runs : pc[r] = "ended") /\ UNCHANGED vars

Next ==
    \/ Grow
    \/ \E r \in Runs : Proceed(r) \/ Abort(r)
    \/ AllEnded

\* A run is one sequential program, whose only waits are for commands it started; that
\* it proceeds is all that is assumed, not that it is ever aborted.
Fairness == \A r \in Runs : WF_vars(Proceed(r))

Spec == Init /\ [][Next]_vars /\ Fairness
=============================================================================
