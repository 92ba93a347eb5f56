--------------------------- MODULE PrivateDemoProofs ---------------------------
(***************************************************************************)
(* Proofs about the private demo for any number of runs, however many of   *)
(* them start in the same second, for any raw log and any findings.        *)
(*                                                                         *)
(* Each run is sequential, so most of what holds is a fact about a run and *)
(* where it stands (RunInv).  What makes these facts stable is that a run  *)
(* directory has one owner (Owned), who alone writes there                 *)
(* (Noninterference).                                                      *)
(***************************************************************************)
EXTENDS PrivateDemoProperties, TLAPS

\* A directory belongs to one run, and holds what that run wrote.
Owned ==
    /\ \A r \in Runs :
          /\ pc[r] = "start" => run_dir[r] = NoSecond
          /\ pc[r] \notin {"start", "ended"} => run_dir[r] \in Seconds
          /\ run_dir[r] # NoSecond => run_dir[r] \in directories
    /\ \A r, q \in Runs : run_dir[r] = run_dir[q] /\ run_dir[r] # NoSecond => r = q
    /\ \A s \in published : \E r \in Runs : run_dir[r] = s
    /\ \A s \in Seconds :
          /\ \A x \in Files, q \in Runs :
                <<x, q>> \in staging[s] \/ <<x, q>> \in candidate[s] => run_dir[q] = s
          /\ \A k \in 1 .. ResultFiles : results[s][k] # NoRun => run_dir[results[s][k]] = s
          /\ sums[s] # NoRun => run_dir[sums[s]] = s

-----------------------------------------------------------------------------
Scanned == {"hash_after", "results", "decide", "sums", "report_status"}

\* Where a run has a directory and has not yet decided about its candidate.
Working ==
    {"hash", "read", "stage", "source", "atif", "manifest", "report", "scan",
     "hash_after", "results", "decide"}

\* A run has an exit status when it has ended, and findings once it has scanned.
Judged(r) ==
    /\ exit[r] = "none" <=> pc[r] # "ended"
    /\ pc[r] \notin Scanned \cup {"ended"} => findings[r] = Unscanned
    /\ pc[r] \in Scanned => findings[r] # Unscanned
    /\ pc[r] = "sums" => findings[r] = {}

\* The raw log only grows, so that equal hashes enclose equal contents.
Chronological(r) ==
    /\ pc[r] \notin {"start", "hash", "ended"} => sha_before[r] <= raw
    /\ pc[r] \notin {"start", "hash", "read", "ended"} =>
          sha_before[r] <= records[r] /\ records[r] <= raw
    /\ pc[r] \in {"results", "decide", "sums", "report_status"} => records[r] <= sha_after[r]

\* The files a run has staged when it stands there.
StagedAt(stage) ==
    CASE stage \in {"hash", "read", "stage", "source"} -> {}
      [] stage = "atif"     -> {"source"}
      [] stage = "manifest" -> {"source", "atif"}
      [] stage = "report"   -> {"source", "atif", "manifest"}
      [] OTHER              -> Files

\* What a run has staged when it stands there, unless it is deleting it.
StagedSoFar(r) ==
    pc[r] \in Working /\ (pc[r] = "decide" => Passed(r)) =>
        \A x \in Files : <<x, r>> \in staging[run_dir[r]] <=> x \in StagedAt(pc[r])

\* The result files a run has written when it stands there.
ResultsSoFar(r) ==
    /\ pc[r] \in {"start"} \cup (Working \ {"results", "decide"}) => wrote[r] = 0
    /\ pc[r] = "results" =>
          wrote[r] < ResultFiles /\ \A k \in 1 .. wrote[r] : results[run_dir[r]][k] = r
    /\ pc[r] \in {"decide", "sums", "report_status"} =>
          \A k \in 1 .. ResultFiles : results[run_dir[r]][k] = r

\* What became a candidate, and for good.
Published(r) ==
    run_dir[r] \in published =>
        /\ pc[r] \in {"sums", "report_status", "ended"}
        /\ candidate[run_dir[r]] = Files \X {r}
        /\ findings[r] = {}
        /\ \A k \in 1 .. ResultFiles : results[run_dir[r]][k] = r
        /\ sha_before[r] <= records[r] /\ records[r] <= sha_after[r]

\* What a run has done when it has decided.
Decided(r) ==
    /\ pc[r] \in {"sums", "report_status"} \/ exit[r] \in {"ok", "failed"} =>
          /\ run_dir[r] \in Seconds \ staged /\ staging[run_dir[r]] = {}
          /\ run_dir[r] \in published <=> findings[r] = {}
    /\ pc[r] = "report_status" /\ findings[r] = {} => sums[run_dir[r]] = r
    /\ exit[r] = "ok" =>
          findings[r] = {} /\ sums[run_dir[r]] = r /\ Unchanged(r) /\ equivalent[r]

RunInv(r) ==
    /\ Judged(r) /\ Chronological(r) /\ StagedSoFar(r) /\ ResultsSoFar(r)
    /\ Published(r) /\ Decided(r)

DemoInv == TypeOK /\ Owned /\ \A r \in Runs : RunInv(r)

-----------------------------------------------------------------------------
\* Nothing of a run and of its directory changes.
Untouched(q) ==
    /\ pc'[q] = pc[q] /\ run_dir'[q] = run_dir[q] /\ wrote'[q] = wrote[q] /\ exit'[q] = exit[q]
    /\ sha_before'[q] = sha_before[q] /\ records'[q] = records[q] /\ sha_after'[q] = sha_after[q]
    /\ findings'[q] = findings[q] /\ equivalent'[q] = equivalent[q]
    /\ run_dir[q] \in staged' <=> run_dir[q] \in staged
    /\ run_dir[q] \in published' <=> run_dir[q] \in published
    /\ run_dir[q] \in Seconds =>
          /\ staging'[run_dir[q]] = staging[run_dir[q]]
          /\ candidate'[run_dir[q]] = candidate[run_dir[q]]
          /\ results'[run_dir[q]] = results[run_dir[q]]
          /\ sums'[run_dir[q]] = sums[run_dir[q]]

-----------------------------------------------------------------------------
\* The set of files that StagedAt stands for at each stage.
LEMMA StagedAtStages ==
    /\ StagedAt("hash") = {} /\ StagedAt("read") = {}
    /\ StagedAt("stage") = {} /\ StagedAt("source") = {}
    /\ StagedAt("atif") = {"source"}
    /\ StagedAt("manifest") = {"source", "atif"}
    /\ StagedAt("report") = {"source", "atif", "manifest"}
    /\ StagedAt("scan") = Files /\ StagedAt("hash_after") = Files
    /\ StagedAt("results") = Files /\ StagedAt("decide") = Files
BY DEF StagedAt

\* A run that is under way has a directory.
LEMMA HasDirectory ==
    ASSUME TypeOK, Owned, NEW r \in Runs, pc[r] \notin {"start", "ended"}
    PROVE  run_dir[r] \in Seconds /\ run_dir[r] \in directories /\ run_dir[r] # NoSecond
BY DemoAssumption DEF TypeOK, Owned

\* A run that has not decided has no candidate.
LEMMA NotYetPublished ==
    ASSUME NEW r \in Runs, RunInv(r), pc[r] \in Working
    PROVE  run_dir[r] \notin published
BY DEF RunInv, Published, Working

\* A change of what one directory stages keeps the type.
LEMMA StagingType ==
    ASSUME TypeOK, NEW s \in Seconds, NEW new \in SUBSET (Files \X Runs)
    PROVE  [staging EXCEPT ![s] = new] \in [Seconds -> SUBSET (Files \X Runs)]
BY DEF TypeOK

\* A run changes nothing of another run, nor of its directory, and not the raw log.
LEMMA Noninterference ==
    ASSUME TypeOK, Owned, NEW r \in Runs, NEW q \in Runs, q # r, Proceed(r) \/ Abort(r)
    PROVE  Untouched(q) /\ raw' = raw
<1> USE DemoAssumption DEF TypeOK, Owned, Untouched, Go, WriteStaged, memory, disk
<1>1. CASE MakeRunDir(r)
  BY <1>1 DEF MakeRunDir
<1>2. CASE RunDirTaken(r) \/ Exit(r) \/ Abort(r)
  BY <1>2 DEF RunDirTaken, Exit, Abort
<1>3. CASE HashBefore(r) \/ ReadRecords(r) \/ ScanAndCompare(r) \/ HashAfter(r)
  BY <1>3 DEF HashBefore, ReadRecords, ScanAndCompare, HashAfter
<1>4. CASE MakeStaging(r)
  BY <1>4, ZenonT(40) DEF MakeStaging
<1>5. CASE WriteSource(r) \/ Import(r) \/ WriteManifest(r) \/ Explain(r)
  BY <1>5 DEF WriteSource, Import, WriteManifest, Explain
<1>6. CASE WriteResult(r)
  BY <1>6 DEF WriteResult
<1>7. CASE Publish(r)
  BY <1>7 DEF Publish
<1>8. CASE WriteSums(r)
  BY <1>8 DEF WriteSums
<1>9. CASE RemoveStaged(r)
  BY <1>9 DEF RemoveStaged
<1>10. CASE Withhold(r)
  BY <1>10 DEF Withhold
<1> QED
  BY <1>1, <1>2, <1>3, <1>4, <1>5, <1>6, <1>7, <1>8, <1>9, <1>10 DEF Proceed

\* What holds of a run goes on to hold while others run and the raw log grows.
LEMMA UntouchedInv ==
    ASSUME TypeOK, Owned, NEW q \in Runs, RunInv(q), Untouched(q), raw <= raw', raw' \in Nat
    PROVE  RunInv(q)'
<1>1. Judged(q)'
  BY DEF Untouched, RunInv, Judged, Scanned
<1>2. Chronological(q)'
  BY DEF TypeOK, Untouched, RunInv, Chronological
<1>3. pc[q] \in Working \cup {"sums", "report_status"} => run_dir[q] \in Seconds
  BY HasDirectory DEF Working
<1>4. StagedSoFar(q)'
  BY <1>3 DEF Untouched, RunInv, StagedSoFar, Working, Passed
<1>5. ResultsSoFar(q)'
  BY <1>3 DEF Untouched, RunInv, ResultsSoFar, Working
<1>6. Published(q)'
  BY DEF TypeOK, Untouched, RunInv, Published
<1>7. Decided(q)'
  BY DEF Untouched, RunInv, Decided, Unchanged
<1> QED
  BY <1>1, <1>2, <1>4, <1>5, <1>6, <1>7 DEF RunInv

\* Every step of a run keeps the type.
LEMMA TypeStep ==
    ASSUME TypeOK, Owned, NEW r \in Runs, RunInv(r), Proceed(r) \/ Abort(r)
    PROVE  TypeOK'
<1> USE DemoAssumption DEF TypeOK, Stages, Go, WriteStaged, memory, disk
<1>0. pc[r] \notin {"start", "ended"} =>
        run_dir[r] \in Seconds /\ run_dir[r] \in directories /\ run_dir[r] # NoSecond
  BY HasDirectory
<1>1. CASE MakeRunDir(r)
  BY <1>0, <1>1, SMTT(30) DEF Passed, MakeRunDir
<1>2. CASE RunDirTaken(r)
  BY <1>0, <1>2 DEF Passed, RunDirTaken
<1>3. CASE Exit(r)
  BY <1>0, <1>3 DEF Passed, Exit
<1>4. CASE Abort(r)
  BY <1>0, <1>4 DEF Passed, Abort
<1>5. CASE HashBefore(r)
  BY <1>0, <1>5 DEF Passed, HashBefore
<1>6. CASE ReadRecords(r)
  BY <1>0, <1>6 DEF Passed, ReadRecords
<1>7. CASE ScanAndCompare(r)
  BY <1>0, <1>7 DEF Passed, ScanAndCompare
<1>8. CASE HashAfter(r)
  BY <1>0, <1>8 DEF Passed, HashAfter
<1>9. CASE MakeStaging(r)
  BY <1>0, <1>9 DEF Passed, MakeStaging
<1>10. CASE WriteSource(r) \/ Import(r) \/ WriteManifest(r) \/ Explain(r)
  <2>1. run_dir[r] \in Seconds
    BY <1>0, <1>10 DEF WriteSource, Import, WriteManifest, Explain
  <2>2. \E f \in Files : staging' = [staging EXCEPT ![run_dir[r]] = @ \cup {<<f, r>>}]
    BY <1>10 DEF Files, WriteSource, Import, WriteManifest, Explain
  <2>3. PICK f \in Files : staging' = [staging EXCEPT ![run_dir[r]] = @ \cup {<<f, r>>}]
    BY <2>2
  <2>4. staging[run_dir[r]] \in SUBSET (Files \X Runs) /\ <<f, r>> \in Files \X Runs
    BY <2>1
  <2>5. staging[run_dir[r]] \cup {<<f, r>>} \in SUBSET (Files \X Runs)
    BY <2>4
  <2>6. staging' \in [Seconds -> SUBSET (Files \X Runs)]
    BY <2>1, <2>3, <2>5, StagingType
  <2> QED
    BY <2>6, <1>10 DEF WriteSource, Import, WriteManifest, Explain
<1>11. CASE WriteResult(r)
  <2>1. wrote[r] + 1 \in 1 .. ResultFiles
    BY <1>11 DEF WriteResult, RunInv, ResultsSoFar
  <2> QED
    BY <1>0, <2>1, <1>11 DEF WriteResult
<1>12. CASE Publish(r)
  BY <1>0, <1>12 DEF Passed, Publish
<1>13. CASE WriteSums(r)
  BY <1>0, <1>13 DEF Passed, WriteSums
<1>14. CASE RemoveStaged(r)
  <2>1. staging[run_dir[r]] \in SUBSET (Files \X Runs)
    BY <1>0, <1>14 DEF RemoveStaged
  <2>2. staging' \in [Seconds -> SUBSET (Files \X Runs)]
    BY <1>0, <2>1, <1>14, StagingType, SMTT(30) DEF RemoveStaged
  <2> QED
    BY <2>2, <1>14 DEF RemoveStaged
<1>15. CASE Withhold(r)
  BY <1>0, <1>15 DEF Passed, Withhold
<1> QED
  BY <1>1, <1>2, <1>3, <1>4, <1>5, <1>6, <1>7, <1>8, <1>9, <1>10, <1>11, <1>12, <1>13,
     <1>14, <1>15 DEF Proceed

\* Every step of a run keeps each directory to its owner.
LEMMA OwnedStep ==
    ASSUME TypeOK, Owned, NEW r \in Runs, RunInv(r), Proceed(r) \/ Abort(r)
    PROVE  Owned'
<1> USE DemoAssumption DEF TypeOK, Owned, Go, WriteStaged, memory, disk
<1>0. pc[r] \notin {"start", "ended"} =>
        run_dir[r] \in Seconds /\ run_dir[r] \in directories /\ run_dir[r] # NoSecond
  BY HasDirectory
<1>1. CASE MakeRunDir(r)
  BY <1>0, <1>1, SMTT(30) DEF MakeRunDir
<1>2. CASE RunDirTaken(r) \/ Exit(r) \/ Abort(r)
  BY <1>0, <1>2, SMTT(30) DEF RunDirTaken, Exit, Abort
<1>3. CASE HashBefore(r)
  BY <1>0, <1>3 DEF HashBefore
<1>4. CASE ReadRecords(r)
  BY <1>0, <1>4 DEF ReadRecords
<1>5. CASE ScanAndCompare(r)
  BY <1>0, <1>5 DEF ScanAndCompare
<1>6. CASE HashAfter(r)
  BY <1>0, <1>6 DEF HashAfter
<1>7. CASE MakeStaging(r)
  BY <1>0, <1>7 DEF MakeStaging
<1>8. CASE WriteSource(r)
  BY <1>0, <1>8 DEF WriteSource
<1>9. CASE Import(r)
  BY <1>0, <1>9 DEF Import
<1>10. CASE WriteManifest(r)
  BY <1>0, <1>10 DEF WriteManifest
<1>11. CASE Explain(r)
  BY <1>0, <1>11 DEF Explain
<1>12. CASE WriteResult(r)
  <2>1. \A s \in Seconds, k \in 1 .. ResultFiles :
            results'[s][k] = results[s][k] \/ (s = run_dir[r] /\ results'[s][k] = r)
    BY <1>0, <1>12 DEF WriteResult, RunInv, ResultsSoFar
  <2> QED
    BY <1>0, <2>1, <1>12, SMTT(30) DEF WriteResult
<1>13. CASE Publish(r)
  BY <1>0, <1>13 DEF Publish
<1>14. CASE WriteSums(r)
  BY <1>0, <1>14 DEF WriteSums
<1>15. CASE RemoveStaged(r)
  BY <1>0, <1>15 DEF RemoveStaged
<1>16. CASE Withhold(r)
  BY <1>0, <1>16 DEF Withhold
<1> QED
  BY <1>1, <1>2, <1>3, <1>4, <1>5, <1>6, <1>7, <1>8, <1>9, <1>10, <1>11, <1>12, <1>13,
     <1>14, <1>15, <1>16 DEF Proceed

\* A run has an exit status only when it has ended, and findings only when it has scanned.
LEMMA JudgedStep ==
    ASSUME TypeOK, Owned, NEW r \in Runs, RunInv(r), Proceed(r) \/ Abort(r)
    PROVE  Judged(r)'
  <1> USE DemoAssumption
      DEF TypeOK, RunInv, Judged, Scanned, Unscanned, Files, Passed, Go, WriteStaged, memory, disk
<1>1. CASE MakeRunDir(r)
  BY <1>1 DEF MakeRunDir
<1>2. CASE RunDirTaken(r) \/ Exit(r) \/ Abort(r)
  BY <1>2 DEF RunDirTaken, Exit, Abort
<1>3. CASE HashBefore(r) \/ ReadRecords(r) \/ ScanAndCompare(r) \/ HashAfter(r)
  BY <1>3 DEF HashBefore, ReadRecords, ScanAndCompare, HashAfter
<1>4. CASE MakeStaging(r)
  BY <1>4 DEF MakeStaging
<1>5. CASE WriteSource(r) \/ Import(r) \/ WriteManifest(r) \/ Explain(r)
  BY <1>5 DEF WriteSource, Import, WriteManifest, Explain
<1>6. CASE WriteResult(r)
  BY <1>6 DEF WriteResult
<1>7. CASE Publish(r)
  BY <1>7, ZenonT(40) DEF Publish
<1>8. CASE WriteSums(r)
  BY <1>8 DEF WriteSums
<1>9. CASE RemoveStaged(r)
  BY <1>9 DEF RemoveStaged
<1>10. CASE Withhold(r)
  BY <1>10 DEF Withhold
<1> QED
  BY <1>1, <1>2, <1>3, <1>4, <1>5, <1>6, <1>7, <1>8, <1>9, <1>10 DEF Proceed

\* What a run has read lies between what it hashed.
LEMMA ChronologicalStep ==
    ASSUME TypeOK, Owned, NEW r \in Runs, RunInv(r), Proceed(r) \/ Abort(r)
    PROVE  Chronological(r)'
<1> USE DemoAssumption DEF TypeOK, RunInv, Chronological, Go, WriteStaged, memory, disk
<1>1. CASE MakeRunDir(r)
  BY <1>1 DEF MakeRunDir
<1>2. CASE RunDirTaken(r) \/ Exit(r) \/ Abort(r)
  BY <1>2 DEF RunDirTaken, Exit, Abort
<1>3. CASE HashBefore(r) \/ ReadRecords(r) \/ ScanAndCompare(r) \/ HashAfter(r)
  BY <1>3 DEF HashBefore, ReadRecords, ScanAndCompare, HashAfter
<1>4. CASE MakeStaging(r)
  BY <1>4 DEF MakeStaging
<1>5. CASE WriteSource(r) \/ Import(r) \/ WriteManifest(r) \/ Explain(r)
  BY <1>5 DEF WriteSource, Import, WriteManifest, Explain
<1>6. CASE WriteResult(r)
  BY <1>6 DEF WriteResult
<1>7. CASE Publish(r)
  BY <1>7 DEF Publish
<1>8. CASE WriteSums(r)
  BY <1>8 DEF WriteSums
<1>9. CASE RemoveStaged(r)
  BY <1>9 DEF RemoveStaged
<1>10. CASE Withhold(r)
  BY <1>10 DEF Withhold
<1> QED
  BY <1>1, <1>2, <1>3, <1>4, <1>5, <1>6, <1>7, <1>8, <1>9, <1>10 DEF Proceed

\* A run stages its files one after the other.
LEMMA StagedSoFarStep ==
    ASSUME TypeOK, Owned, NEW r \in Runs, RunInv(r), Proceed(r) \/ Abort(r)
    PROVE  StagedSoFar(r)'
<1> USE DEF RunInv, StagedSoFar, Passed, Go, WriteStaged, memory, disk
<1>0. pc[r] \notin {"start", "ended"} =>
        run_dir[r] \in Seconds /\ run_dir[r] \in directories /\ run_dir[r] # NoSecond
  BY HasDirectory
<1>1. CASE MakeRunDir(r)
  BY <1>1, StagedAtStages, DemoAssumption DEF TypeOK, Owned, Working, MakeRunDir
<1>2. CASE RunDirTaken(r) \/ Exit(r) \/ Abort(r)
  BY <1>0, <1>2, StagedAtStages DEF TypeOK, Working, RunDirTaken, Exit, Abort
<1>3. CASE HashBefore(r) \/ ReadRecords(r) \/ ScanAndCompare(r) \/ HashAfter(r)
  BY <1>0, <1>3, StagedAtStages DEF TypeOK, Working, HashBefore, ReadRecords,
     ScanAndCompare, HashAfter
<1>4. CASE MakeStaging(r)
  BY <1>0, <1>4, StagedAtStages DEF TypeOK, Working, MakeStaging
<1>5. CASE WriteSource(r) \/ Import(r) \/ WriteManifest(r) \/ Explain(r)
  <2> DEFINE Step(f, to) == WriteStaged(r, f, to) /\ StagedAt(to) = StagedAt(f) \cup {f}
  <2>1. \E f \in {"source", "atif", "manifest", "report"},
           to \in {"atif", "manifest", "report", "scan"} : Step(f, to)
    BY <1>5, StagedAtStages DEF Files, WriteSource, Import, WriteManifest, Explain
  <2>2. PICK f \in {"source", "atif", "manifest", "report"},
             to \in {"atif", "manifest", "report", "scan"} : Step(f, to)
    BY <2>1
  <2>3. pc[r] = f /\ pc'[r] = to /\ run_dir' = run_dir
    BY <2>2 DEF TypeOK
  <2>4. staging'[run_dir[r]] = staging[run_dir[r]] \cup {<<f, r>>}
    BY <1>0, <2>2, <2>3 DEF TypeOK
  <2>5. \A x \in Files : <<x, r>> \in staging[run_dir[r]] <=> x \in StagedAt(f)
    BY <2>3 DEF Working
  <2> QED
    BY <2>2, <2>3, <2>4, <2>5
<1>6. CASE WriteResult(r)
  BY <1>0, <1>6, StagedAtStages DEF TypeOK, Working, WriteResult
<1>7. CASE Publish(r)
  BY <1>0, <1>7, StagedAtStages DEF TypeOK, Working, Publish
<1>8. CASE WriteSums(r)
  BY <1>0, <1>8, StagedAtStages DEF TypeOK, Working, WriteSums
<1>9. CASE RemoveStaged(r)
  BY <1>0, <1>9, StagedAtStages DEF TypeOK, Working, RemoveStaged
<1>10. CASE Withhold(r)
  BY <1>0, <1>10, StagedAtStages DEF TypeOK, Working, Withhold
<1> QED
  BY <1>1, <1>2, <1>3, <1>4, <1>5, <1>6, <1>7, <1>8, <1>9, <1>10 DEF Proceed

\* A run writes its result files one after the other.
LEMMA ResultsSoFarStep ==
    ASSUME TypeOK, Owned, NEW r \in Runs, RunInv(r), Proceed(r) \/ Abort(r)
    PROVE  ResultsSoFar(r)'
<1> USE DemoAssumption DEF TypeOK, RunInv, ResultsSoFar, Working, Go, WriteStaged, memory, disk
<1>0. pc[r] \notin {"start", "ended"} =>
        run_dir[r] \in Seconds /\ run_dir[r] \in directories /\ run_dir[r] # NoSecond
  BY HasDirectory
<1>1. CASE MakeRunDir(r)
  BY <1>0, <1>1, SMTT(30) DEF MakeRunDir
<1>2. CASE RunDirTaken(r) \/ Exit(r) \/ Abort(r)
  BY <1>0, <1>2 DEF RunDirTaken, Exit, Abort
<1>3. CASE HashBefore(r) \/ ReadRecords(r) \/ ScanAndCompare(r) \/ HashAfter(r)
  BY <1>0, <1>3 DEF HashBefore, ReadRecords, ScanAndCompare, HashAfter
<1>4. CASE MakeStaging(r)
  BY <1>0, <1>4 DEF MakeStaging
<1>5. CASE WriteSource(r) \/ Import(r) \/ WriteManifest(r) \/ Explain(r)
  BY <1>0, <1>5 DEF WriteSource, Import, WriteManifest, Explain
<1>6. CASE WriteResult(r)
  BY <1>0, <1>6 DEF WriteResult
<1>7. CASE Publish(r)
  BY <1>0, <1>7 DEF Publish
<1>8. CASE WriteSums(r)
  BY <1>0, <1>8 DEF WriteSums
<1>9. CASE RemoveStaged(r)
  BY <1>0, <1>9 DEF RemoveStaged
<1>10. CASE Withhold(r)
  BY <1>0, <1>10 DEF Withhold
<1> QED
  BY <1>1, <1>2, <1>3, <1>4, <1>5, <1>6, <1>7, <1>8, <1>9, <1>10 DEF Proceed

\* What a run publishes is all it has staged, scanned and found to be in order.
LEMMA PublishedStep ==
    ASSUME TypeOK, Owned, NEW r \in Runs, RunInv(r), Proceed(r) \/ Abort(r)
    PROVE  Published(r)'
<1> USE DemoAssumption DEF TypeOK, RunInv, Published, Go, WriteStaged, memory, disk
<1>0. pc[r] \notin {"start", "ended"} =>
        run_dir[r] \in Seconds /\ run_dir[r] \in directories /\ run_dir[r] # NoSecond
  BY HasDirectory
<1>1. CASE MakeRunDir(r)
  BY <1>1 DEF Owned, MakeRunDir
<1>2. CASE RunDirTaken(r) \/ Exit(r) \/ Abort(r)
  BY <1>0, <1>2, NotYetPublished DEF Working, RunDirTaken, Exit, Abort
<1>3. CASE HashBefore(r) \/ ReadRecords(r) \/ ScanAndCompare(r) \/ HashAfter(r)
  BY <1>0, <1>3, NotYetPublished DEF Working, HashBefore, ReadRecords, ScanAndCompare, HashAfter
<1>4. CASE MakeStaging(r)
  BY <1>0, <1>4, NotYetPublished DEF Working, MakeStaging
<1>5. CASE WriteSource(r) \/ Import(r) \/ WriteManifest(r) \/ Explain(r)
  BY <1>0, <1>5, NotYetPublished DEF Working, WriteSource, Import, WriteManifest, Explain
<1>6. CASE WriteResult(r)
  BY <1>0, <1>6, NotYetPublished DEF Working, WriteResult
<1>7. CASE Publish(r)
  <2>1. pc[r] = "decide" /\ findings[r] = {} /\ pc'[r] = "sums" /\ run_dir' = run_dir
    BY <1>7 DEF Passed, Publish
  <2>2. candidate'[run_dir[r]] = staging[run_dir[r]]
    BY <1>0, <1>7 DEF Publish
  <2>3. \A x \in Files : <<x, r>> \in staging[run_dir[r]]
    BY <2>1, StagedAtStages DEF StagedSoFar, Working, Passed
  <2>4. \A x \in Files, q \in Runs : <<x, q>> \in staging[run_dir[r]] => q = r
    BY <1>0, <2>1 DEF Owned
  <2>5. staging[run_dir[r]] \in SUBSET (Files \X Runs)
    BY <1>0, <2>1
  <2>6. staging[run_dir[r]] = Files \X {r}
    BY <2>3, <2>4, <2>5
  <2> QED
    BY <2>1, <2>2, <2>6, <1>7 DEF Publish, ResultsSoFar, Chronological
<1>8. CASE WriteSums(r)
  BY <1>0, <1>8 DEF WriteSums, Chronological
<1>9. CASE RemoveStaged(r)
  BY <1>0, <1>9, NotYetPublished DEF Working, RemoveStaged
<1>10. CASE Withhold(r)
  BY <1>0, <1>10, NotYetPublished DEF Working, Withhold
<1> QED
  BY <1>1, <1>2, <1>3, <1>4, <1>5, <1>6, <1>7, <1>8, <1>9, <1>10 DEF Proceed

\* A run that has decided has nothing staged, and a candidate exactly if it passed.
LEMMA DecidedStep ==
    ASSUME TypeOK, Owned, NEW r \in Runs, RunInv(r), Proceed(r) \/ Abort(r)
    PROVE  Decided(r)'
  <1> USE DEF TypeOK, RunInv, Judged, Scanned, Decided, Unchanged, Passed, Go, WriteStaged,
              memory, disk
<1>0. pc[r] \notin {"start", "ended"} =>
        run_dir[r] \in Seconds /\ run_dir[r] \in directories /\ run_dir[r] # NoSecond
  BY HasDirectory
<1>1. CASE MakeRunDir(r)
  BY <1>0, <1>1, NotYetPublished DEF Working, MakeRunDir
<1>2. CASE RunDirTaken(r) \/ Exit(r) \/ Abort(r)
  BY <1>0, <1>2, NotYetPublished DEF Working, RunDirTaken, Exit, Abort
<1>3. CASE HashBefore(r) \/ ReadRecords(r) \/ ScanAndCompare(r) \/ HashAfter(r)
  BY <1>0, <1>3, NotYetPublished DEF Working, HashBefore, ReadRecords, ScanAndCompare, HashAfter
<1>4. CASE MakeStaging(r)
  BY <1>0, <1>4, NotYetPublished DEF Working, MakeStaging
<1>5. CASE WriteSource(r) \/ Import(r) \/ WriteManifest(r) \/ Explain(r)
  BY <1>0, <1>5, NotYetPublished DEF Working, WriteSource, Import, WriteManifest, Explain
<1>6. CASE WriteResult(r)
  BY <1>0, <1>6, NotYetPublished DEF Working, WriteResult
<1>7. CASE Publish(r)
  BY <1>0, <1>7, NotYetPublished DEF Working, Publish
<1>8. CASE WriteSums(r)
  BY <1>0, <1>8, NotYetPublished DEF Working, WriteSums
<1>9. CASE RemoveStaged(r)
  BY <1>0, <1>9, NotYetPublished DEF Working, RemoveStaged
<1>10. CASE Withhold(r)
  BY <1>0, <1>10, NotYetPublished DEF Working, Withhold
<1> QED
  BY <1>1, <1>2, <1>3, <1>4, <1>5, <1>6, <1>7, <1>8, <1>9, <1>10 DEF Proceed

-----------------------------------------------------------------------------
\* The demo starts with nothing on disk.
LEMMA DemoInvInit == Init => DemoInv
<1> SUFFICES ASSUME Init PROVE DemoInv
  OBVIOUS
<1> USE DemoAssumption DEF Init
<1>1. TypeOK
  BY DEF TypeOK, Stages
<1>2. Owned
  BY DEF Owned
<1>3. ASSUME NEW r \in Runs PROVE RunInv(r)
  BY DEF RunInv, Judged, Chronological, StagedSoFar, ResultsSoFar, Published, Decided,
     Scanned, Working
<1> QED
  BY <1>1, <1>2, <1>3 DEF DemoInv

\* The invariant is inductive.
LEMMA DemoInvNext == DemoInv /\ [Next]_vars => DemoInv'
<1> SUFFICES ASSUME DemoInv, [Next]_vars PROVE DemoInv'
  OBVIOUS
<1>1. TypeOK /\ Owned /\ (\A r \in Runs : RunInv(r)) /\ raw \in Nat
  BY DemoAssumption DEF DemoInv, TypeOK
<1>2. ASSUME NEW r \in Runs, Proceed(r) \/ Abort(r)
      PROVE  DemoInv'
  <2>1. TypeOK' /\ Owned'
    BY <1>1, <1>2, TypeStep, OwnedStep
  <2>2. RunInv(r)'
    BY <1>1, <1>2, JudgedStep, ChronologicalStep, StagedSoFarStep, ResultsSoFarStep,
       PublishedStep, DecidedStep DEF RunInv
  <2>3. ASSUME NEW q \in Runs, q # r
        PROVE  RunInv(q)'
    <3>1. Untouched(q) /\ raw' = raw
      BY <1>1, <1>2, <2>3, Noninterference
    <3> QED
      BY <1>1, <3>1, UntouchedInv
  <2> QED
    BY <2>1, <2>2, <2>3 DEF DemoInv
<1>3. CASE Grow \/ UNCHANGED vars
  <2>1. UNCHANGED <<pc, run_dir, memory, wrote, exit, disk>>
    BY <1>3 DEF Grow, vars
  <2>2. raw <= raw' /\ raw' \in 0 .. MaxVersion
    BY <1>1, <1>3, DemoAssumption DEF Grow, vars, TypeOK
  <2>3. TypeOK' /\ Owned'
    BY <1>1, <2>1, <2>2 DEF TypeOK, Owned, memory, disk
  <2>4. ASSUME NEW q \in Runs
        PROVE  RunInv(q)'
    <3>1. Untouched(q)
      BY <2>1 DEF Untouched, memory, disk
    <3> QED
      BY <1>1, <2>2, <3>1, UntouchedInv, DemoAssumption
  <2> QED
    BY <2>3, <2>4 DEF DemoInv
<1> QED
  BY <1>2, <1>3 DEF Next, AllEnded

\* Whatever the runs do and wherever they end, DemoInv holds.
THEOREM DemoInvariant == Spec => []DemoInv
<1> QED
  BY DemoInvInit, DemoInvNext, PTL DEF Spec

\* Every state of the demo has its type.
THEOREM TypeCorrect == Spec => []TypeOK
<1>1. DemoInv => TypeOK
  BY DEF DemoInv
<1> QED
  BY <1>1, DemoInvariant, PTL

-----------------------------------------------------------------------------
\* The candidate of a directory is of the run that owns the directory.
LEMMA CandidateOwner ==
    ASSUME TypeOK, Owned, NEW s \in Seconds, NEW r \in Runs, CandidateOf(s, r)
    PROVE  s = run_dir[r]
BY DEF Owned, CandidateOf, Files

\* What is there as a candidate is the whole output of one run, which the scan passed,
\* for any number of runs: CandidateScanned.
THEOREM CandidatesAreScanned == Spec => []CandidateScanned
<1>1. DemoInv => CandidateScanned
  <2> SUFFICES ASSUME DemoInv, NEW s \in published
               PROVE  \E r \in Runs : /\ CandidateOf(s, r) /\ findings[r] = {}
                                      /\ \A k \in 1 .. ResultFiles : results[s][k] = r
    BY DEF CandidateScanned
  <2>1. PICK r \in Runs : run_dir[r] = s
    BY DEF DemoInv, Owned
  <2> QED
    BY <2>1 DEF DemoInv, RunInv, Published, CandidateOf
<1> QED
  BY <1>1, DemoInvariant, PTL

\* Runs that start in the same second never write into one directory: OneRunPerDirectory.
THEOREM DirectoriesAreExclusive == Spec => []OneRunPerDirectory
<1>1. DemoInv => OneRunPerDirectory
  <2> SUFFICES ASSUME DemoInv, NEW s \in Seconds
               PROVE  \E r \in Runs :
                          /\ \A f \in staging[s] \cup candidate[s] : f[2] = r
                          /\ \A k \in 1 .. ResultFiles : results[s][k] \in {r, NoRun}
                          /\ sums[s] \in {r, NoRun}
    BY DEF OneRunPerDirectory
  <2>1. /\ \A f \in staging[s] \cup candidate[s] : f[2] \in Runs /\ run_dir[f[2]] = s
        /\ \A k \in 1 .. ResultFiles :
              results[s][k] = NoRun \/ (results[s][k] \in Runs /\ run_dir[results[s][k]] = s)
        /\ sums[s] = NoRun \/ (sums[s] \in Runs /\ run_dir[sums[s]] = s)
    <3>1. staging[s] \cup candidate[s] \in SUBSET (Files \X Runs)
      BY DEF DemoInv, TypeOK
    <3>2. \A f \in staging[s] \cup candidate[s] :
             f[1] \in Files /\ f[2] \in Runs /\ f = <<f[1], f[2]>>
      BY <3>1
    <3>3. \A f \in staging[s] \cup candidate[s] : run_dir[f[2]] = s
      BY <3>2 DEF DemoInv, Owned
    <3>4. ASSUME NEW k \in 1 .. ResultFiles
          PROVE  results[s][k] = NoRun \/ (results[s][k] \in Runs /\ run_dir[results[s][k]] = s)
      <4>1. results[s] \in [1 .. ResultFiles -> Runs \cup {NoRun}]
        BY DEF DemoInv, TypeOK
      <4>2. results[s][k] \in Runs \cup {NoRun}
        BY <4>1
      <4> QED
        BY <4>2 DEF DemoInv, Owned
    <3>5. sums[s] = NoRun \/ (sums[s] \in Runs /\ run_dir[sums[s]] = s)
      BY DEF DemoInv, TypeOK, Owned
    <3> QED
      BY <3>2, <3>3, <3>4, <3>5
  <2>2. \A r, q \in Runs : run_dir[r] = s /\ run_dir[q] = s => r = q
    BY DemoAssumption DEF DemoInv, Owned
  <2>3. CASE \E r \in Runs : run_dir[r] = s
    BY <2>1, <2>2, <2>3
  <2>4. CASE ~\E r \in Runs : run_dir[r] = s
    BY <2>1, <2>4, DemoAssumption
  <2> QED
    BY <2>3, <2>4
<1> QED
  BY <1>1, DemoInvariant, PTL

\* A candidate whose manifest gives the hash of another content than was read says so in
\* its notes, and its run did not succeed: HashNamesContent.
THEOREM HashesNameContents == Spec => []HashNamesContent
<1>1. DemoInv => HashNamesContent
  <2> SUFFICES ASSUME DemoInv, NEW s \in Seconds, NEW r \in Runs, CandidateOf(s, r),
                      records[r] # sha_before[r]
               PROVE  ~Unchanged(r) /\ exit[r] # "ok"
    BY DEF HashNamesContent
  <2>1. s = run_dir[r] /\ s \in published
    BY CandidateOwner DEF DemoInv, CandidateOf
  <2>2. sha_before[r] <= records[r] /\ records[r] <= sha_after[r]
    BY <2>1 DEF DemoInv, RunInv, Published
  <2>3. sha_before[r] \in Nat /\ records[r] \in Nat /\ sha_after[r] \in Nat
    BY DEF DemoInv, TypeOK
  <2>4. ~Unchanged(r)
    BY <2>2, <2>3 DEF Unchanged
  <2> QED
    BY <2>4 DEF DemoInv, RunInv, Decided
<1> QED
  BY <1>1, DemoInvariant, PTL

\* A run that exits with 0 has published all of its output, with checksums, from the raw
\* log whose hash the manifest gives: SuccessIsComplete.
THEOREM SuccessMeansComplete == Spec => []SuccessIsComplete
<1>1. DemoInv => SuccessIsComplete
  <2> SUFFICES ASSUME DemoInv, NEW r \in Runs, exit[r] = "ok"
               PROVE  /\ CandidateOf(run_dir[r], r) /\ sums[run_dir[r]] = r
                      /\ records[r] = sha_before[r] /\ equivalent[r]
    BY DEF SuccessIsComplete
  <2>1. run_dir[r] \in published /\ sums[run_dir[r]] = r /\ Unchanged(r) /\ equivalent[r]
    BY DEF DemoInv, RunInv, Decided
  <2>2. /\ candidate[run_dir[r]] = Files \X {r}
        /\ sha_before[r] <= records[r] /\ records[r] <= sha_after[r]
    BY <2>1 DEF DemoInv, RunInv, Published
  <2>3. sha_before[r] \in Nat /\ records[r] \in Nat /\ sha_after[r] \in Nat
    BY DEF DemoInv, TypeOK
  <2>4. records[r] = sha_before[r]
    BY <2>1, <2>2, <2>3 DEF Unchanged
  <2> QED
    BY <2>1, <2>2, <2>4 DEF CandidateOf
<1> QED
  BY <1>1, DemoInvariant, PTL

\* A run that ends by itself leaves nothing staged, and a candidate exactly if it passed
\* the scan: NothingLeftStaged.
THEOREM NothingStaysStaged == Spec => []NothingLeftStaged
<1>1. DemoInv => NothingLeftStaged
  BY DEF DemoInv, RunInv, Decided, NothingLeftStaged
<1> QED
  BY <1>1, DemoInvariant, PTL

-----------------------------------------------------------------------------
\* A directory without a candidate has no publisher, and one with a candidate its owner.
LEMMA PublisherIsOwner ==
    ASSUME DemoInv, NEW s \in Seconds
    PROVE  /\ s \notin published => Publisher(s) = NoRun
           /\ \A r \in Runs : CandidateOf(s, r) => Publisher(s) = r
           /\ \A r \in Runs : Publisher(s) = r => s = run_dir[r] /\ s \in published
<1>1. \A r, q \in Runs : CandidateOf(s, r) /\ CandidateOf(s, q) => r = q
  BY CandidateOwner, DemoAssumption DEF DemoInv, Owned
<1>2. (\E r \in Runs : CandidateOf(s, r)) => Publisher(s) \in Runs /\ CandidateOf(s, Publisher(s))
  BY DEF Publisher
<1>3. (~\E r \in Runs : CandidateOf(s, r)) => Publisher(s) = NoRun
  BY DEF Publisher
<1> QED
  BY <1>1, <1>2, <1>3, CandidateOwner, DemoAssumption DEF DemoInv, CandidateOf

\* The initial state of the demo is that of CandidatePublication.
LEMMA PublicationInit == Init => Publication!Init
<1> SUFFICES ASSUME Init PROVE Publication!Init
  OBVIOUS
<1>1. \A r \in Runs : Verdict(r) = "none"
  BY DEF Init, Verdict, Unscanned
<1>2. \A s \in Seconds : Publisher(s) = NoRun
  BY DEF Init, Publisher, CandidateOf
<1> QED
  BY <1>1, <1>2 DEF Publication!Init

\* Where neither findings nor candidates change, nothing happens in CandidatePublication.
LEMMA PublicationStutters ==
    ASSUME UNCHANGED <<findings, published, candidate>>
    PROVE  UNCHANGED <<[r \in Runs |-> Verdict(r)], [s \in Seconds |-> Publisher(s)]>>
BY DEF Verdict, Publisher, CandidateOf

\* The scan of a run is a judgement.
LEMMA ScanJudges ==
    ASSUME DemoInv, NEW r \in Runs, ScanAndCompare(r)
    PROVE  Publication!Judge(r)
<1>1. findings[r] = Unscanned
  BY DEF DemoInv, RunInv, Judged, Scanned, ScanAndCompare, Go
<1>2. PICK found \in Findings : findings' = [findings EXCEPT ![r] = found]
  BY DEF ScanAndCompare
<1>3. found # Unscanned
  BY DemoAssumption DEF Files, Unscanned
<1> DEFINE v == IF found = {} THEN "PASS" ELSE "FAIL"
<1>4. findings'[r] = found
  BY <1>2 DEF DemoInv, TypeOK
<1>5. Verdict(r) = "none"
  BY <1>1 DEF Verdict, Unscanned
<1>6. Verdict(r)' = v
  BY <1>3, <1>4 DEF Verdict, Unscanned
<1>7. \A q \in Runs : q # r => Verdict(q)' = Verdict(q)
  BY <1>2 DEF Verdict, DemoInv, TypeOK
<1>8. [q \in Runs |-> Verdict(q)]' = [[q \in Runs |-> Verdict(q)] EXCEPT ![r] = v]
  BY <1>6, <1>7
<1>9. UNCHANGED [s \in Seconds |-> Publisher(s)]
  BY DEF ScanAndCompare, disk, Publisher, CandidateOf
<1> QED
  BY <1>5, <1>8, <1>9 DEF Publication!Judge

\* The renaming of what a run has staged publishes it.
LEMMA RenamingPublishes ==
    ASSUME DemoInv, DemoInv', NEW r \in Runs, Publish(r)
    PROVE  \E s \in Seconds : Publication!Publish(r, s)
<1>1. PICK d \in Seconds : d = run_dir[r]
  BY HasDirectory DEF DemoInv, Publish, Go
<1>2. d \notin published /\ findings[r] = {}
  BY <1>1 DEF Publish, Passed
<1>3. published' = published \cup {d} /\ UNCHANGED <<run_dir, findings>>
  BY <1>1 DEF Publish, memory
<1>4. Verdict(r) = "PASS"
  BY <1>2 DEF Verdict, Unscanned
<1>5. Publisher(d) = NoRun /\ \A s \in Seconds : Publisher(s) # r
  BY <1>1, <1>2, PublisherIsOwner
<1>6. d \in published' /\ candidate'[d] = Files \X {r}
  BY <1>1, <1>3 DEF DemoInv, RunInv, Published
<1>7. Publisher(d)' = r
  <2>1. ASSUME NEW q \in Runs, candidate'[d] = Files \X {q}
        PROVE  q = r
    <3>1. <<"source", q>> \in Files \X {r}
      BY <1>6, <2>1 DEF Files
    <3> QED
      BY <3>1
  <2> QED
    BY <1>6, <2>1 DEF Publisher, CandidateOf
<1>8. \A s \in Seconds : s # d => Publisher(s)' = Publisher(s)
  BY <1>1, <1>3, ZenonT(40) DEF Publish, Publisher, CandidateOf, DemoInv, TypeOK
<1>9. [s \in Seconds |-> Publisher(s)]' = [[s \in Seconds |-> Publisher(s)] EXCEPT ![d] = r]
  BY <1>7, <1>8
<1>10. UNCHANGED [q \in Runs |-> Verdict(q)]
  BY <1>3 DEF Verdict
<1> QED
  BY <1>2, <1>4, <1>5, <1>9, <1>10 DEF Publication!Publish

\* Every step of the demo is one of CandidatePublication or none.
LEMMA PublicationNext ==
    ASSUME DemoInv, DemoInv', [Next]_vars
    PROVE  [Publication!Next]_<<[r \in Runs |-> Verdict(r)], [s \in Seconds |-> Publisher(s)]>>
<1>1. ASSUME NEW r \in Runs, ScanAndCompare(r)
      PROVE  Publication!Next
  BY <1>1, ScanJudges DEF Publication!Next
<1>2. ASSUME NEW r \in Runs, Publish(r)
      PROVE  Publication!Next
  BY <1>2, RenamingPublishes DEF Publication!Next
<1>3. CASE Grow \/ UNCHANGED vars
  BY <1>3, PublicationStutters DEF Grow, vars, memory, disk
<1>4. ASSUME NEW r \in Runs, Proceed(r) \/ Abort(r), ~ScanAndCompare(r), ~Publish(r)
      PROVE  UNCHANGED <<findings, published, candidate>>
  BY <1>4 DEF Proceed, MakeRunDir, RunDirTaken, HashBefore, ReadRecords, MakeStaging,
     WriteSource,
     Import, WriteManifest, Explain, WriteStaged, HashAfter, WriteResult, WriteSums, RemoveStaged,
     Withhold, Exit, Abort, memory, disk
<1> QED
  BY <1>1, <1>2, <1>3, <1>4, PublicationStutters DEF Next, AllEnded

\* The demo implements CandidatePublication: only output that passed is published, once,
\* in an empty place, for good.
THEOREM DemoImplementsPublication == Spec => ImplementsPublication
<1>1. DemoInv /\ DemoInv' /\ [Next]_vars
        => [Publication!Next]_<<[r \in Runs |-> Verdict(r)], [s \in Seconds |-> Publisher(s)]>>
  BY PublicationNext
<1> QED
  BY <1>1, PublicationInit, DemoInvariant, PTL DEF Spec, ImplementsPublication, Publication!Spec
===============================================================================
