\* Two runs of the private demo over a raw log that may grow once.
CONSTANTS
    r1 = r1
    r2 = r2
    noRun = noRun
    s1 = s1
    s2 = s2
    noSecond = noSecond
    Runs <- MCRuns
    NoRun = noRun
    Seconds <- MCSeconds
    NoSecond = noSecond
    Findings <- MCFindings
    ResultFiles = 2
    MaxVersion = 1
SPECIFICATION Spec
INVARIANTS
    TypeOK
    CandidateScanned
    OneRunPerDirectory
    HashNamesContent
    SuccessIsComplete
    NothingLeftStaged
PROPERTIES
    FailedScanDeleted
    ImplementsPublication
