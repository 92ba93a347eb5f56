\* The whole of `convert`, above all its tool calls and results, in files of up to five lines.
CONSTANTS
    a = a
    b = b
    noCall = noCall
    m1 = m1
    m2 = m2
    noMessage = noMessage
    u1 = u1
    u2 = u2
    noUsage = noUsage
    x = x
    y = y
    noMeta = noMeta
    f1 = f1
    f2 = f2
    CallIds <- MCCallIds
    BlankIds <- MCBlankIds
    NoCallId = noCall
    MessageIds <- MCMessageIds
    NoMessageId = noMessage
    Usages <- MCUsages
    NoUsage = noUsage
    MetaValues <- MCMetaValues
    NotStrings <- MCNotStrings
    NoMeta = noMeta
    Fields <- MCFields
    Lines <- ConvertLines
    OtherTrajectories <- MCTrajectories
    MaxLines = 5
    MaxBlocks = 3
SPECIFICATION ConvertSpec
CONSTRAINT
    SkippedInShortFiles
INVARIANTS
    TypeOK
    ToolTrafficAccounted
    ResultAtLatestCall
    ResultsOnceInOrder
    NormalizationReported
    ResponsesFollowTheirCall
    TranscriptComplete
    TranscriptTimesInOrder
    PartsAccounted
PROPERTIES
    StepsOnlyGrow
    ImplementsCorrelation
