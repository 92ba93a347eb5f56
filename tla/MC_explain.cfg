\* From the file to the report, in files of up to four lines.
CONSTANTS
    a = a
    b = b
    noCall = noCall
    m1 = m1
    m2 = m2
    noMessage = noMessage
    u1 = u1
    u2 = u2
    noUsage = noUsage
    x = x
    y = y
    noMeta = noMeta
    f1 = f1
    f2 = f2
    CallIds <- MCCallIds
    BlankIds <- MCBlankIds
    NoCallId = noCall
    MessageIds <- MCMessageIds
    NoMessageId = noMessage
    Usages <- MCUsages
    NoUsage = noUsage
    MetaValues <- MCMetaValues
    NotStrings <- MCNotStrings
    NoMeta = noMeta
    Fields <- MCFields
    Lines <- ExplainLines
    Tokens <- MCTokens
    MaxLines = 4
    MaxBlocks = 3
SPECIFICATION ExplainSpec
INVARIANTS
    UsageAccounted
    OutcomesFromFile
    NothingLostIsTrue
    TokensPerResponse
    TamperingNoticed
    ReportAndSpansAgree
