\* Everything that is not converted, before and after sanitizing, in files of up to three lines.
CONSTANTS
    a = a
    b = b
    noCall = noCall
    m1 = m1
    m2 = m2
    noMessage = noMessage
    u1 = u1
    u2 = u2
    noUsage = noUsage
    x = x
    y = y
    noMeta = noMeta
    f1 = f1
    f2 = f2
    CallIds <- SanitizerCallIds
    BlankIds <- MCBlankIds
    NoCallId = noCall
    MessageIds <- MCMessageIds
    NoMessageId = noMessage
    Usages <- MCUsages
    NoUsage = noUsage
    MetaValues <- MCMetaValues
    NotStrings <- MCNotStrings
    NoMeta = noMeta
    Fields <- MCFields
    Lines <- SanitizerLines
    CallPseudonyms <- MCCallPseudonyms
    MessagePseudonyms <- MCMessagePseudonyms
    Placeholder = x
    MaxLines = 3
    MaxBlocks = 3
SPECIFICATION SanitizerSpec
INVARIANTS
    RecordsAccounted
    LossesAccounted
    TrajectoryFollowsFile
    EquivalenceExplained
    CorrelationSurvives
    SanitizingIsIdempotent
