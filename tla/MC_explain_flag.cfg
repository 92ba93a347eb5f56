\* An error flag that says true and is not JSON true, in files of up to two lines.
CONSTANTS
    a = a
    b = b
    noCall = noCall
    m1 = m1
    m2 = m2
    noMessage = noMessage
    u1 = u1
    u2 = u2
    noUsage = noUsage
    x = x
    y = y
    noMeta = noMeta
    f1 = f1
    f2 = f2
    CallIds <- MCCallIds
    BlankIds <- MCBlankIds
    NoCallId = noCall
    MessageIds <- MCMessageIds
    NoMessageId = noMessage
    Usages <- MCUsages
    NoUsage = noUsage
    MetaValues <- MCMetaValues
    NotStrings <- MCNotStrings
    NoMeta = noMeta
    Fields <- MCFields
    Lines <- ExplainLines
    Tokens <- MCTokens
    MaxLines = 2
    MaxBlocks = 3
SPECIFICATION ExplainSpec
INVARIANTS
    ErrorFlagIsError
