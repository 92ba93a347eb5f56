\* The verifier on what the parser wrote, altered or not, in files of up to four lines.
CONSTANTS
    a = a
    b = b
    noCall = noCall
    m1 = m1
    m2 = m2
    noMessage = noMessage
    u1 = u1
    u2 = u2
    noUsage = noUsage
    x = x
    y = y
    noMeta = noMeta
    f1 = f1
    f2 = f2
    CallIds <- MCCallIds
    BlankIds <- MCBlankIds
    NoCallId = noCall
    MessageIds <- MCMessageIds
    NoMessageId = noMessage
    Usages <- MCUsages
    NoUsage = noUsage
    MetaValues <- MCMetaValues
    NotStrings <- MCNotStrings
    NoMeta = noMeta
    Fields <- MCFields
    Lines <- VerifierLines
    MaxLines = 4
    MaxBlocks = 3
SPECIFICATION VerifierSpec
INVARIANTS
    UnsupportedCountsAgree
    RejectionsHaveAReason
    MutationsRejected
