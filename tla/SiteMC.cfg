SPECIFICATION Spec
CONSTANTS
    Tree <- MCTree
    root <- MCroot
    kReadKeywords <- MCkReadKeywords
    kForbiddenTokens <- MCkForbiddenTokens
    Requests <- MCRequests
CHECK_DEADLOCK FALSE
INVARIANTS ServedIsPublic LinksLead OnlyReadsSubmitted
