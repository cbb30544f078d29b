SPECIFICATION Spec
CONSTANTS
    Tokens      <- MCTokens
    Identifiers <- MCIdentifiers
    Types       <- MCTypes
    Texts       <- MCTexts
    Reused      = FALSE
    MaxGuards   = 2
    MaxOverrun  = 1
INVARIANTS TypeOK StreamIsText
