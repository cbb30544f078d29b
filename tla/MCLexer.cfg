SPECIFICATION Spec
CONSTANTS
    Texts      <- MCTexts
    Leftover   <- MCLeftover
    MaxLine    = 9
    MaxName    = 3
    MaxNumber  = 4
    MaxLiteral = 2
CHECK_DEADLOCK FALSE
INVARIANTS TypeOK ReadsAsGrammar RefusesFirstError
PROPERTY Ends
