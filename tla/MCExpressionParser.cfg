\* Expressions of three operands, references, and any four tokens.
SPECIFICATION SpecMeaning
CONSTANTS
    a = a
    b = b
    missing = missing
    Scope = Scope
    MaxInt = 127
    Known <- MCKnown
    Trees <- MCTrees
    Texts <- MCTexts
    Leftovers <- MCLeftovers
INVARIANTS TypeOK OperandsMatchCalls ValueIsMeaning TakesExpressions
PROPERTY Ends
CHECK_DEADLOCK FALSE
