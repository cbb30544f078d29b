SPECIFICATION Spec
CHECK_DEADLOCK FALSE
CONSTANTS
    Declarations      <- MCDeclarations
    Identifier        = "Self"
    Siblings          <- MCSiblings
    Enums             <- MCEnums
    NoEnum            = "no enum"
    FooterBytes       = 2
    MaxArrayDimension = 3
    InvalidSize       = 99
INVARIANTS TypeOK ArraysAsDeclared
PROPERTIES ElementsInOrder Ends
