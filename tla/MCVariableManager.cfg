SPECIFICATION Spec
CONSTANTS
    Names       <- MCNames
    Dotted      <- MCDotted
    EnumRefs    <- MCEnumRefs
    TreeNames   <- MCTreeNames
    Values      <- MCValues
    NonInteger  = NonInteger
    Nodes       <- MCNodes
    Root        = "root"
    Enumerators <- MCEnumerators
    Consts      <- MCConsts
    MaxScopes   = 2
INVARIANTS TypeOK ScopesOwnLookup
PROPERTY ImplementsScopedEnvironment
