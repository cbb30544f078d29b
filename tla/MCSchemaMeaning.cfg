SPECIFICATION Spec
CONSTANTS
    Schemas     <- MCSchemas
    Saves       <- MCSaves
    Names       <- MCNames
    Dotted      <- MCDotted
    EnumRefs    <- MCEnumRefs
    TreeNames   <- MCTreeNames
    Values      <- MCValues
    NonInteger  = NonInteger
    Enumerators <- MCEnumerators
    Consts      <- MCConsts
    Paths       <- MCPaths
    EnumValues  <- MCEnumValues
    MaxArray    = 3
INVARIANTS TypeOK ContextsMatchCalls ReplacementsDoNotNest ReadsWhatIsMeant FailsOnlyOnErrors
PROPERTY Terminates
