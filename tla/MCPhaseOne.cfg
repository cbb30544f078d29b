\* Schemas of up to two definitions behind imports, with files in various places.
SPECIFICATION Spec
CONSTANTS
    Schemas <- MCSchemas
    FileSets <- MCFileSets
    LeftoverTables <- MCLeftoverTables
    LeftoverImports <- MCLeftoverImports
    MinusOneName <- MCMinusOneName
    NumName <- MCNumName
INVARIANTS TypeOK TableIsDeclared AcceptsWhatIsDeclared
CHECK_DEADLOCK FALSE
