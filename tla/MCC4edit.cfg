SPECIFICATION Spec
CONSTANTS
    Upper <- MCUpper
    Integral = {}
    ArgumentLists <- MCArgumentLists
    Disks <- MCDisks
    LastPart <- MCLastPart
INVARIANTS TypeOK ObeysWhatIsAllowed SuccessMeansWritten FailureSparesFiles CrashDumpHoldsTree
CHECK_DEADLOCK FALSE
