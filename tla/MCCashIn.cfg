SPECIFICATION FairSpec
CONSTANTS
    Limits <- MCLimits
    Capacity = 1
    MaxNotes = 2
    MaxCommands = 4
    MaxCrashes = 1
CHECK_DEADLOCK FALSE
INVARIANT TypeOK
 
PROPERTY MisledOnlyByLostAnswer
PROPERTY CrashRecovered
PROPERTY TransactionKept
PROPERTY StopEndsCommand
