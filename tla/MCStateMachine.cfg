SPECIFICATION FairSpec
CONSTANTS
    States <- MCStates
    InitialState = "Disabled"
    HistoryCapacity = 3
    Waiters <- MCWaiters
    Outcomes <- MCOutcomes
    CancelOn <- MCCancelOn
    Skipping = {"command"}
    MaxUid = 3
CHECK_DEADLOCK FALSE
INVARIANT TypeOK
INVARIANT NoStaleEvent
PROPERTY HandlersOnlySubscribed
PROPERTY CancelEndsWait
PROPERTY EventEndsRegisteredWait
