SPECIFICATION FairSpec
CONSTANTS
    MaxConnections = 2
    Uri <- MCUri
    Stalling <- MCStalling
    MaxCommands = 2
    MaxEvents = 1
CHECK_DEADLOCK FALSE
INVARIANT TypeOK
INVARIANT AckThenOneAnswer
INVARIANT NoCommandOfRemoved
INVARIANT WritesMeet
PROPERTY AckedIsAnswered
PROPERTY EndsWhenAsked
