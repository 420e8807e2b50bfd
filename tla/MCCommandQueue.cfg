SPECIFICATION FairSpec
CONSTANTS
    c1 = c1
    c2 = c2
    a1 = a1
    a2 = a2
    b1 = b1
    Connections <- MCConnections
    Commands <- MCCommands
    Owner <- MCOwner
    NoCommand = NoCommand
    NoConnection = NoConnection
CHECK_DEADLOCK FALSE
INVARIANT TypeOK
INVARIANT SignalsCoverCommands
INVARIANT SleepsOnlyWithoutWork
INVARIANT CancelFlagOfCurrent
INVARIANT NothingCurrentWhenWoken
PROPERTY OnlyConnectedServed
PROPERTY ServiceSpec
PROPERTY ServedUnlessHalted
