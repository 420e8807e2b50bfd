SPECIFICATION Spec
CONSTANTS
    MaxConnections = 2
    Uri <- MCUri
    Stalling <- MCStalling
    MaxCommands = 2
    MaxEvents = 1
CHECK_DEADLOCK FALSE
INVARIANT EndedConnectionRemoved
