SPECIFICATION FairSpec
CONSTANTS
    queue = queue
    polling = polling
    Callers <- MCCallers
    Poller = polling
    Retries = 2
    Modulus = 4
    PortAttempts = 0
    MaxFaults = 2
CHECK_DEADLOCK FALSE
INVARIANT TypeOK
INVARIANT OkMeansDone
INVARIANT AckRecognised
PROPERTY EveryCallReturns
PROPERTY PollsAgain
