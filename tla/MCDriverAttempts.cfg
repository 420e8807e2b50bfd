SPECIFICATION Spec
CONSTANTS
    queue = queue
    polling = polling
    Callers <- MCCallers
    Poller = polling
    Retries = 2
    Modulus = 4
    PortAttempts = 2
    MaxFaults = 2
CHECK_DEADLOCK FALSE
INVARIANT ReportedAfterAttempts
