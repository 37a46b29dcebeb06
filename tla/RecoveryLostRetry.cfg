\* A plan of two automatic actions, each of which may fail once; nothing crashes.
SPECIFICATION Spec
CONSTANTS
    w1 = w1
    w2 = w2
    transfer = transfer
    flight = flight
    Worker = {w1}
    Label = {transfer, flight}
    Flight = flight
    Transfer = transfer
    Asked = {}
    MaxPlan = 1
    MaxAttempt = 1
    MaxCopy = 1
    MaxTerminal = 0
    MaxFaults = 0
INVARIANTS
    RetryIsScheduled
\* Nothing is left to deliver once the incident is at rest.
CHECK_DEADLOCK FALSE
