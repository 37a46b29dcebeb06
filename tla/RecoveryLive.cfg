\* One request at a time under fair scheduling and redelivery; nothing crashes.
SPECIFICATION FairSpec
CONSTANTS
    w1 = w1
    w2 = w2
    transfer = transfer
    flight = flight
    Worker = {w1}
    Label = {transfer, flight}
    Flight = flight
    Transfer = transfer
    Asked <- FirstFlight
    MaxPlan = 2
    MaxAttempt = 1
    MaxCopy = 1
    MaxTerminal = 1
    MaxFaults = 0
PROPERTIES
    ComesToRest
    LapsedApprovalsEnd
\* Nothing is left to deliver once the incident is at rest.
CHECK_DEADLOCK FALSE
