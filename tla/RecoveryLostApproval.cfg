\* One request at a time under fair scheduling and redelivery; one may die.
SPECIFICATION FairSpec
CONSTANTS
    w1 = w1
    w2 = w2
    transfer = transfer
    flight = flight
    Worker = {w1}
    Label = {flight}
    Flight = flight
    Transfer = transfer
    Asked <- EveryFlight
    MaxPlan = 1
    MaxAttempt = 0
    MaxCopy = 1
    MaxTerminal = 0
    MaxFaults = 1
PROPERTIES
    ApprovalIsCarriedOut
\* Nothing is left to deliver once the incident is at rest.
CHECK_DEADLOCK FALSE
