\* One request at a time over two plans; it dies at any step, a Telegram answer is
\* lost, or a command is published twice.  The traveler decides on both plans' cards.
SPECIFICATION Spec
CONSTANTS
    w1 = w1
    w2 = w2
    transfer = transfer
    flight = flight
    Worker = {w1}
    Label = {transfer, flight}
    Flight = flight
    Transfer = transfer
    Asked <- EveryFlight
    MaxPlan = 2
    MaxAttempt = 1
    MaxCopy = 2
    MaxTerminal = 1
    MaxFaults = 1
CONSTRAINT OneFault
INVARIANTS
    RestHasAReason
    QuietIsFinished
\* Nothing is left to deliver once the incident is at rest.
CHECK_DEADLOCK FALSE
