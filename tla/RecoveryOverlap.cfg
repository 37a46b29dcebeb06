\* Two overlapping requests, two plans of a flight that needs approval, a third
\* of one that does not.
SPECIFICATION Spec
CONSTANTS
    w1 = w1
    w2 = w2
    transfer = transfer
    flight = flight
    Worker = {w1, w2}
    Label = {flight}
    Flight = flight
    Transfer = transfer
    Asked <- TwoFlights
    MaxPlan = 3
    MaxAttempt = 0
    MaxCopy = 1
    MaxTerminal = 0
    MaxFaults = 0
SYMMETRY RequestSymmetry
CONSTRAINT Overlapping
INVARIANTS
    RecoveredIsVerified
    EffectsAreAuthorized
    OnePlanIsActedOn
    OutcomeIsOfCurrentPlan
PROPERTIES
    DecisionsConcernCurrentPlan
    FollowsLifecycle
    KeepsToLife
\* Nothing is left to deliver once the incident is at rest.
CHECK_DEADLOCK FALSE
