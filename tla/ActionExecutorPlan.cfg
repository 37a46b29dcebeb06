SPECIFICATION Spec
CONSTANTS
    transfer = transfer
    flight = flight
    ride = ride
    seat = seat
    cab = cab
    plane = plane
    w1 = w1
    w2 = w2
    id1 = id1
    NoEffect = NoEffect
    NoOne = NoOne
    NoJob = NoJob
    Worker = {w1, w2}
    WorkerId = {id1}
    EffectOf <- MCEffectOf
    ResourceOf <- MCResourceOf
    Prereqs <- MCPrereqs
    LeaseLen = 1
    RetryDelay = 1
    Action <- PlanActions
    Effect = {ride, seat}
    Resource = {cab, plane}
    IdOf <- SharedId
    NeedsApproval = {flight}
    LookupEffect = {ride}
    MaxTime = 2
    MaxAttempts = 5
    MaxCrashes = 1
SYMMETRY WorkerSymmetry
INVARIANTS RepeatedOnlyIfContested ReceiptsAreReal DoneIsReceipted EffectsAreSanctioned
PROPERTIES KeepsToLife
