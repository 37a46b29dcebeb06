SPECIFICATION FairSpec
CONSTANTS
    w1 = w1
    w2 = w2
    Worker <- Deliveries
    NoOne = NoOne
    ResumeBumpsVersion = TRUE
    LeaseLen = 1
    MaxTime = 4
    MaxCrashes = 1
    MaxErrors = 1
INVARIANTS EventAndIncidentAgree InterpretationFitsImpact
PROPERTIES EventIsCompleted
