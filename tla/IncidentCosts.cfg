CONSTANTS
    Item <- Items
    Case <- Cases
    None = None
    Call = {c1, c2}
    Incident = {1, 2}
SPECIFICATION Spec
INVARIANTS
    ImpactIsExact
    PlanIsVerifiable
    PlanMovesOnlyAffected
    AdviceAgreesWithImpact
    ClaimIsDue
    ClosedIsSettled
    ExpenseFollowsEffect
CHECK_DEADLOCK FALSE
