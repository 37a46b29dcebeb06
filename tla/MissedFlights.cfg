CONSTANTS
    Item <- Items
    Case <- Cases
    None = None
    Call = {c1}
    Incident = {1}
SPECIFICATION Spec
INVARIANT RecoveredTripConnects
CHECK_DEADLOCK FALSE
