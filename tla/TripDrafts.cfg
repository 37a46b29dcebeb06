\* Two overlapping updates of one chat, one of which may die.
SPECIFICATION Spec
CONSTANTS
    r1 = r1
    r2 = r2
    a = a
    b = b
    x = x
    Nothing = Nothing
    Request = {r1, r2}
    Option = {a, b}
    Booking = {x}
    MaxUpdates = 5
    MaxFaults = 1
SYMMETRY Requests
INVARIANTS
    ChoiceIsOnOffer
PROPERTIES
    ClosedStaysClosed
    SaveClearsLast
\* The traveler may send nothing more.
CHECK_DEADLOCK FALSE
