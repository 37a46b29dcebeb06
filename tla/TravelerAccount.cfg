\* Overlapping requests of one chat and the browser, one of which may die.
SPECIFICATION SmallSpec
CONSTANTS
    r1 = r1
    r2 = r2
    u1 = u1
    u2 = u2
    u3 = u3
    card = card
    junk = junk
    l1 = l1
    calendar = calendar
    gemini = gemini
    Nothing = Nothing
    Request = {r1, r2}
    Update = {u1, u2, u3, card, junk}
    Button = {card}
    Malformed = {junk}
    Provider = {calendar, gemini}
    Google = {calendar}
    Link = {l1}
    RateLimit = 1
    MaxFaults = 1
    MaxPolicy = 2
INVARIANTS
    CompleteMeansPolicy
    LinkIsUsedOnce
PROPERTIES
    UpdatesAreAnswered
    DisconnectedIsRevoked
\* The traveler may send nothing more.
CHECK_DEADLOCK FALSE
