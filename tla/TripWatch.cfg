\* Two overlapping ticks that handle one fact and one watchpoint at a time, two
\* faults and a deletion at any point.
SPECIFICATION SmallSpec
CONSTANTS
    flight = flight
    t1 = t1
    t2 = t2
    weather = weather
    delay = delay
    news = news
    Watch <- Watchpoint
    Flights = {flight}
    Fact <- Reported
    Message <- Reported
    About <- AboutWhat
    Recovery = {delay}
    Tick = {t1, t2}
    Limit = 1
    MaxFaults = 2
INVARIANTS
    ErrorIsTheLatestChecks
PROPERTIES
    ACheckPerDueTime
    ReportingIsRefined
    RecordedIsReported
    ReportIsRecorded
