---------------------------- MODULE MCIncidentCosts ----------------------------
(***************************************************************************)
(* The cases TLC looks at, one family for each question, with the rest of  *)
(* a case fixed.                                                           *)
(***************************************************************************)
EXTENDS IncidentCosts

Items == {"f1", "f2", "f3", "f4", "transfer", "hotel"}
Ask(calendar, message, change, limit) ==
    [calendar |-> calendar, message |-> message, change |-> change,
     spending |-> limit # None, limit |-> limit]
Cautious == Ask("AUTO", "AUTO", "AUTO", 2000)
NoMarket == [live |-> FALSE, offers |-> {}]
ShortHaul == [from |-> "EU", to |-> "EU", carrier |-> "EU", distance |-> 800, cancelled |-> FALSE]
Blamed == [fault |-> "YES", extraordinary |-> FALSE]

CaseOf(t, item, delay, pol, mkt) ==
    [trip |-> t, event |-> Late(item, t.end[item] + delay), policy |-> pol, market |-> mkt,
     hub |-> 22, route |-> ShortHaul, cause |-> Blamed]

\* Every chain, every late flight, on either side of the minimum and far beyond.
Chains ==
    UNION {{CaseOf(Imported(n, 600, 60, 45, h), Flights[k], delay, Cautious, NoMarket) :
               k \in 1..n, delay \in {15, 16, 195}, h \in BOOLEAN} : n \in 1..4}

\* Every mode, limits around the price, and what a quote service may answer.
Offers ==
    {[price |-> [currency |-> cur, units |-> n], arrival |-> 1500] : cur \in {"EUR", "GBP"}, n \in {3400, 9000}}
    \cup {[price |-> Euro(1200), arrival |-> None]}
Markets == {NoMarket} \cup {[live |-> TRUE, offers |-> S] : S \in SUBSET Offers}
Policies ==
    {Ask(cal, msg, chg, limit) : cal, msg, chg \in Mode, limit \in {None, 0, 2000, 3400, 10000}}
    \cup {[Cautious EXCEPT !.spending = FALSE, !.limit = 5000]}
Plans ==
    {CaseOf(t, "f1", 105, pol, NoMarket) :
        t \in {Demo(FALSE), Imported(2, 600, 60, 45, TRUE)}, pol \in Policies}
    \cup {CaseOf(t, "f1", 105, Ask("AUTO", "AUTO", "AUTO", 10000), mkt) :
        t \in {Demo(FALSE), Imported(2, 600, 60, 45, TRUE)}, mkt \in Markets}

\* The traveler's demo, whose disruption and policy are literals.
Demos == {CaseOf(Demo(TRUE), "f1", 195, Cautious, NoMarket)}

\* Connections from tight to ample, off and at the rush hour, at quiet and busy hubs.
Advised ==
    {[CaseOf(Imported(2, first, gap, buffer, FALSE), "f1", delay, Cautious, NoMarket)
        EXCEPT !.hub = index] :
        first \in {0, 360}, gap \in {30, 45, 60, 75, 76, 90, 130}, buffer \in {0, 45},
        delay \in {1, 31, 60}, index \in {12, 32}}

\* Every kind of route and cause around the thresholds of delay and distance.
Claims ==
    {[CaseOf(Imported(1, 600, 60, 45, FALSE), "f1", delay, Cautious, NoMarket)
        EXCEPT !.route = [from |-> from, to |-> to, carrier |-> carrier, distance |-> distance,
                          cancelled |-> cancelled],
               !.cause = [fault |-> fault, extraordinary |-> extraordinary]] :
        from \in C!Place, to \in C!Place, carrier \in C!Carrier, distance \in {1500, 1501, 3500, 3501},
        delay \in {120, 179, 180}, cancelled \in BOOLEAN,
        fault \in {"YES", "NO", "UNKNOWN"}, extraordinary \in BOOLEAN}

Cases == Chains \cup Plans \cup Demos \cup Advised \cup Claims
=============================================================================
