----------------------------- MODULE FactReporting -----------------------------
(***************************************************************************)
(* What Trip Watch promises of the facts its sources report, whatever the  *)
(* workers, the crashes and the lost answers: a fact is recorded before    *)
(* anyone hears of it, and it is put aside as handled only after it was    *)
(* heard of, unless nobody is left to hear it.                             *)
(***************************************************************************)
CONSTANT Fact

VARIABLES
    known,      \* facts recorded in the repository
    heard,      \* facts the recovery topic or the traveler received
    handled,    \* facts no later sweep reports again
    served      \* FALSE once the traveler's data is deleted

vars == <<known, heard, handled, served>>

Init == known = {} /\ heard = {} /\ handled = {} /\ served = TRUE

\* A worker records a fact (the fact is its own key: twice is once).
Record(f) ==
    /\ known' = known \union {f}
    /\ UNCHANGED <<heard, handled, served>>

\* A recorded fact reaches the recovery topic or the traveler, maybe again.
Tell(f) ==
    /\ f \in known
    /\ heard' = heard \union {f}
    /\ UNCHANGED <<known, handled, served>>

Handle(f) ==
    /\ f \in known
    /\ f \in heard \/ ~served
    /\ handled' = handled \union {f}
    /\ UNCHANGED <<known, heard, served>>

\* The traveler asks for the deletion of their data.
Leave ==
    /\ served' = FALSE
    /\ UNCHANGED <<known, heard, handled>>

Next == Leave \/ \E f \in Fact : Record(f) \/ Tell(f) \/ Handle(f)

Spec == Init /\ [][Next]_vars
=============================================================================
