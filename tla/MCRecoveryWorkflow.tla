-------------------------- MODULE MCRecoveryWorkflow --------------------------
(***************************************************************************)
(* Instances of RecoveryWorkflow for TLC: a plan of a transfer and a       *)
(* flight.  Each cfg chooses the requests, the policy and the failures.    *)
(***************************************************************************)
EXTENDS RecoveryWorkflow, TLC

CONSTANTS transfer, flight, w1, w2

RequestSymmetry == Permutations(Worker)

\* Policies: the flight of every plan, of the first, or of the first two is asked for.
EveryFlight == Version \X {flight}
FirstFlight == {<<1, flight>>}
TwoFlights == {1, 2} \X {flight}

\* Bounds.  What is delivered to a finished incident is not followed any further, and
\* the last plan's approval, which cannot lapse, has no EXPIRE command that falls due.
Unfinished ==
    /\ status \notin {"RECOVERED", "NEEDS_ATTENTION"}
    /\ outbox[<<"EXPIRE", MaxPlan>>] \in {"NONE", "LATER"}

\* A death between publishing a command and marking it publishes it again; it counts as
\* the fault of a behavior, and is followed for the two commands a traveler causes.
OneFault ==
    /\ Unfinished
    /\ \A c \in Command :
          copies[c] > (IF outbox[c] = "PUBLISHED" THEN 1 ELSE 0)
          => faults = 0 /\ c[1] \in {"RESUME", "REPLAN_ANOTHER"}

\* Of two overlapping requests: the second plan is not replaced by the traveler or by
\* time, and a third is only followed until it is stored.  An incident whose plan was
\* overtaken is followed only there.  The RESUME command may be taken over.
Overlapping ==
    /\ Unfinished
    /\ overtaken => plan = 3
    /\ plan = 3 => <<3, flight>> \notin Stored
    /\ approval[2] # "LAPSED" /\ \A p \in Replan : outbox[<<p, 2>>] = "NONE"
    /\ outbox[<<"EXPIRE", 2>>] \in {"NONE", "LATER"}
    /\ \A c \in Command : c[1] = "RESUME" \/ claim[c] # "LAPSED"
=============================================================================
