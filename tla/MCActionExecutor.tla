--------------------------- MODULE MCActionExecutor ---------------------------
(***************************************************************************)
(* Instances of ActionExecutor for TLC: the transfer and flight actions of *)
(* a recovery plan, where the flight needs the traveler's approval and     *)
(* waits for the transfer.  Each cfg chooses among the definitions below.  *)
(***************************************************************************)
EXTENDS ActionExecutor, TLC

CONSTANTS transfer, flight,  \* actions
          ride, seat,        \* effect keys
          cab, plane,        \* provider resources
          w1, w2,            \* calls of execute
          id1                \* the worker id

PlanActions == {transfer, flight}

\* Every process passes the literal worker_id "recovery-auto".
SharedId == [w \in Worker |-> id1]
MCEffectOf == [a \in Action |-> IF a = flight THEN seat ELSE ride]
MCResourceOf == [e \in Effect |-> IF e = ride THEN cab ELSE plane]
MCPrereqs == [a \in Action |-> IF a = flight THEN {transfer} ELSE {}]

WorkerSymmetry == Permutations(Worker)
=============================================================================
