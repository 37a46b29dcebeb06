-------------------------- MODULE MCTravelerAccount --------------------------
(***************************************************************************)
(* Instances of TravelerAccount for TLC.                                   *)
(***************************************************************************)
EXTENDS TravelerAccount, TLC

CONSTANTS r1, r2, u1, u2, u3, card, junk, l1, calendar, gemini

\* Three updates for a traveler near the end of the settings; or two, of which
\* one may press a button or be malformed, and a request that dies, for a new
\* traveler and for one who has the settings.
SmallInit ==
    /\ claimed = {} /\ slots = 0
    /\ job = [r \in Request |-> Idle]
    /\ AccountInit /\ AccountsInit /\ erased = FALSE
    /\ CASE profile.step = "BOUNDARY" -> waiting = {u1, u2, u3} /\ faults = MaxFaults
         [] profile.step = "COMPLETE" -> waiting \in {{u1, u2}, {u1, card}} /\ faults = 0
         [] OTHER -> waiting \in {{u1, u2}, {u1, junk}} /\ faults = 0
SmallSpec == SmallInit /\ [][Next]_vars /\ Fairness
==============================================================================
