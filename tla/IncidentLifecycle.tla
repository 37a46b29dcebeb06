--------------------------- MODULE IncidentLifecycle ---------------------------
(***************************************************************************)
(* The life of an incident as services/state_machine.py tells it: one      *)
(* status that moves along a fixed table.  The application never calls     *)
(* that module, so whether the workflows keep to the table is a question:  *)
(* RecoveryWorkflow is checked and proved to implement this specification. *)
(***************************************************************************)

VARIABLE status

IncidentStatus == {"RECEIVED", "ANALYZING", "PLANNING", "NOTIFYING", "EXECUTING_AUTO",
                   "WAITING_APPROVAL", "EXECUTING_APPROVED", "VERIFYING",
                   "RETRY_SCHEDULED", "NEEDS_ATTENTION", "RECOVERED", "FAILED",
                   "CANCELLED", "EXECUTING"}

\* _INCIDENT_TRANSITIONS
Successors(s) ==
    CASE s = "RECEIVED" -> {"ANALYZING", "FAILED"}
      [] s = "ANALYZING" -> {"PLANNING", "RETRY_SCHEDULED", "FAILED"}
      [] s = "PLANNING" -> {"NOTIFYING", "NEEDS_ATTENTION", "CANCELLED"}
      [] s = "NOTIFYING" -> {"EXECUTING_AUTO", "WAITING_APPROVAL", "RETRY_SCHEDULED",
                             "NEEDS_ATTENTION"}
      [] s = "EXECUTING_AUTO" -> {"WAITING_APPROVAL", "VERIFYING", "RETRY_SCHEDULED",
                                  "NEEDS_ATTENTION", "CANCELLED"}
      [] s = "WAITING_APPROVAL" -> {"EXECUTING_APPROVED", "PLANNING", "CANCELLED",
                                    "NEEDS_ATTENTION"}
      [] s = "EXECUTING_APPROVED" -> {"VERIFYING", "RETRY_SCHEDULED", "NEEDS_ATTENTION",
                                      "CANCELLED"}
      [] s = "VERIFYING" -> {"RECOVERED", "RETRY_SCHEDULED", "NEEDS_ATTENTION"}
      [] s = "RETRY_SCHEDULED" -> {"ANALYZING", "PLANNING", "NOTIFYING", "EXECUTING_AUTO",
                                   "EXECUTING_APPROVED", "VERIFYING", "NEEDS_ATTENTION"}
      [] s = "NEEDS_ATTENTION" -> {"PLANNING", "CANCELLED"}
      [] s = "EXECUTING" -> {"VERIFYING", "RETRY_SCHEDULED", "FAILED"}
      [] s = "RECOVERED" -> {}
      [] s = "FAILED" -> {"ANALYZING"}
      [] s = "CANCELLED" -> {"PLANNING"}

\* Recovery takes over an incident that analysis has left in PLANNING.
Init == status = "PLANNING"

\* assert_incident_transition
Move == status' \in Successors(status)

Spec == Init /\ [][Move]_status
=============================================================================
