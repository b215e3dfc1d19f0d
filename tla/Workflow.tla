------------------------------ MODULE Workflow ------------------------------
(***************************************************************************)
(* The status state machine of a finding group, as data: the statuses, the *)
(* moves an analyst may request and the rows of the audit trail.  It is    *)
(* shared by the abstract lifecycle and by every module whose actions move *)
(* a group.                                                                *)
(***************************************************************************)
EXTENDS Naturals, Sequences

\* The durable workflow status of a finding group.
Status == {"open", "investigating", "resolved", "suppressed", "accepted_risk"}

\* A group that no scan has detected yet: it has no row in finding_group.
Absent == "absent"

\* The two statuses that carry a finding_exception row.
ExceptionStatuses == {"suppressed", "accepted_risk"}

\* The moves the state machine permits, derived from TRANSITION_ACTIONS.
ALLOWED_TRANSITIONS ==
    {<<"open", "investigating">>, <<"open", "suppressed">>, <<"open", "accepted_risk">>,
     <<"investigating", "resolved">>, <<"investigating", "open">>,
     <<"resolved", "open">>, <<"accepted_risk", "open">>, <<"suppressed", "open">>}

CanTransition(from, to) == <<from, to>> \in ALLOWED_TRANSITIONS

(***************************************************************************)
(* Who wrote a finding_status_history row: a user's request, a scan        *)
(* ("Detected", "Re-detected on new scan") or the expiry of an exception.  *)
(***************************************************************************)
Writers == {"user", "scan", "expiry"}

AuditRow == [from : Status \cup {Absent}, to : Status, by : Writers]

Row(from, to, by) == [from |-> from, to |-> to, by |-> by]

(***************************************************************************)
(* The moves each writer may make.  A scan creates a group as open and     *)
(* reopens a resolved one, nothing else; expiry only reopens a group that  *)
(* is suppressed or accepted.                                              *)
(***************************************************************************)
LegalMove(from, to, by) ==
    \/ by = "user" /\ CanTransition(from, to)
    \/ by = "scan" /\ from \in {Absent, "resolved"} /\ to = "open"
    \/ by = "expiry" /\ from \in ExceptionStatuses /\ to = "open"
=============================================================================
