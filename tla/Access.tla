------------------------------- MODULE Access -------------------------------
(***************************************************************************)
(* The ladder of roles and what each capability asks for                   *)
(* (services/rbac.py), and the moves a drawer offers to a role             *)
(* (workflow_service.available_actions).                                   *)
(***************************************************************************)
EXTENDS Workflow

CONSTANT PublicMode   \* Settings.public_mode: nothing above viewing is allowed

ASSUME PublicModeAssumption == PublicMode \in BOOLEAN

ROLES == {"read_only", "analyst", "admin"}

\* The place of a role on the ladder; NoRole stands for an unknown one.
NoRole == "no role"
Rank == [r \in ROLES \cup {NoRole} |->
            CASE r = "read_only" -> 1 [] r = "analyst" -> 2 [] r = "admin" -> 3 [] r = NoRole -> 0]

at_least(role, minimum) ==
    /\ PublicMode => minimum = "read_only"
    /\ Rank[role] >= Rank[minimum]

\* What a drawer offers: nothing to a reader, and the acceptance of a risk to
\* an admin only.
available_actions(from, role) ==
    {to \in Status : /\ CanTransition(from, to)
                     /\ at_least(role, "analyst")
                     /\ to = "accepted_risk" => at_least(role, "admin")}
=============================================================================
