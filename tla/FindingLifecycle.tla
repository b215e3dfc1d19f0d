-------------------------- MODULE FindingLifecycle --------------------------
(***************************************************************************)
(* What the workflow promises an auditor, with nothing about how it is     *)
(* done: each finding group has one status, and each change of it adds     *)
(* exactly one row to the group's audit trail, in the same transaction,    *)
(* for a move that its writer was entitled to make.  One step may move     *)
(* several groups (a bulk action, a scan, an expiry sweep), all to one     *)
(* status and on behalf of one writer.                                     *)
(*                                                                         *)
(* A writer decides on the status it has read.  That is the present one,   *)
(* unless another writer was faster; then the group is contested, and the  *)
(* row says which of its earlier statuses the decision was taken on.       *)
(***************************************************************************)
EXTENDS Workflow

CONSTANT Groups

VARIABLES status,    \* finding_group.current_status, Absent before the first detection
          history,   \* the finding_status_history rows of each group, oldest first
          contested  \* the groups for which a writer once overlooked another's move

vars == <<status, history, contested>>

Init ==
    /\ status = [g \in Groups |-> Absent]
    /\ history = [g \in Groups |-> <<>>]
    /\ contested = {}

\* The statuses a group has had, the present one included.
Past(g) == {history[g][i].to : i \in 1 .. Len(history[g])}

\* The group g moves, on behalf of a writer that has read "from".
Move(g, from, to, by) ==
    /\ LegalMove(from, to, by)
    /\ from = status[g] \/ (g \in contested' /\ from \in Past(g))
    /\ status'[g] = to
    /\ history'[g] = Append(history[g], Row(from, to, by))

Next ==
    /\ status' \in [Groups -> Status \cup {Absent}]
    /\ history' \in [Groups -> Seq(AuditRow)]
    /\ contested \subseteq contested' /\ contested' \subseteq Groups
    /\ \E to \in Status, by \in Writers : \A g \in Groups :
          \/ \E from \in Status \cup {Absent} : Move(g, from, to, by)
          \/ status'[g] = status[g] /\ history'[g] = history[g] /\ (g \in contested' => g \in contested)

Spec == Init /\ [][Next]_vars

-----------------------------------------------------------------------------
TypeOK ==
    /\ status \in [Groups -> Status \cup {Absent}]
    /\ history \in [Groups -> Seq(AuditRow)]
    /\ contested \subseteq Groups

\* The trail of g starts at the first detection, the last row explains the
\* present status, and every row takes over from a status the group had by then:
\* the one that the row before it left, unless the group is contested.
Replays(g) ==
    /\ history[g] = <<>> <=> status[g] = Absent
    /\ history[g] # <<>> =>
          /\ history[g][1].from = Absent
          /\ history[g][Len(history[g])].to = status[g]
    /\ \A i \in 2 .. Len(history[g]) :
          /\ \E j \in 1 .. i - 1 : history[g][i].from = history[g][j].to
          /\ g \notin contested => history[g][i].from = history[g][i - 1].to

(***************************************************************************)
(* The audit trail can be replayed: from the finding_status_history rows   *)
(* alone one obtains every status the group ever had and its present one,  *)
(* every row is a move its writer was entitled to make from a status the   *)
(* group has had, and as long as no writer overlooked another's move the   *)
(* rows are one unbroken chain.                                            *)
(* (workflow_service.transition, scan_service._get_or_create_group)        *)
(***************************************************************************)
AuditReplays ==
    \A g \in Groups :
        /\ Replays(g)
        /\ \A i \in 1 .. Len(history[g]) :
              LegalMove(history[g][i].from, history[g][i].to, history[g][i].by)
=============================================================================
