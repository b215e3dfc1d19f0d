--------------------------- MODULE MCScheduleSync ---------------------------
(***************************************************************************)
(* Instances of ScheduleSync for TLC: two accounts, two cron expressions.  *)
(***************************************************************************)
EXTENDS ScheduleSync, TLC

CONSTANTS a, b, c1, c2, e1, e2, f

OneAccount == {a}
TwoAccounts == {a, b}
TwoCrons == {c1, c2}
TwoEditors == {e1, e2}
OneFirer == {f}
Symmetry == Permutations(TwoEditors) \cup Permutations(TwoAccounts)
            \cup Permutations(TwoCrons)
=============================================================================
