---------------------------- MODULE MCUserAdmin -----------------------------
(***************************************************************************)
(* Instances of UserAdmin for TLC: three accounts, of which the first is   *)
(* the seeded admin, and one role below admin, which stands for both.      *)
(***************************************************************************)
EXTENDS UserAdmin, TLC

CONSTANTS a, b, c, t1, t2

ThreeUsers == {a, b, c}
TwoRequests == {t1, t2}
TwoRoles == {"admin", "analyst"}
OneAdmin == (a :> "admin") @@ (b :> "analyst") @@ (c :> NoRole)
Symmetry == Permutations(TwoRequests)
=============================================================================
