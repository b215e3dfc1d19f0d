---------------------------- MODULE MCRequests ------------------------------
(***************************************************************************)
(* An instance of Requests for TLC: the first admin and one analyst, two   *)
(* findings, one webhook and two requests at a time.                       *)
(***************************************************************************)
EXTENDS Requests, TLC

CONSTANTS adm, ana, g1, g2, hook, s1, s2

Everybody == {adm, ana}
TwoGroups == {g1, g2}
OneTarget == {hook}
TwoSlots == {s1, s2}
SomeMoves == {"investigating", "suppressed", "open"}
Symmetry == Permutations(TwoSlots) \cup Permutations(TwoGroups)
=============================================================================
