------------------------ MODULE MCFindingWorkflow -------------------------
(***************************************************************************)
(* Instances of FindingWorkflow and of the pages over it for TLC: one or   *)
(* two fingerprints, each reported by a check of its own.  Two checks      *)
(* share a control and have another each, so the instance looks the same   *)
(* with everything swapped.  One thread serves requests beside the daily   *)
(* job, which overlaps with it as another request that sweeps would.       *)
(***************************************************************************)
EXTENDS FindingViews, TLC

CONSTANTS g1, g2, c1, c2, k1, k2, t1, daily

OneGroup == {g1}
TwoGroups == {g1, g2}
OneCheck == (g1 :> c1)
TwoChecks == (g1 :> c1) @@ (g2 :> c2)
Belongs == (c1 :> {"shared", k1}) @@ (c2 :> {"shared", k2})

Swapped == (g1 :> g2) @@ (g2 :> g1) @@ (c1 :> c2) @@ (c2 :> c1) @@ (k1 :> k2) @@ (k2 :> k1)
Symmetry == {[x \in DOMAIN Swapped |-> IF p[g1] = g1 THEN x ELSE Swapped[x]] :
                p \in Permutations(TwoGroups)}

ThreadAndDaily == {t1, daily}

NoIrregularPath == {}
PlainOnly == {"plain_exception"}
BulkReopenOnly == {"bulk_reopen"}
=============================================================================
