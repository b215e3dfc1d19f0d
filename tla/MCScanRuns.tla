----------------------------- MODULE MCScanRuns -----------------------------
(***************************************************************************)
(* Instances of ScanRuns for TLC.                                          *)
(***************************************************************************)
EXTENDS ScanRuns, TLC

CONSTANTS f1, f2

OneFingerprint == {f1}
TwoFingerprints == {f1, f2}
Symmetry == Permutations(TwoFingerprints)

NoFault == {}
Refusals == {"refuse", "half_refuse"}
RefusalsAndCrashes == {"refuse", "crash"}
=============================================================================
