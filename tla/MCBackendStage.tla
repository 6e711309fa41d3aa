---------------------------- MODULE MCBackendStage ----------------------------
(* Small instances of StageFiles.  Two events went to the static and mini  *)
(* stages; the limit leaves room for as many full reservations as there are  *)
(* events left.                                                              *)
EXTENDS StageFiles, TLC

CONSTANTS e1, e2, e3, e4, e5, w1, w2, new, other

MCScopes == {Stages, {StaticCheck, MiniExperiment}}
UnitEstimate == [s \in Stages |-> 1]

CONSTANT checkpoint
RemoteKinds == {"docker", "ssh", "kubernetes"}

Symmetry == Permutations(Workers) \cup Permutations(Events) \cup Permutations(Contents)
=============================================================================
