-------------------------- MODULE MCComputeBackends --------------------------
(* The backends of a job for TLC: all of them, or only Kubernetes.          *)
EXTENDS ComputeBackends

AllKinds == Kinds
OnlyKubernetes == {"kubernetes"}
=============================================================================
