-------------------------- MODULE MCHostLifecycle --------------------------
(* Instances of HostLifecycle for TLC. *)
EXTENDS HostLifecycle

AllFaults == FaultKinds
=============================================================================
