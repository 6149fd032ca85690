----------------------------- MODULE MCWebHost -----------------------------
(* Instances of WebHost for TLC. *)
EXTENDS WebHost

HonestFaults == FaultKinds \ {"stubborn"}
=============================================================================
