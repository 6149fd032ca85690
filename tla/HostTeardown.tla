---------------------------- MODULE HostTeardown ----------------------------
(***************************************************************************)
(* What a host promises about its teardown, whatever its services do.      *)
(* Three layers, each in use by the one above it, taken down from the top: *)
(*                                                                         *)
(*     workers    the caller's body and the background services            *)
(*     owed       APP-scoped resources the container still has to dispose  *)
(*     telemetry  the observability providers of the process               *)
(*                                                                         *)
(* Workers arrive and resources are built only while the host is up.  A    *)
(* resource is disposed only once no worker is left, and telemetry is      *)
(* flushed only once no resource is owed.  A host that is cut short may    *)
(* stop early, but it never takes a layer away from one above it.          *)
(*                                                                         *)
(* This is the order that host_lifecycle.py states at lines 7-8 and 36-40; *)
(* HostLifecycle is the code's way of keeping it.                          *)
(***************************************************************************)
EXTENDS Naturals

CONSTANTS Workers,      \* everything that can run while the host is up
          MaxOwed       \* bound on the APP-scoped resources of the container

VARIABLES phase,        \* "up", "draining" or "down"
          workers,      \* the workers that are running
          owed,         \* resources built and not yet disposed
          telemetry     \* "up", "flushing" or "down"

tvars == <<phase, workers, owed, telemetry>>

(* A host with nothing to start has its caller inside from the beginning. *)
Init ==
  /\ phase = "up"
  /\ workers \in SUBSET Workers
  /\ owed = 0
  /\ telemetry = "up"

(* The host is up: workers arrive, resources are built. *)
Build ==
  /\ phase = "up"
  /\ workers' \in SUBSET Workers /\ workers \subseteq workers'
  /\ owed' \in owed..MaxOwed
  /\ UNCHANGED <<phase, telemetry>>

(* A worker ends by itself, fails or is cancelled, at any time. *)
Depart ==
  /\ workers' \in SUBSET workers
  /\ UNCHANGED <<phase, owed, telemetry>>

(* The host's own steps down.  A startup that fails half-way leaves behind *)
(* what it had built, hence the growth of owed on the way out of "up".     *)
TakeDown ==
  /\ phase # "down"
  /\ phase' \in {"draining", "down"}
  /\ workers' \in SUBSET workers
  /\ owed' \in 0..MaxOwed
  /\ owed' > owed => phase = "up"
  /\ owed' < owed => workers = {}
  /\ \/ UNCHANGED telemetry
     \/ telemetry = "up" /\ telemetry' = "flushing" /\ workers' = {} /\ owed' = 0
  /\ phase' = "down" => workers' = {}

(* The flush runs on a thread of its own, which may outlive the host task; *)
(* a provider that fails to shut down leaves telemetry up.                 *)
FlushEnds ==
  /\ telemetry = "flushing"
  /\ telemetry' \in {"up", "down"}
  /\ UNCHANGED <<phase, workers, owed>>

Next == Build \/ Depart \/ TakeDown \/ FlushEnds

Spec == Init /\ [][Next]_tvars
=============================================================================
