---------------------------- MODULE MCContainer ----------------------------
(* Instances of Container for TLC. *)
EXTENDS Container, TLC

CONSTANTS app, r1, t1, t2, host, none

(* Two tasks of one request, and the host's own. *)
RequestAndHost == (t1 :> r1) @@ (t2 :> r1) @@ (host :> app)

(* Every valid choice of lifetimes for three services of which the second  *)
(* needs the first and the third needs both: each parameter is shared.  A  *)
(* hosted service is nobody's parameter, as in the examples.               *)
Shared == [s \in Services |-> 1..(s - 1)]
SharedGraphs ==
  {g \in [life : [Services -> Lifetimes], needs : {Shared}] :
     /\ Valid(g)
     /\ \A s, t \in Services : s < t => g.life[s] # "hosted"}
=============================================================================
