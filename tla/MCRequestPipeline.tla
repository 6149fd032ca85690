-------------------------- MODULE MCRequestPipeline --------------------------
(* Instances of RequestPipeline for TLC. *)
EXTENDS RequestPipeline, TLC

CONSTANTS Orders,  \* orders an application chooses
          MaxParams

Registrations ==
  {[via |-> "pipeline", order |-> n] : n \in Orders}
    \cup {[via |-> "api", order |-> 0]}

Names == <<"a", "b", "c">>

(* Every endpoint Python accepts with at most MaxParams parameters. *)
ParamLists ==
  {params \in UNION {[1..n -> [name : {"a"}, kind : Kinds, hint : Hints]] :
                       n \in 0..MaxParams} :
     \A i \in DOMAIN params :
       params[i].kind = "var_keyword" => params[i].hint = "value"}

(* Kept is the filter it stands for. *)
ASSUME KeptIsSelectSeq ==
  \A params \in ParamLists :
    InjectedDependencies(params) =
      SelectSeq(params, LAMBDA p : p.hint = "inject")

Named(params) == [i \in DOMAIN params |-> [params[i] EXCEPT !.name = Names[i]]]

Endpoints ==
  {Endpoint(params, coroutine) :
     params \in {p \in {Named(q) : q \in ParamLists} : WellOrdered(p)},
     coroutine \in BOOLEAN}

Param(name, kind, hint) == [name |-> name, kind |-> kind, hint |-> hint]
Plain == Endpoint(<<Param("a", "positional", "request")>>, TRUE)
OneInjected == Endpoint(<<Param("a", "positional", "inject")>>, TRUE)
TwoInjected == Endpoint(<<Param("a", "positional", "inject"),
                          Param("b", "positional", "inject")>>, TRUE)

Setups(n) == [1..n -> Registrations]

(* One connection to every endpoint without middleware of the application; *)
(* one through two middleware at any place; two connections side by side.  *)
MCPrograms ==
  {[setup |-> <<>>, endpoint |-> e, load |-> 1] : e \in Endpoints}
  \cup {[setup |-> s, endpoint |-> TwoInjected, load |-> 1] : s \in Setups(2)}
  \cup {[setup |-> <<>>, endpoint |-> OneInjected, load |-> 2],
        [setup |-> <<[via |-> "pipeline", order |-> 300]>>, endpoint |-> Plain,
         load |-> 2]}

ConnectionSymmetry == Permutations(Connections)
=============================================================================
