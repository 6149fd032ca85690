-------------------------- MODULE RouteInjection --------------------------
(***************************************************************************)
(* InjectRoute (pepelats/integrations/fastapi/route_injection.py): an      *)
(* endpoint's parameters marked Inject[T] leave the signature that FastAPI *)
(* reads, and a wrapper resolves them from the provider of the request.    *)
(*                                                                         *)
(* A parameter is a name, how Python binds it and what its annotation is   *)
(* to InjectRoute: "inject" for Inject[T], "request" and "websocket" for   *)
(* exactly these types, "alias" for a subclass of Request or an Annotated  *)
(* one (which FastAPI takes for a request and InjectRoute does not),       *)
(* "value" for what FastAPI parses.  The annotations of a wrapper are      *)
(* those of its signature (_injected_annotations), so they are not kept    *)
(* twice.                                                                  *)
(***************************************************************************)
EXTENDS Naturals, Sequences

Kinds == {"positional", "keyword", "var_keyword"}
Hints == {"value", "inject", "request", "alias", "websocket"}

RequestParam ==
  [name |-> "__pepelats_request", kind |-> "keyword", hint |-> "request"]
WebSocketParam ==
  [name |-> "__pepelats_websocket", kind |-> "keyword", hint |-> "websocket"]
HiddenNames == {RequestParam.name, WebSocketParam.name}

NoParam == ""

NamesOf(params) == {params[i].name : i \in DOMAIN params}

----------------------------------------------------------------------------
(* Rewriting an endpoint *)

(* An endpoint as the application defines it: what the function is called  *)
(* with, and the signature FastAPI reads, which so far agree.              *)
Endpoint(params, coroutine) ==
  [params |-> params, signature |-> params, coroutine |-> coroutine,
   injected |-> <<>>, connection |-> NoParam]

IsWrapped(e) == e.injected # <<>>

(* What a comprehension makes of a sequence: the elements at the places    *)
(* "at", in their order.  (SelectSeq with its test, but TLAPS knows no     *)
(* more of SelectSeq than its name.)                                       *)
Kept(s, at) ==
  LET kept[n \in 0..Len(s)] ==
        IF n = 0 THEN <<>>
        ELSE IF n \in at THEN Append(kept[n - 1], s[n]) ELSE kept[n - 1]
  IN  kept[Len(s)]

Injected(params) == {i \in DOMAIN params : params[i].hint = "inject"}
VarKeyword(params) == {i \in DOMAIN params : params[i].kind = "var_keyword"}

InjectedDependencies(params) == Kept(params, Injected(params))

(* The last parameter, in order of declaration, with this annotation. *)
LastWith(params, hint) ==
  LET at == {i \in DOMAIN params : params[i].hint = hint}
  IN  IF at = {} THEN NoParam
      ELSE params[CHOOSE i \in at : \A j \in at : j <= i].name

(* A declared Request is preferred to a declared WebSocket. *)
FindConnectionParam(params) ==
  IF LastWith(params, "request") # NoParam
  THEN LastWith(params, "request")
  ELSE LastWith(params, "websocket")

(* Mutant: the additions go to the end of the signature. *)
WithAdditionalLast(params, additional) == params \o additional

(* Keyword-only additions precede a trailing **kwargs. *)
WithAdditional(params, additional) ==
  IF additional = <<>> THEN params
  ELSE Kept(params, DOMAIN params \ VarKeyword(params))
         \o additional
         \o Kept(params, VarKeyword(params))

InjectedSignature(params, additional) ==
  WithAdditional(Kept(params, DOMAIN params \ Injected(params)), additional)

(* _inject.  It is applied once when the route is declared on a router and *)
(* again, to the wrapper, when the router is included in the application.  *)
Inject(e) ==
  LET injected   == InjectedDependencies(e.signature)
      connection == FindConnectionParam(e.signature)
      hidden     == IF connection = NoParam
                    THEN <<RequestParam, WebSocketParam>> ELSE <<>>
  IN  IF injected = <<>> THEN e
      ELSE [e EXCEPT !.signature  = InjectedSignature(@, hidden),
                     !.injected   = injected \o @,
                     !.connection = connection]

----------------------------------------------------------------------------
(* Calling it *)

(* What FastAPI passes to an HTTP endpoint, by name: every value, and the  *)
(* request to the last parameter that takes one.                           *)
Supplied(params) ==
  {params[i].name : i \in {k \in DOMAIN params :
      \/ params[k].hint = "value"
      \/ /\ params[k].hint \in {"request", "alias"}
         /\ \A j \in DOMAIN params :
              params[j].hint \in {"request", "alias"} => j <= k}}

(* _connection_from finds the request among the arguments. *)
FindsConnection(e, args) ==
  (IF e.connection = NoParam THEN RequestParam.name ELSE e.connection) \in args

(* Mutant: the hidden parameters stay among the arguments. *)
WithoutHiddenKept(e, args) == args

(* ... and takes the hidden ones out. *)
WithoutHidden(e, args) ==
  IF e.connection = NoParam THEN args \ HiddenNames ELSE args

(* Python binds the arguments to the function's parameters. *)
Binds(params, args) ==
  /\ \A i \in DOMAIN params :
       params[i].kind # "var_keyword" => params[i].name \in args
  /\ \/ \E i \in DOMAIN params : params[i].kind = "var_keyword"
     \/ args \subseteq NamesOf(params)

----------------------------------------------------------------------------
Rank(kind) == CASE kind = "positional" -> 1
                [] kind = "keyword" -> 2
                [] kind = "var_keyword" -> 3

(* What Python's Signature demands: kinds in order, one **kwargs, names    *)
(* that differ.                                                            *)
WellOrdered(params) ==
  \A i, j \in DOMAIN params : i < j =>
    /\ Rank(params[i].kind) <= Rank(params[j].kind)
    /\ params[j].kind = "var_keyword" => params[i].kind # "var_keyword"
    /\ params[i].name # params[j].name

Parameters(names) == [name : names, kind : Kinds, hint : Hints]

(* The parameters a function may be declared with.  None has a name that   *)
(* InjectRoute reserves, and a ** parameter is left to FastAPI.            *)
Declarable(params) ==
  /\ params \in Seq(Parameters(STRING)) /\ WellOrdered(params)
  /\ \A i \in DOMAIN params :
       /\ params[i].name \notin HiddenNames \cup {NoParam}
       /\ params[i].kind = "var_keyword" => params[i].hint = "value"

(* Endpoints whose request InjectRoute and FastAPI agree on: no alias of   *)
(* Request, no WebSocket (an HTTP route has none to give), one Request.    *)
Conventional(params) ==
  /\ \A i \in DOMAIN params : params[i].hint \notin {"alias", "websocket"}
  /\ \A i, j \in DOMAIN params :
       params[i].hint = "request" /\ params[j].hint = "request" => i = j
=============================================================================
