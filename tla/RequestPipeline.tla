-------------------------- MODULE RequestPipeline --------------------------
(***************************************************************************)
(* From the configurators a host builder records to a connection that      *)
(* passes through the middleware they registered: WebHostBuilder.build     *)
(* (pepelats/hosting/web_host_builder.py) with FastAPIHostBuilder,         *)
(* HostPipeline, the built-in middleware and an endpoint of InjectRoute.   *)
(*                                                                         *)
(* A program is what the application's code hands to one builder: the      *)
(* middleware of its configurators, in the order of the configure_ calls,  *)
(* and an endpoint, with a bound on the connections that arrive.  A        *)
(* builder may be built more than once.  A layer is a middleware of the    *)
(* application that was built; a connection enters the layers from the     *)
(* outermost inwards, reaches the endpoint and leaves them the other way.  *)
(* The state of a connection says which layers are around the code that    *)
(* runs for it.                                                            *)
(*                                                                         *)
(* A cancellation strikes wherever the connection's task awaits: on the    *)
(* way in, in the endpoint, in a middleware on its way out, and in the     *)
(* scope's exit, which it breaks off.  The exit's single finalizers are in *)
(* Container and in WebHost.                                               *)
(***************************************************************************)
EXTENDS RouteInjection, FiniteSets

CONSTANTS Programs,      \* [setup : Seq(Registration), endpoint, load : Nat]
          Connections,   \* connections of the process, over all applications
          Nobody,        \* no connection
          MaxBuilds      \* bound on the calls of build()

(* What a configurator does when it is called: it registers a middleware. *)
Registration == [via : {"pipeline", "api"}, order : Nat]

ASSUME PipelineAssumption ==
  /\ \A p \in Programs :
       /\ p.setup \in Seq(Registration)
       /\ Declarable(p.endpoint.params)
       /\ \E coroutine \in BOOLEAN :
            p.endpoint = Endpoint(p.endpoint.params, coroutine)
  /\ Nobody \notin Connections
  /\ MaxBuilds \in Nat

(* MiddlewareOrder *)
INSTRUMENTATION == 100
EXCEPTION_LOGGING == 200
REQUEST_SCOPE == 300

Types == {"http", "websocket", "lifespan"}

VARIABLES
  program,     \* the application's code
  configured,  \* how many of its configure_ calls were made
  recorded,    \* the builder's configurators of the pipeline and of the api
  builds,      \* calls of build(), each with a container of its own
  apps,        \* the applications build() returned
  conn         \* the state of each connection

vars == <<program, configured, recorded, builds, apps, conn>>

(* phase      "idle", "in" (entering layers), "wrapper" (InjectRoute's, or
              FastAPI about to call the endpoint), "handler", "out" (leaving
              layers) or "done"
   inside     the layers whose __call__ is under way
   scope      the connection's REQUEST scope: "none", "open" or "closed"
   root       the container that scope was derived from, 0 for none
   published  whose provider the connection's state holds
   args       names of the arguments the endpoint's call has so far
   next       injected parameters resolved
   owed       the scope has something to dispose of; late: it was resolved
              when the scope had been left; cut: a cancellation broke the
              scope's exit off
   log        one entry per unhandled_exception: was it in a span?
   under      the exception or cancellation under way was raised inside the
              logging layer
   unbound    the endpoint could not be called: no connection, bad arguments *)
Idle ==
  [type |-> "none", app |-> 0, phase |-> "idle", inside |-> {},
   outcome |-> "none", scope |-> "none", root |-> 0, published |-> Nobody,
   args |-> {}, next |-> 0, owed |-> FALSE, late |-> FALSE, cut |-> FALSE,
   log |-> <<>>, under |-> FALSE, unbound |-> FALSE]

Init ==
  /\ program \in Programs
  /\ configured = 0
  /\ recorded = [via \in {"pipeline", "api"} |-> <<>>]
  /\ builds = 0
  /\ apps = <<>>
  /\ conn = [c \in Connections |-> Idle]

----------------------------------------------------------------------------
(* The builder *)

AppLayers(registrations) ==
  [i \in DOMAIN registrations |->
     [via |-> registrations[i].via, order |-> registrations[i].order,
      kind |-> "app"]]

(* Mutant: logging is registered outside the instrumentation. *)
BuiltinsSwapped ==
  << [via |-> "pipeline", order |-> EXCEPTION_LOGGING, kind |-> "instrumentation"],
     [via |-> "pipeline", order |-> INSTRUMENTATION,   kind |-> "logging"],
     [via |-> "pipeline", order |-> REQUEST_SCOPE,     kind |-> "scope"] >>

Builtins ==
  << [via |-> "pipeline", order |-> INSTRUMENTATION,   kind |-> "instrumentation"],
     [via |-> "pipeline", order |-> EXCEPTION_LOGGING, kind |-> "logging"],
     [via |-> "pipeline", order |-> REQUEST_SCOPE,     kind |-> "scope"] >>

(* Mutant: the pipeline belongs to the builder, and earlier builds have    *)
(* left their registrations in it.                                         *)
BuildPipelineKept ==
  IF builds = 0 THEN Builtins \o AppLayers(recorded["pipeline"])
  ELSE Builtins \o AppLayers(recorded["pipeline"])
         \o Builtins \o AppLayers(recorded["pipeline"])

(* _build_pipeline: a HostPipeline of its own for each build, the          *)
(* built-ins first.                                                        *)
BuildPipeline == Builtins \o AppLayers(recorded["pipeline"])

(* Mutant: of two with the same order, the later one goes outside. *)
OutsideLastFirst(layers, i, j) ==
  \/ layers[i].via = "api" /\ layers[j].via = "pipeline"
  \/ layers[i].via = "api" /\ layers[j].via = "api" /\ i > j
  \/ /\ layers[i].via = "pipeline" /\ layers[j].via = "pipeline"
     /\ \/ layers[i].order < layers[j].order
        \/ layers[i].order = layers[j].order /\ i > j

(* Layer i is further out than layer j.  build_middleware sorts the        *)
(* pipeline by order, and the sort is stable; what an api configurator     *)
(* adds to the application is put in front of all there is.                *)
Outside(layers, i, j) ==
  \/ layers[i].via = "api" /\ layers[j].via = "pipeline"
  \/ layers[i].via = "api" /\ layers[j].via = "api" /\ i > j
  \/ /\ layers[i].via = "pipeline" /\ layers[j].via = "pipeline"
     /\ \/ layers[i].order < layers[j].order
        \/ layers[i].order = layers[j].order /\ i < j

(* configure_pipeline, configure_api *)
Configure ==
  /\ configured < Len(program.setup)
  /\ configured' = configured + 1
  /\ LET r == program.setup[configured + 1] IN
       recorded' = [recorded EXCEPT ![r.via] = Append(@, r)]
  /\ UNCHANGED <<program, builds, apps, conn>>

(* build() returns: services, container and pipeline are new, the          *)
(* application has its middleware, then what the api configurators add and *)
(* the router they include, and is handed the container.                   *)
Build ==
  /\ builds < MaxBuilds
  /\ builds' = builds + 1
  /\ apps' = Append(apps,
       [layers |-> BuildPipeline \o AppLayers(recorded["api"]),
        endpoint |-> Inject(Inject(program.endpoint)),
        container |-> builds + 1,
        configurators |-> configured])
  /\ UNCHANGED <<program, configured, recorded, conn>>

(* A configurator of any kind, the container or the application raises:    *)
(* all that was put together is dropped.  (Observability is undone, see    *)
(* the module of that name.)                                               *)
BuildRaises ==
  /\ builds < MaxBuilds
  /\ builds' = builds + 1
  /\ UNCHANGED <<program, configured, recorded, apps, conn>>

----------------------------------------------------------------------------
(* Layers of a connection *)

Layers(c) == apps[conn[c].app].layers
EndpointOf(c) == apps[conn[c].app].endpoint

LayerOf(c, kind) == {i \in DOMAIN Layers(c) : Layers(c)[i].kind = kind}
IsInside(c, kind) == LayerOf(c, kind) \subseteq conn[c].inside

(* The layer that is entered next, and the one whose code runs. *)
IsNext(c, i) ==
  /\ i \in DOMAIN Layers(c) \ conn[c].inside
  /\ \A j \in DOMAIN Layers(c) \ (conn[c].inside \cup {i}) :
       Outside(Layers(c), i, j)
IsRunning(c, i) ==
  /\ i \in conn[c].inside
  /\ \A j \in conn[c].inside \ {i} : Outside(Layers(c), j, i)

Phase(c, phase) == conn[c].phase = phase
IsRequest(c) == conn[c].type \in {"http", "websocket"}

(* An exception is raised where the layers "inside" are around. *)
Raised(c, inside) ==
  [conn[c] EXCEPT !.phase = "out", !.inside = inside, !.outcome = "raised",
                  !.under = LayerOf(c, "logging") \subseteq inside]

(* CancelledError is raised there. *)
Cancelled(c, inside) ==
  [conn[c] EXCEPT !.phase = "out", !.inside = inside, !.outcome = "cancelled",
                  !.under = LayerOf(c, "logging") \subseteq inside]

Accept(c) ==
  /\ Phase(c, "idle")
  /\ Cardinality({d \in Connections : ~Phase(d, "idle")}) < program.load
  /\ \E n \in DOMAIN apps, type \in Types :
       conn' = [conn EXCEPT ![c].type = type, ![c].app = n, ![c].phase = "in"]
  /\ UNCHANGED <<program, configured, recorded, builds, apps>>

(* Mutant: the provider is published on the application, where the next    *)
(* connection replaces it.                                                 *)
OpenScopeOnApp(c, state) ==
  [d \in Connections |->
     IF d = c THEN [state EXCEPT !.scope = "open", !.published = c,
                                 !.root = apps[conn[c].app].container]
     ELSE IF conn[d].app = conn[c].app THEN [conn[d] EXCEPT !.published = c]
     ELSE conn[d]]

(* RequestScopeMiddleware derives a scope from the application's container *)
(* and publishes its provider on the connection.                           *)
OpenScope(c, state) ==
  [conn EXCEPT ![c] = [state EXCEPT !.scope = "open", !.published = c,
                                    !.root = apps[conn[c].app].container]]

(* The next layer is entered and awaits the one inside it.  For a          *)
(* connection that is no request the scope's layer only passes it on.      *)
Enter(c) ==
  /\ Phase(c, "in")
  /\ \E i \in DOMAIN Layers(c) :
       /\ IsNext(c, i)
       /\ LET entered == [conn[c] EXCEPT !.inside = @ \cup {i}] IN
            conn' = IF Layers(c)[i].kind = "scope" /\ IsRequest(c)
                    THEN OpenScope(c, entered)
                    ELSE [conn EXCEPT ![c] = entered]
  /\ UNCHANGED <<program, configured, recorded, builds, apps>>

(* A middleware of the application answers itself, or raises, before it    *)
(* awaits what is inside.                                                  *)
LayerAnswers(c) ==
  /\ Phase(c, "in")
  /\ \E i \in conn[c].inside :
       /\ IsRunning(c, i) /\ Layers(c)[i].kind = "app"
       /\ conn' = [conn EXCEPT ![c] = [conn[c] EXCEPT
            !.phase = "out", !.inside = @ \ {i}, !.outcome = "returned"]]
  /\ UNCHANGED <<program, configured, recorded, builds, apps>>

LayerRaises(c) ==
  /\ Phase(c, "in")
  /\ \E i \in conn[c].inside :
       /\ IsRunning(c, i) /\ Layers(c)[i].kind = "app"
       /\ conn' = [conn EXCEPT ![c] = Raised(c, conn[c].inside \ {i})]
  /\ UNCHANGED <<program, configured, recorded, builds, apps>>

(* The wrapper calls a function that is no coroutine on the event loop.    *)
BlocksLoop(c) ==
  /\ conn[c].type = "http"
  /\ IsWrapped(EndpointOf(c)) /\ ~EndpointOf(c).coroutine

AppRuns(c) ==
  \E i \in conn[c].inside : IsRunning(c, i) /\ Layers(c)[i].kind = "app"

(* CancelledError where the connection's task awaits; on the way out that  *)
(* is in a middleware of the application, or in the scope's exit           *)
(* (CutScope).                                                             *)
Cancel(c) ==
  /\ \/ conn[c].phase \in {"in", "wrapper"}
     \/ Phase(c, "handler") /\ ~BlocksLoop(c)
     \/ Phase(c, "out") /\ AppRuns(c)
  /\ conn' = [conn EXCEPT ![c] = Cancelled(c, conn[c].inside)]
  /\ UNCHANGED <<program, configured, recorded, builds, apps>>

(* Code of the application that runs for c, in a middleware or in the      *)
(* endpoint, resolves something from request_services(connection).         *)
Resolve(c) ==
  /\ \/ Phase(c, "handler")
     \/ conn[c].phase \in {"in", "out"} /\ AppRuns(c)
  /\ conn[c].published # Nobody
  /\ LET owner == conn[c].published IN
       conn' = [conn EXCEPT ![owner].owed = TRUE,
                            ![owner].late = @ \/ conn[owner].scope = "closed"]
  /\ UNCHANGED <<program, configured, recorded, builds, apps>>

----------------------------------------------------------------------------
(* The endpoint *)

(* All layers are entered.  An HTTP request finds its route and FastAPI    *)
(* collects the arguments; other endpoints are called as they are.         *)
Route(c) ==
  /\ Phase(c, "in") /\ conn[c].inside = DOMAIN Layers(c)
  /\ conn' = [conn EXCEPT ![c] = IF @.type = "http"
       THEN [@ EXCEPT !.phase = "wrapper",
                      !.args = Supplied(EndpointOf(c).signature)]
       ELSE [@ EXCEPT !.phase = "handler"]]
  /\ UNCHANGED <<program, configured, recorded, builds, apps>>

Unresolved(c) == conn[c].next < Len(EndpointOf(c).injected)

(* The wrapper takes its connection from the arguments first. *)
Connected(c) ==
  IsWrapped(EndpointOf(c)) => FindsConnection(EndpointOf(c), conn[c].args)

(* Then it resolves one injected parameter after the other.  get builds    *)
(* what the parameter needs before the parameter itself, and may get no    *)
(* further than that ...                                                   *)
BuildNeeded(c) ==
  /\ Phase(c, "wrapper") /\ Connected(c) /\ Unresolved(c)
  /\ conn[c].published # Nobody
  /\ conn' = [conn EXCEPT ![conn[c].published].owed = TRUE]
  /\ UNCHANGED <<program, configured, recorded, builds, apps>>

(* ... or return the parameter ... *)
ResolveInjected(c) ==
  /\ Phase(c, "wrapper") /\ Connected(c) /\ Unresolved(c)
  /\ conn[c].published # Nobody
  /\ conn' = [conn EXCEPT
       ![c].args = @ \cup {EndpointOf(c).injected[conn[c].next + 1].name},
       ![c].next = @ + 1,
       ![conn[c].published].owed = TRUE]
  /\ UNCHANGED <<program, configured, recorded, builds, apps>>

(* ... of which one may not be resolvable. *)
ResolveInjectedRaises(c) ==
  /\ Phase(c, "wrapper") /\ Connected(c) /\ Unresolved(c)
  /\ conn' = [conn EXCEPT ![c] = Raised(c, conn[c].inside)]
  /\ UNCHANGED <<program, configured, recorded, builds, apps>>

(* func is called with all arguments: Python binds them, or raises. *)
CallHandler(c) ==
  /\ Phase(c, "wrapper") /\ Connected(c) /\ ~Unresolved(c)
  /\ LET e    == EndpointOf(c)
         args == WithoutHidden(e, conn[c].args)
     IN  conn' = [conn EXCEPT ![c] =
           IF Binds(e.params, args)
           THEN [@ EXCEPT !.phase = "handler", !.args = args]
           ELSE [Raised(c, conn[c].inside) EXCEPT !.unbound = TRUE]]
  /\ UNCHANGED <<program, configured, recorded, builds, apps>>

(* kwargs[connection_param] raises KeyError. *)
NoConnection(c) ==
  /\ Phase(c, "wrapper") /\ ~Connected(c)
  /\ conn' = [conn EXCEPT ![c] =
       [Raised(c, conn[c].inside) EXCEPT !.unbound = TRUE]]
  /\ UNCHANGED <<program, configured, recorded, builds, apps>>

(* The wrapper awaits what func returned: a function that is no coroutine  *)
(* has done its work then, and raises TypeError.                           *)
HandlerReturns(c) ==
  /\ Phase(c, "handler")
  /\ conn' = [conn EXCEPT ![c] =
       IF BlocksLoop(c)
       THEN Raised(c, conn[c].inside)
       ELSE [@ EXCEPT !.phase = "out", !.outcome = "returned"]]
  /\ UNCHANGED <<program, configured, recorded, builds, apps>>

HandlerRaises(c) ==
  /\ Phase(c, "handler")
  /\ conn' = [conn EXCEPT ![c] = Raised(c, conn[c].inside)]
  /\ UNCHANGED <<program, configured, recorded, builds, apps>>

----------------------------------------------------------------------------
(* Leaving the layers *)

Recording(c) == IsInside(c, "instrumentation") /\ IsRequest(c)

(* ExceptionLoggingMiddleware logs an Exception, not a CancelledError, and *)
(* add_trace_context stamps the record with the span that records.         *)
LogFailure(c) ==
  IF conn[c].outcome = "raised" THEN Append(conn[c].log, Recording(c))
  ELSE conn[c].log

(* A built-in layer other than the scope's, or the scope's for a           *)
(* connection that is no request, is left with what came out of it.        *)
LeaveBuiltin(c) ==
  /\ Phase(c, "out")
  /\ \E i \in conn[c].inside :
       /\ IsRunning(c, i) /\ Layers(c)[i].kind # "app"
       /\ Layers(c)[i].kind = "scope" => ~IsRequest(c)
       /\ conn' = [conn EXCEPT
            ![c].inside = @ \ {i},
            ![c].log = IF Layers(c)[i].kind = "logging" THEN LogFailure(c) ELSE @]
  /\ UNCHANGED <<program, configured, recorded, builds, apps>>

(* Mutant: the scope is left on the way of a result only. *)
LeaveScopeNoFinally(c) ==
  /\ Phase(c, "out") /\ IsRequest(c)
  /\ \E i \in conn[c].inside :
       /\ IsRunning(c, i) /\ Layers(c)[i].kind = "scope"
       /\ conn' = [conn EXCEPT ![c] =
            IF @.outcome = "returned"
            THEN [@ EXCEPT !.inside = @ \ {i}, !.scope = "closed", !.owed = FALSE]
            ELSE [@ EXCEPT !.inside = @ \ {i}]]
  /\ UNCHANGED <<program, configured, recorded, builds, apps>>

(* "async with" leaves the scope whatever came out, and finalizes what was *)
(* resolved in it; a finalizer that raises replaces the outcome.           *)
LeaveScope(c) ==
  /\ Phase(c, "out") /\ IsRequest(c)
  /\ \E i \in conn[c].inside, raises \in BOOLEAN :
       /\ IsRunning(c, i) /\ Layers(c)[i].kind = "scope"
       /\ raises => conn[c].owed
       /\ LET left == IF raises THEN Raised(c, conn[c].inside \ {i})
                      ELSE [conn[c] EXCEPT !.inside = @ \ {i}]
          IN  conn' = [conn EXCEPT ![c] =
                [left EXCEPT !.scope = "closed", !.owed = FALSE]]
  /\ UNCHANGED <<program, configured, recorded, builds, apps>>

(* A CancelledError where the exit awaits a dispose(): that one and those  *)
(* below it do not run to their end, and nothing comes back to them.       *)
CutScope(c) ==
  /\ Phase(c, "out") /\ IsRequest(c) /\ conn[c].owed
  /\ \E i \in conn[c].inside :
       /\ IsRunning(c, i) /\ Layers(c)[i].kind = "scope"
       /\ conn' = [conn EXCEPT ![c] =
            [Cancelled(c, conn[c].inside \ {i}) EXCEPT
               !.scope = "closed", !.cut = TRUE]]
  /\ UNCHANGED <<program, configured, recorded, builds, apps>>

(* A middleware of the application passes the outcome on, turns an         *)
(* exception into a response, or raises one of its own.                    *)
LeaveApp(c) ==
  /\ Phase(c, "out")
  /\ \E i \in conn[c].inside :
       /\ IsRunning(c, i) /\ Layers(c)[i].kind = "app"
       /\ LET left == [conn[c] EXCEPT !.inside = @ \ {i}] IN
            \/ conn' = [conn EXCEPT ![c] = left]
            \/ /\ conn[c].outcome = "raised"
               /\ conn' = [conn EXCEPT ![c] = [left EXCEPT !.outcome = "returned"]]
            \/ conn' = [conn EXCEPT ![c] = Raised(c, conn[c].inside \ {i})]
  /\ UNCHANGED <<program, configured, recorded, builds, apps>>

(* The outcome reaches the server. *)
Answer(c) ==
  /\ Phase(c, "out") /\ conn[c].inside = {}
  /\ conn' = [conn EXCEPT ![c].phase = "done"]
  /\ UNCHANGED <<program, configured, recorded, builds, apps>>

----------------------------------------------------------------------------
BuilderStep == Configure \/ Build \/ BuildRaises

ConnectionStep(c) ==
  \/ Accept(c) \/ Enter(c) \/ LayerAnswers(c) \/ LayerRaises(c) \/ Cancel(c)
  \/ Resolve(c) \/ Route(c)
  \/ BuildNeeded(c) \/ ResolveInjected(c) \/ ResolveInjectedRaises(c)
  \/ NoConnection(c)
  \/ CallHandler(c) \/ HandlerReturns(c) \/ HandlerRaises(c)
  \/ LeaveBuiltin(c) \/ LeaveScope(c) \/ CutScope(c) \/ LeaveApp(c)
  \/ Answer(c)

(* The process may stop when no connection is under way. *)
Quiet ==
  /\ \A c \in Connections : conn[c].phase \in {"idle", "done"}
  /\ UNCHANGED vars

Next == BuilderStep \/ (\E c \in Connections : ConnectionStep(c)) \/ Quiet

Spec == Init /\ [][Next]_vars

----------------------------------------------------------------------------
ConnState(names) ==
  [type : Types \cup {"none"}, app : 0..MaxBuilds,
   phase : {"idle", "in", "wrapper", "handler", "out", "done"},
   inside : SUBSET Nat, outcome : {"none", "returned", "raised", "cancelled"},
   scope : {"none", "open", "closed"}, root : 0..MaxBuilds,
   published : Connections \cup {Nobody}, args : SUBSET names, next : Nat,
   owed : BOOLEAN, late : BOOLEAN, cut : BOOLEAN, log : Seq(BOOLEAN),
   under : BOOLEAN, unbound : BOOLEAN]

TypeOK ==
  /\ program \in Programs
  /\ configured \in 0..Len(program.setup)
  /\ recorded \in [{"pipeline", "api"} -> Seq(Registration)]
  /\ builds \in 0..MaxBuilds
  /\ Len(apps) <= builds
  /\ \A c \in Connections :
       /\ conn[c] \in
            ConnState(NamesOf(program.endpoint.params) \cup HiddenNames)
       /\ conn[c].app \in 0..Len(apps)
       /\ Len(conn[c].log) <= 1
       /\ conn[c].phase # "idle" => /\ conn[c].app > 0
                                    /\ conn[c].inside \subseteq DOMAIN Layers(c)

(* What http_di.py:5-7 offers: endpoints, and every middleware registered  *)
(* at REQUEST_SCOPE or further in (pipeline.py:24, 61), find on the        *)
(* connection's state the provider of this connection's own scope, open,   *)
(* and derived from the container of the application that serves it,       *)
(* whatever else is served or was built in the process.  (A middleware of  *)
(* configure_api is outside the scope whatever it wants.)                  *)
ScopeReachable ==
  \A c \in Connections : conn[c].phase \in {"in", "wrapper", "handler", "out"} =>
    /\ \A i \in conn[c].inside :
         /\ Layers(c)[i].via = "pipeline" /\ Layers(c)[i].order >= REQUEST_SCOPE
         => IsInside(c, "scope")
    /\ conn[c].phase \in {"wrapper", "handler"} => IsInside(c, "scope")
    /\ IsInside(c, "scope") /\ IsRequest(c) =>
         /\ conn[c].published = c /\ conn[c].scope = "open"
         /\ conn[c].root = apps[conn[c].app].container

(* An exception of the endpoint, of the wrapper, of the scope's exit or of *)
(* a middleware inside the logging layer, which nothing has answered, is   *)
(* logged once, and if it belongs to a request, with the request's span    *)
(* (exception_logging.py:18-30, tracing.py:67-82).  A cancellation that    *)
(* struck inside that layer, in the scope's exit included, is never        *)
(* logged, unless a middleware raised an exception after it.               *)
FailureLogged ==
  \A c \in Connections : conn[c].phase = "done" =>
    /\ conn[c].outcome = "raised" /\ conn[c].under =>
         conn[c].log = <<IsRequest(c)>>
    /\ conn[c].outcome = "cancelled" /\ conn[c].under => conn[c].log = <<>>

(* What was resolved for a connection, by its endpoint, by the wrapper on  *)
(* behalf of a parameter that could not be resolved in the end, or by a    *)
(* middleware, is disposed of when the connection ends, whether it ends    *)
(* with a result, an exception or a cancellation on the way in, in the     *)
(* endpoint or in a middleware on the way out.  With two exceptions: a     *)
(* CancelledError in the scope's exit itself cuts the disposal short       *)
(* (http_di.py:45-47, service_provider.py:58); and a middleware outside    *)
(* the scope may resolve after it was left, for request_services still     *)
(* returns the provider (http_di.py:66-69), which one registered at        *)
(* REQUEST_SCOPE or further in cannot.                                     *)
ResolvedIsDisposed ==
  \A c \in Connections : conn[c].phase = "done" /\ conn[c].owed =>
    \/ conn[c].cut
    \/ /\ conn[c].late
       /\ \E i \in LayerOf(c, "app"), j \in LayerOf(c, "scope") :
            Outside(Layers(c), i, j)

(* An endpoint that runs for an HTTP request has every parameter it        *)
(* declares, injected ones included, and none of the hidden ones; and no   *)
(* call fails over its arguments as long as the endpoint takes its request *)
(* in the way both InjectRoute and FastAPI expect                          *)
(* (route_injection.py:54-66, 93-97), although the route was rewritten     *)
(* when it was declared and again when its router was included.            *)
CalledComplete ==
  \A c \in Connections : conn[c].type = "http" =>
    /\ conn[c].phase = "handler" =>
         /\ NamesOf(program.endpoint.params) \subseteq conn[c].args
         /\ conn[c].args \cap HiddenNames = {}
    /\ Conventional(program.endpoint.params) => ~conn[c].unbound

(* Every application that build() returns has the built-in layers once and *)
(* each configurator's once, whichever builds of the same builder came     *)
(* before, and an endpoint whose signature Python and FastAPI accept       *)
(* (web_host_builder.py:138-146, route_injection.py:155-159).              *)
BuildsAgree ==
  \A n \in DOMAIN apps :
    /\ Len(apps[n].layers) = Len(Builtins) + apps[n].configurators
    /\ \A k \in {"instrumentation", "logging", "scope"} :
         Cardinality({i \in DOMAIN apps[n].layers : apps[n].layers[i].kind = k}) = 1
    /\ WellOrdered(apps[n].endpoint.signature)
    /\ InjectedDependencies(apps[n].endpoint.signature) = <<>>
=============================================================================
