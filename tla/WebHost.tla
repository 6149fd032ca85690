------------------------------ MODULE WebHost ------------------------------
(***************************************************************************)
(* WebHost.run (pepelats/hosting/web_host.py): uvicorn serves the          *)
(* application, whose lifespan is the host task of HostLifecycle and whose *)
(* every request runs in a REQUEST scope of its own                        *)
(* (RequestScopeMiddleware, pepelats/hosting/http_di.py).                  *)
(*                                                                         *)
(* uvicorn is external.  What run() relies on: requests are accepted once  *)
(* the lifespan's startup is complete; on a signal the server waits for    *)
(* the requests in flight, for timeout_graceful_shutdown seconds at most;  *)
(* then it cancels those left, without awaiting them, and sends            *)
(* lifespan.shutdown.  A second signal while it waits skips                *)
(* lifespan.shutdown.  At the end asyncio.run cancels every task left.     *)
(***************************************************************************)
EXTENDS HostLifecycle

CONSTANTS Requests,         \* the connections of one run of the server
          ScopedResources   \* REQUEST-scoped registrations with a finalizer

ASSUME WebAssumption == ScopedResources \in Nat

VARIABLES
  server,    \* "starting", "serving", "draining", "shutdown" or "exited"
  request,   \* each request: "idle", "open" (in its handler), "closing"
             \* (in its scope's exit), "done", or "cut" (its scope's exit
             \* was broken off)
  scoped,    \* finalizers each request's scope still owes
  doomed,    \* requests whose task has a CancelledError on its way
  expired    \* the graceful window ended with requests in flight

webVars == <<server, request, scoped, doomed, expired>>
allVars == <<vars, webVars>>

InFlight == {r \in Requests : request[r] \in {"open", "closing"}}

WebInit ==
  /\ Init
  /\ server = "starting"
  /\ request = [r \in Requests |-> "idle"]
  /\ scoped = [r \in Requests |-> 0]
  /\ doomed = {}
  /\ expired = FALSE

----------------------------------------------------------------------------
(* The server *)

(* Mutant: the lifespan yields before the application's startup is over. *)
ServerStartsEarly ==
  /\ server = "starting" /\ host \in {"entering", "serving"}
  /\ server' = "serving"
  /\ UNCHANGED <<vars, request, scoped, doomed, expired>>

(* lifespan.startup.complete: the sockets are opened. *)
ServerStarts ==
  /\ server = "starting" /\ host = "serving"
  /\ server' = "serving"
  /\ UNCHANGED <<vars, request, scoped, doomed, expired>>

(* The lifespan failed to start, and its teardown is over: uvicorn gives up. *)
StartupFails ==
  /\ server = "starting" /\ host = "done"
  /\ server' = "exited"
  /\ UNCHANGED <<vars, request, scoped, doomed, expired>>

(* The first signal: no more requests, those in flight may finish. *)
Terminate ==
  /\ server = "serving"
  /\ server' = "draining"
  /\ UNCHANGED <<vars, request, scoped, doomed, expired>>

Drained ==
  /\ server = "draining"
  /\ InFlight = {}
  /\ server' = "shutdown"
  /\ UNCHANGED <<vars, request, scoped, doomed, expired>>

(* Mutant: timeout_graceful_shutdown is not set, and uvicorn waits on. *)
WindowNeverExpires ==
  /\ FALSE
  /\ UNCHANGED allVars

(* The graceful window is over: the requests are cancelled, not awaited. *)
WindowExpires ==
  /\ server = "draining"
  /\ InFlight # {}
  /\ server' = "shutdown"
  /\ doomed' = doomed \cup InFlight
  /\ expired' = TRUE
  /\ UNCHANGED <<vars, request, scoped>>

(* Mutant: the host shuts down at the signal, beside the draining server. *)
LifespanShutdownAtSignal ==
  /\ server \in {"draining", "shutdown"}
  /\ ShutdownRequested
  /\ UNCHANGED webVars

(* lifespan.shutdown reaches the host task, which leaves its yield. *)
LifespanShutdown ==
  /\ server = "shutdown"
  /\ ShutdownRequested
  /\ UNCHANGED webVars

(* Every task left is cancelled: the second signal while draining, or a    *)
(* first signal during startup, which uvicorn heeds once that is complete. *)
ForceQuit ==
  /\ server = "draining" \/ (server = "starting" /\ host = "serving")
  /\ ForcedExit
  /\ cancel' = cancel \cup Alive
  /\ server' = "exited"
  /\ doomed' = doomed \cup InFlight
  /\ UNCHANGED <<request, scoped, expired>>

(* The lifespan is over and the server returns; asyncio.run then cancels   *)
(* the requests that are still unwinding.                                  *)
ServerExits ==
  /\ server = "shutdown" /\ host = "done"
  /\ server' = "exited"
  /\ doomed' = doomed \cup InFlight
  /\ UNCHANGED <<vars, request, scoped, expired>>

----------------------------------------------------------------------------
(* The requests: RequestScopeMiddleware around the handler *)

Unhindered(r, state) == request[r] = state /\ r \notin doomed

Accept(r) ==
  /\ server = "serving"
  /\ request[r] = "idle"
  /\ request' = [request EXCEPT ![r] = "open"]
  /\ UNCHANGED <<vars, server, scoped, doomed, expired>>

(* Mutant: a REQUEST-scoped resource is built again each time. *)
ResolveScopedUncached(r) ==
  /\ Unhindered(r, "open")
  /\ scoped[r] <= ScopedResources
  /\ scoped' = [scoped EXCEPT ![r] = @ + 1]
  /\ UNCHANGED <<vars, server, request, doomed, expired>>

(* The handler, or its cleanup, has a REQUEST-scoped resource built. *)
ResolveScoped(r) ==
  /\ Unhindered(r, "open")
  /\ scoped[r] < ScopedResources
  /\ scoped' = [scoped EXCEPT ![r] = @ + 1]
  /\ UNCHANGED <<vars, server, request, doomed, expired>>

(* ... or an APP-scoped one.  A container that was closed still builds, so *)
(* only the state of the request bounds when.                              *)
ResolveApp(r) ==
  /\ Unhindered(r, "open")
  /\ owed < AppResources
  /\ owed' = owed + 1
  /\ UNCHANGED <<host, application, resolved, task, cancel, stopping,
                 telemetry, timedOut, forced, raised, webVars>>

(* The handler has sent its response or raised: either way the scope is    *)
(* left through its exit, which does not suspend when nothing is owed.     *)
HandlerEnds(r) ==
  /\ Unhindered(r, "open")
  /\ request' = [request EXCEPT ![r] = IF scoped[r] = 0 THEN "done"
                                                        ELSE "closing"]
  /\ UNCHANGED <<vars, server, scoped, doomed, expired>>

(* A finalizer of the scope has run, or raised: the others run even so. *)
Finalize(r) ==
  /\ Unhindered(r, "closing")
  /\ scoped' = [scoped EXCEPT ![r] = @ - 1]
  /\ request' = [request EXCEPT ![r] = IF scoped[r] = 1 THEN "done" ELSE @]
  /\ UNCHANGED <<vars, server, doomed, expired>>

(* Mutant: the scope's exit is left out when the handler is cancelled. *)
CancelHandlerSkipsExit(r) ==
  /\ r \in doomed /\ request[r] = "open"
  /\ doomed' = doomed \ {r}
  /\ request' = [request EXCEPT ![r] = "done"]
  /\ UNCHANGED <<vars, server, scoped, expired>>

(* CancelledError in the handler: it unwinds, and may await, as one that   *)
(* is not cancelled may; HandlerEnds is its end.                           *)
CancelHandler(r) ==
  /\ r \in doomed /\ request[r] = "open"
  /\ doomed' = doomed \ {r}
  /\ UNCHANGED <<vars, server, request, scoped, expired>>

(* CancelledError in a finalizer: those below it do not run.  A scope with *)
(* nothing left to finalize is not cut: its exit does not suspend.         *)
CancelFinalizer(r) ==
  /\ r \in doomed /\ request[r] = "closing"
  /\ doomed' = doomed \ {r}
  /\ scoped' = [scoped EXCEPT ![r] = @ - 1]
  /\ request' = [request EXCEPT ![r] = "cut"]
  /\ UNCHANGED <<vars, server, expired>>

RequestStep(r) ==
  \/ Accept(r) \/ ResolveScoped(r) \/ ResolveApp(r) \/ HandlerEnds(r)
  \/ Finalize(r) \/ CancelHandler(r) \/ CancelFinalizer(r)

----------------------------------------------------------------------------
(* The host task, its services and its flush thread, between the signals   *)
(* the server gives.  While it serves, only requests use the container.    *)
LifecycleStep ==
  /\ \/ Resolve \/ ResolveRaises \/ Serve
     \/ AppLeaves \/ AppStartupRaises
     \/ host # "serving" /\ CallerResolves
     \/ ShutdownTimeout \/ ServicesStopped
     \/ Dispose \/ CloseReturns \/ FlushThread \/ Finish
     \/ CancelHost
     \/ \E i \in Services : ServiceStep(i)
  /\ UNCHANGED webVars

ServerStep ==
  \/ ServerStarts \/ StartupFails \/ Terminate \/ Drained \/ WindowExpires
  \/ LifespanShutdown \/ ForceQuit \/ ServerExits

WebTerminated ==
  /\ server = "exited" /\ host = "done" /\ telemetry # "flushing"
  /\ InFlight = {}
  /\ UNCHANGED allVars

WebNext ==
  \/ LifecycleStep \/ ServerStep
  \/ \E r \in Requests : RequestStep(r)
  \/ WebTerminated

WebSpec == WebInit /\ [][WebNext]_allVars

(* Fairness: that of the lifecycle, and a server that polls its state.     *)
(* Nothing is assumed of the requests: a handler may never return.         *)
WebFairness ==
  /\ Fairness
  /\ WF_allVars(Drained \/ WindowExpires)
  /\ WF_allVars(LifespanShutdown)
  /\ WF_allVars(ServerExits)

WebLiveSpec == WebSpec /\ WebFairness

----------------------------------------------------------------------------
WebTypeOK ==
  /\ TypeOK
  /\ server \in {"starting", "serving", "draining", "shutdown", "exited"}
  /\ request \in [Requests -> {"idle", "open", "closing", "done", "cut"}]
  /\ scoped \in [Requests -> 0..ScopedResources]
  /\ doomed \subseteq Requests
  /\ expired \in BOOLEAN

(* A request lives inside the host's body: services running, telemetry up, *)
(* no finalizer of the container begun, until its scope has been left.     *)
(* Only the end of the graceful window or a forced exit breaks that        *)
(* (web_host.py:42-44, web_host_builder.py:158-169).                       *)
ServedInWindow ==
  InFlight # {} /\ ~expired /\ forced = "no" =>
    /\ host = "serving"
    /\ \A i \in 1..registered : task[i] # "none"
    /\ ~stopping /\ telemetry = "up"

(* Every finalizer of a request's scope runs, whether the handler returns, *)
(* raises or is cancelled (http_di.py:45-47); only a CancelledError that   *)
(* strikes in the scope's exit itself, the second one if the handler was   *)
(* cancelled, breaks the exit off, and only the end of the graceful window *)
(* or a forced exit sends one.  A scope owes nothing before its request.   *)
ScopeFinalized ==
  \A r \in Requests :
    /\ request[r] \in {"idle", "done"} => scoped[r] = 0
    /\ request[r] = "cut" => expired \/ forced # "no"

(* The container is closed once no request can use it any more: at the end *)
(* no finalizer is owed, though requests resolve from it until they end    *)
(* (host_lifecycle.py:36-40).                                              *)
NothingLeaked ==
  host = "done" /\ ~expired /\ forced = "no" => owed = 0

(* The signal brings the host down, teardown included, even if a handler   *)
(* never returns and a service ignores stopping (web_host.py:42-44).       *)
SignalEndsHost ==
  server = "draining" ~> server = "exited" /\ host = "done"

(* What async_disposable.py:11-12 says of every service: "the container    *)
(* calls dispose once nothing depends on it".  No APP-scoped resource is   *)
(* disposed while a request, which may hold it, is in its handler or its   *)
(* scope's exit; one whose CancelledError is still on its way is not       *)
(* counted.  Does not hold: the cancelled requests are not awaited.        *)
ResourcesOutliveScopes ==
  [][owed' < owed => InFlight \subseteq doomed]_allVars

(* Nothing has left requests behind. *)
Undisturbed == ~expired /\ forced = "no"

(* Under a server the promise of HostTeardown includes the requests: they  *)
(* are workers of the host from the moment they are accepted until their   *)
(* scope has been left (http_di.py:45-47).  The code keeps it up to the    *)
(* step that leaves requests behind.                                       *)
WebWorkers(tasks, requests) ==
  {<<"task", w>> : w \in tasks} \cup {<<"request", r>> : r \in requests}

WT == INSTANCE HostTeardown WITH
        Workers <- WebWorkers(0..N, Requests), MaxOwed <- AppResources,
        phase <- Phase, workers <- WebWorkers(ActiveWorkers, InFlight)

TeardownUnderServer ==
  WT!Init /\ [][Undisturbed => [WT!Next]_(WT!tvars)]_allVars
=============================================================================
