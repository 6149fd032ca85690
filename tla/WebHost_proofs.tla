--------------------------- MODULE WebHost_proofs ---------------------------
(***************************************************************************)
(* Proofs about WebHost, for any set of requests, any number of scoped and *)
(* APP-scoped resources, any number of services and any set of faults.     *)
(*                                                                         *)
(* As long as neither the graceful window nor a forced exit has left       *)
(* requests behind, each step of the server is one that HostLifecycle      *)
(* allows, so its invariant carries over.  Afterwards a request may build  *)
(* an APP-scoped resource at any time, behind the container's close()      *)
(* even; Core, the part of that invariant which does not speak of what is  *)
(* owed behind close(), holds all the same.                                *)
(***************************************************************************)
EXTENDS WebHost, HostLifecycle_proofs

(* What the state of the server says of the host and of the requests. *)
WindowInv ==
  /\ server = "starting" => InFlight = {}
  /\ Undisturbed /\ server \in {"serving", "draining"} => host = "serving"
  /\ Undisturbed /\ server \in {"shutdown", "exited"} => InFlight = {}

(* What the scopes owe, and when their requests can be cancelled. *)
ScopeInv ==
  /\ \A r \in Requests : request[r] = "closing" => scoped[r] > 0
  /\ Undisturbed => doomed = {}
  /\ ScopeFinalized

WebInv ==
  /\ WebTypeOK /\ Core
  /\ Undisturbed => OwedInv
  /\ WindowInv /\ ScopeInv

ServerTypeOK ==
  /\ server \in {"starting", "serving", "draining", "shutdown", "exited"}
  /\ request \in [Requests -> {"idle", "open", "closing", "done", "cut"}]
  /\ scoped \in [Requests -> 0..ScopedResources]
  /\ doomed \subseteq Requests
  /\ expired \in BOOLEAN

----------------------------------------------------------------------------
LEMMA WebInitInv == WebInit => WebInv
<1> SUFFICES ASSUME WebInit PROVE WebInv
  OBVIOUS
<1>1. Init
  BY DEF WebInit
<1>2. Inv
  BY <1>1, InitInv
<1>3. InFlight = {}
  BY DEF WebInit, InFlight
<1>4. WebTypeOK
  <2>1. 0 \in 0..ScopedResources
    BY WebAssumption
  <2> QED
    BY <1>2, <2>1 DEF WebInit, WebTypeOK, Inv, Core
<1>5. WindowInv /\ ScopeInv
  BY <1>3 DEF WebInit, WindowInv, ScopeInv, ScopeFinalized
<1> QED
  BY <1>2, <1>4, <1>5 DEF Inv, WebInv

(* A step that is none of HostLifecycle's: a request builds an APP-scoped
   resource, whatever the host is doing. *)
LEMMA StepKinds ==
  ASSUME [WebNext]_allVars
  PROVE  [Next]_vars \/ \E r \in Requests : ResolveApp(r)
<1>1. CASE LifecycleStep
  BY <1>1, Zenon DEF LifecycleStep, Next, HostStep
<1>2. CASE ServerStep
  BY <1>2
  DEF ServerStep, ServerStarts, StartupFails, Terminate, Drained,
      WindowExpires, LifespanShutdown, ForceQuit, ServerExits, Next, HostStep
<1>3. ASSUME NEW r \in Requests, RequestStep(r)
      PROVE  UNCHANGED vars \/ ResolveApp(r)
  BY <1>3
  DEF RequestStep, Accept, ResolveScoped, HandlerEnds, Finalize,
      CancelHandler, CancelFinalizer
<1>4. CASE WebTerminated \/ UNCHANGED allVars
  BY <1>4 DEF WebTerminated, allVars
<1> QED
  BY <1>1, <1>2, <1>3, <1>4 DEF WebNext

(* Undisturbed, it is one too: the host serves while a request is open. *)
LEMMA UndisturbedStep ==
  ASSUME WebInv, Undisturbed, [WebNext]_allVars
  PROVE  [Next]_vars
<1>1. ASSUME NEW r \in Requests, ResolveApp(r) PROVE CallerResolves
  <2>1. InFlight # {}
    BY <1>1 DEF ResolveApp, Unhindered, InFlight
  <2>2. host = "serving"
    BY <2>1 DEF WebInv, WindowInv, WebTypeOK
  <2> QED
    BY <1>1, <2>2 DEF ResolveApp, CallerResolves, CallerInside
<1> QED
  BY <1>1, StepKinds DEF Next

(* What is built behind the host's back leaves Core as it is. *)
LEMMA CoreWebStep ==
  ASSUME WebInv, [WebNext]_allVars
  PROVE  Core'
<1>1. CASE [Next]_vars
  BY <1>1, CoreStep DEF WebInv
<1>2. ASSUME NEW r \in Requests, ResolveApp(r) PROVE Core'
  <2> USE <1>2, ConstantsAssumption DEF WebInv, Core, ResolveApp, application
  <2>1. TypeOK'
    BY DEF TypeOK
  <2>2. TaskInv'
    BY DEF TaskInv, CallerInside, Alive
  <2>3. StopInv'
    BY DEF StopInv, GracePeriod
  <2>4. CloseInv'
    BY DEF TypeOK, CloseInv, FlushedUnlessFailed
  <2> QED
    BY <2>1, <2>2, <2>3, <2>4
<1> QED
  BY <1>1, <1>2, StepKinds

(* Nothing that has disturbed the requests is ever undone. *)
LEMMA DisturbedStays ==
  ASSUME WebInv, [WebNext]_allVars, Undisturbed'
  PROVE  Undisturbed
<1>1. forced' = "no" => forced = "no"
  <2>1. [Next]_vars => (forced' = "no" => forced = "no")
    <3> SUFFICES ASSUME [Next]_vars PROVE forced' = "no" => forced = "no"
      OBVIOUS
    <3>1. CASE HostStep
      BY <3>1
      DEF HostStep, Resolve, ResolveRaises, Serve, ShutdownRequested,
          AppLeaves, AppStartupRaises, ShutdownTimeout, ServicesStopped,
          Dispose, CloseReturns, Finish
    <3>2. CASE CancelHost
      BY <3>2
      DEF CancelHost, CancelResolving, CancelServing, CancelBody,
          CancelStopping, CancelClosing, CancelFlushing
    <3>3. CASE \E i \in Services : ServiceStep(i)
      BY <3>3, ServiceFrame
    <3>4. CASE \/ CallerResolves \/ FlushThread \/ ForcedExit
               \/ Terminated \/ UNCHANGED vars
      BY <3>4 DEF CallerResolves, FlushThread, ForcedExit, Terminated, vars
    <3> QED
      BY <3>1, <3>2, <3>3, <3>4 DEF Next
  <2> QED
    BY <2>1, StepKinds DEF ResolveApp
<1>2. expired' = expired \/ expired' = TRUE
  <2>1. CASE LifecycleStep \/ WebTerminated \/ UNCHANGED allVars
    BY <2>1 DEF LifecycleStep, WebTerminated, allVars, webVars
  <2>2. CASE ServerStep
    BY <2>2
    DEF ServerStep, ServerStarts, StartupFails, Terminate, Drained,
        WindowExpires, LifespanShutdown, ForceQuit, ServerExits, webVars
  <2>3. ASSUME NEW r \in Requests, RequestStep(r) PROVE expired' = expired
    BY <2>3
    DEF RequestStep, Accept, ResolveScoped, ResolveApp, HandlerEnds,
        Finalize, CancelHandler, CancelFinalizer, webVars
  <2> QED
    BY <2>1, <2>2, <2>3 DEF WebNext
<1> QED
  BY <1>1, <1>2 DEF Undisturbed

(* While it serves undisturbed, only the server's lifespan.shutdown makes   *)
(* the host task go on.                                                     *)
LEMMA ServingKept ==
  ASSUME LifecycleStep, host = "serving", forced = "no"
  PROVE  host' = "serving"
<1>1. CASE \/ Resolve \/ ResolveRaises \/ Serve \/ AppLeaves
           \/ AppStartupRaises \/ ShutdownTimeout \/ ServicesStopped
           \/ Dispose \/ CloseReturns \/ Finish
  BY <1>1
  DEF Resolve, ResolveRaises, Serve, AppLeaves, AppStartupRaises,
      ShutdownTimeout, ServicesStopped, Dispose, CloseReturns, Finish, HostAt
<1>2. CASE CancelHost
  BY <1>2
  DEF CancelHost, CancelResolving, CancelServing, CancelBody,
      CancelStopping, CancelClosing, CancelFlushing, Cancelled
<1>3. CASE \E i \in Services : ServiceStep(i)
  BY <1>3, ServiceFrame
<1>4. CASE FlushThread
  BY <1>4 DEF FlushThread
<1> QED
  BY <1>1, <1>2, <1>3, <1>4 DEF LifecycleStep

(* A request comes in while the server serves; none comes back. *)
LEMMA InFlightStep ==
  ASSUME WebInv, [WebNext]_allVars
  PROVE  \/ InFlight' \subseteq InFlight
         \/ server = "serving" /\ server' = server
<1>1. CASE UNCHANGED request
  BY <1>1 DEF InFlight
<1>2. CASE LifecycleStep \/ WebTerminated \/ UNCHANGED allVars
  BY <1>1, <1>2 DEF LifecycleStep, WebTerminated, allVars, webVars
<1>3. CASE ServerStep
  BY <1>1, <1>3
  DEF ServerStep, ServerStarts, StartupFails, Terminate, Drained,
      WindowExpires, LifespanShutdown, ForceQuit, ServerExits, webVars
<1>4. ASSUME NEW r \in Requests, RequestStep(r)
      PROVE  \/ InFlight' \subseteq InFlight
             \/ server = "serving" /\ server' = server
  <2>1. CASE Accept(r)
    BY <2>1 DEF Accept
  <2>2. CASE ResolveScoped(r) \/ ResolveApp(r) \/ CancelHandler(r)
    BY <1>1, <2>2 DEF ResolveScoped, ResolveApp, CancelHandler, webVars
  <2>3. CASE HandlerEnds(r) \/ Finalize(r) \/ CancelFinalizer(r)
    <3>1. r \in InFlight
      BY <2>3
      DEF HandlerEnds, Finalize, CancelFinalizer, Unhindered, InFlight
    <3>2. \A q \in Requests \ {r} : request'[q] = request[q]
      BY <2>3
      DEF HandlerEnds, Finalize, CancelFinalizer, WebInv, WebTypeOK
    <3> QED
      BY <3>1, <3>2 DEF InFlight
  <2> QED
    BY <1>4, <2>1, <2>2, <2>3 DEF RequestStep
<1> QED
  BY <1>2, <1>3, <1>4 DEF WebNext

LEMMA WindowInvStep ==
  ASSUME WebInv, [WebNext]_allVars
  PROVE  WindowInv'
<1> USE DEF WebInv, WindowInv
<1>u. Undisturbed' => Undisturbed
  BY DisturbedStays
<1>1. CASE LifecycleStep
  <2>1. UNCHANGED <<server, request, InFlight>>
    BY <1>1 DEF LifecycleStep, webVars, InFlight
  <2> QED
    BY <1>1, <1>u, <2>1, ServingKept DEF Undisturbed
<1>2. CASE ServerStep
  BY <1>2, <1>u, InFlightStep
  DEF ServerStep, ServerStarts, StartupFails, Terminate, Drained,
      WindowExpires, LifespanShutdown, ForceQuit, ServerExits, webVars, vars,
      ForcedExit, ShutdownRequested, Undisturbed
<1>3. ASSUME NEW r \in Requests, RequestStep(r) PROVE WindowInv'
  <2>1. UNCHANGED <<server, host>>
    BY <1>3
    DEF RequestStep, Accept, ResolveScoped, ResolveApp, HandlerEnds,
        Finalize, CancelHandler, CancelFinalizer, webVars, vars
  <2> QED
    BY <1>u, <2>1, InFlightStep
<1>4. CASE WebTerminated \/ UNCHANGED allVars
  <2>1. UNCHANGED <<server, host, request, InFlight>>
    BY <1>4 DEF WebTerminated, allVars, webVars, vars, InFlight
  <2> QED
    BY <1>u, <2>1
<1> QED
  BY <1>1, <1>2, <1>3, <1>4 DEF WebNext

LEMMA ServerTypeStep ==
  ASSUME WebInv, [WebNext]_allVars
  PROVE  ServerTypeOK'
<1>1. ServerTypeOK
  BY DEF WebInv, WebTypeOK, ServerTypeOK
<1> USE WebAssumption DEF ServerTypeOK
<1>2. CASE LifecycleStep \/ WebTerminated \/ UNCHANGED allVars
  BY <1>1, <1>2 DEF LifecycleStep, WebTerminated, allVars, webVars
<1>3. CASE ServerStep
  BY <1>1, <1>3
  DEF ServerStep, ServerStarts, StartupFails, Terminate, Drained,
      WindowExpires, LifespanShutdown, ForceQuit, ServerExits, webVars,
      InFlight
<1>4. ASSUME NEW r \in Requests, RequestStep(r) PROVE ServerTypeOK'
  <2>1. CASE Accept(r)
    BY <1>1, <2>1 DEF Accept
  <2>2. CASE ResolveScoped(r)
    BY <1>1, <2>2 DEF ResolveScoped
  <2>3. CASE ResolveApp(r)
    BY <1>1, <2>3 DEF ResolveApp, webVars
  <2>4. CASE HandlerEnds(r)
    BY <1>1, <2>4 DEF HandlerEnds
  <2>5. CASE Finalize(r) \/ CancelFinalizer(r)
    <3>1. scoped[r] > 0
      BY <2>5 DEF Finalize, CancelFinalizer, Unhindered, WebInv, ScopeInv
    <3> QED
      BY <1>1, <2>5, <3>1 DEF Finalize, CancelFinalizer
  <2>6. CASE CancelHandler(r)
    BY <1>1, <2>6 DEF CancelHandler
  <2> QED
    BY <1>4, <2>1, <2>2, <2>3, <2>4, <2>5, <2>6 DEF RequestStep
<1> QED
  BY <1>2, <1>3, <1>4 DEF WebNext

(* A scope is left with nothing owed, or cancelled in its exit: and only   *)
(* what disturbs the requests cancels one.                                 *)
LEMMA ScopeInvStep ==
  ASSUME WebInv, [WebNext]_allVars
  PROVE  ScopeInv'
<1>t. ServerTypeOK
  BY DEF WebInv, WebTypeOK, ServerTypeOK
<1>u. Undisturbed' => Undisturbed
  BY DisturbedStays
<1>s. ScopeInv
  BY DEF WebInv
<1>1. CASE UNCHANGED <<request, scoped, doomed>>
  BY <1>1, <1>s, <1>u DEF ScopeInv, ScopeFinalized, Undisturbed
<1>2. CASE LifecycleStep \/ WebTerminated \/ UNCHANGED allVars
  BY <1>1, <1>2 DEF LifecycleStep, WebTerminated, allVars, webVars
<1>3. CASE ServerStep
  <2>1. CASE \/ ServerStarts \/ StartupFails \/ Terminate \/ Drained
             \/ LifespanShutdown
    BY <1>1, <2>1
    DEF ServerStarts, StartupFails, Terminate, Drained, LifespanShutdown,
        webVars
  <2>2. CASE WindowExpires \/ ForceQuit
    <3>1. ~Undisturbed' /\ UNCHANGED <<request, scoped>>
      BY <2>2 DEF WindowExpires, ForceQuit, ForcedExit, Undisturbed
    <3> QED
      BY <3>1, <1>s DEF ScopeInv, ScopeFinalized, Undisturbed
  <2>3. CASE ServerExits
    <3>1. Undisturbed => InFlight = {}
      BY <2>3 DEF ServerExits, WebInv, WindowInv
    <3> QED
      BY <1>s, <1>u, <2>3, <3>1
      DEF ServerExits, ScopeInv, ScopeFinalized, Undisturbed
  <2> QED
    BY <1>3, <2>1, <2>2, <2>3 DEF ServerStep
<1>4. ASSUME NEW r \in Requests, RequestStep(r) PROVE ScopeInv'
  <2> USE <1>s, <1>t, <1>u
      DEF ServerTypeOK, ScopeInv, ScopeFinalized, Undisturbed
  <2>1. CASE Accept(r)
    BY <2>1 DEF Accept
  <2>2. CASE ResolveScoped(r)
    BY <2>2 DEF ResolveScoped, Unhindered
  <2>3. CASE ResolveApp(r)
    BY <1>1, <2>3 DEF ResolveApp, webVars
  <2>4. CASE HandlerEnds(r)
    BY <2>4 DEF HandlerEnds, Unhindered
  <2>5. CASE Finalize(r)
    BY <2>5 DEF Finalize, Unhindered
  <2>6. CASE CancelHandler(r)
    BY <2>6 DEF CancelHandler
  <2>7. CASE CancelFinalizer(r)
    BY <2>7 DEF CancelFinalizer
  <2> QED
    BY <1>4, <2>1, <2>2, <2>3, <2>4, <2>5, <2>6, <2>7 DEF RequestStep
<1> QED
  BY <1>2, <1>3, <1>4 DEF WebNext

LEMMA WebInvariance == WebSpec => []WebInv
<1>1. WebInv /\ [WebNext]_allVars => WebInv'
  <2> SUFFICES ASSUME WebInv, [WebNext]_allVars PROVE WebInv'
    OBVIOUS
  <2>1. Core' /\ WebTypeOK'
    BY CoreWebStep, ServerTypeStep DEF Core, ServerTypeOK, WebTypeOK
  <2>2. Undisturbed' => OwedInv'
    BY DisturbedStays, UndisturbedStep, OwedInvStep DEF WebInv, Inv
  <2> QED
    BY <2>1, <2>2, WindowInvStep, ScopeInvStep DEF WebInv
<1> QED
  BY WebInitInv, <1>1, PTL DEF WebSpec

----------------------------------------------------------------------------
(* Every variable of the server, the requests and the host keeps its type: *)
(* a scope never owes more than its resources, nor the container, whatever *)
(* requests build behind its close().                                      *)
THEOREM WebTyping == WebSpec => []WebTypeOK
<1>1. WebInv => WebTypeOK
  BY DEF WebInv
<1> QED
  BY WebInvariance, <1>1, PTL

(* A request lives inside the host's body until its scope has been left,   *)
(* unless the graceful window ended or the exit was forced                 *)
(* (web_host.py:42-44, web_host_builder.py:158-169).                       *)
THEOREM RequestsInWindow == WebSpec => []ServedInWindow
<1>1. WebInv => ServedInWindow
  <2> SUFFICES ASSUME WebInv, InFlight # {}, ~expired, forced = "no"
               PROVE  /\ host = "serving"
                      /\ \A i \in 1..registered : task[i] # "none"
                      /\ ~stopping /\ telemetry = "up"
    BY DEF ServedInWindow
  <2>1. host = "serving"
    BY DEF WebInv, WindowInv, WebTypeOK, Undisturbed
  <2> QED
    BY <2>1
    DEF WebInv, Core, TaskInv, StopInv, CloseInv, CallerInside
<1> QED
  BY WebInvariance, <1>1, PTL

(* Every finalizer of a request's scope has run when the request is over,  *)
(* cancelled in its handler or not, unless its exit was cut, which only    *)
(* the end of the window or a forced exit can do (http_di.py:45-47).       *)
THEOREM ScopesFinalized == WebSpec => []ScopeFinalized
<1>1. WebInv => ScopeFinalized
  BY DEF WebInv, ScopeInv
<1> QED
  BY WebInvariance, <1>1, PTL

(* No finalizer of the container is owed at the end, though requests build *)
(* in it until they end, unless the server has left some behind            *)
(* (host_lifecycle.py:36-40).                                              *)
THEOREM ContainerEmptied == WebSpec => []NothingLeaked
<1>1. WebInv => NothingLeaked
  BY DEF WebInv, OwedInv, DisposedUnlessCut, NothingLeaked, Undisturbed
<1> QED
  BY WebInvariance, <1>1, PTL

(* The promises of the lifecycle that do not speak of the container hold   *)
(* under a server in any case, requests left behind included: no service   *)
(* in use when the container closes, its grace period, the services'       *)
(* window around the body, telemetry down at the end unless it failed.     *)
THEOREM LifecycleUnderServer ==
  WebSpec => [](NoServiceAtClose /\ GracePeriod /\ BodyWindow
                  /\ FlushedUnlessFailed)
<1>1. WebInv => /\ NoServiceAtClose /\ GracePeriod /\ BodyWindow
                /\ FlushedUnlessFailed
  BY DEF WebInv, Core, TypeOK, TaskInv, StopInv, CloseInv, CallerInside,
         NoServiceAtClose, BodyWindow
<1> QED
  BY WebInvariance, <1>1, PTL

(* No finalizer of the container runs while a request is in its handler or *)
(* its scope's exit, as long as the window has not ended and no exit was   *)
(* forced: the reach of async_disposable.py:11-12.                         *)
ResourcesKept ==
  [][owed' < owed /\ Undisturbed => InFlight = {}]_allVars

THEOREM ResourcesOutliveUndisturbed == WebSpec => ResourcesKept
<1>1. ASSUME WebInv, [WebNext]_allVars, owed' < owed, Undisturbed
      PROVE  InFlight = {}
  <2>1. Inv /\ [Next]_vars
    BY <1>1, UndisturbedStep DEF WebInv, Inv
  <2>2. Inv'
    BY <2>1, CoreStep, OwedInvStep DEF Inv
  <2>3. ~CallerInside
    BY <1>1, <2>1, <2>2, OrderStep DEF OrderedStep
  <2> QED
    BY <1>1, <2>3 DEF WebInv, WindowInv, WebTypeOK, CallerInside
<1>2. WebInv /\ [WebNext]_allVars
        => [owed' < owed /\ Undisturbed => InFlight = {}]_allVars
  BY <1>1
<1> QED
  BY <1>2, WebInvariance, PTL DEF WebSpec, ResourcesKept

----------------------------------------------------------------------------
(* The refinement of HostTeardown, with the requests among the workers *)

LEMMA MoreWorkers ==
  ASSUME NEW A, NEW B, A \subseteq B, NEW R, NEW S, R \subseteq S
  PROVE  WebWorkers(A, R) \subseteq WebWorkers(B, S)
BY DEF WebWorkers

LEMMA WebRefineInit == WebInit => WT!Init
<1> SUFFICES ASSUME WebInit PROVE WT!Init
  OBVIOUS
<1>1. HT!Init
  BY RefineInit DEF WebInit
<1>2. InFlight \subseteq Requests /\ ActiveWorkers \subseteq 0..N
  BY <1>1 DEF InFlight, HT!Init
<1>3. WebWorkers(ActiveWorkers, InFlight) \subseteq WebWorkers(0..N, Requests)
  BY <1>2, MoreWorkers
<1> QED
  BY <1>1, <1>3 DEF HT!Init, WT!Init

(* A step of the host among requests that neither come nor go: it is the   *)
(* same step of HostTeardown, as none is there when the host winds up.     *)
LEMMA AmongRequests ==
  ASSUME WebInv, Undisturbed, [Next]_vars, UNCHANGED InFlight,
         InFlight = {} \/ Phase' = "up"
  PROVE  [WT!Next]_(WT!tvars)
<1> DEFINE old == WebWorkers(ActiveWorkers, InFlight)
           new == WebWorkers(ActiveWorkers, InFlight)'
<1>1. [HT!Next]_<<Phase, ActiveWorkers, owed, telemetry>>
  <2>1. Inv
    BY DEF WebInv, Inv
  <2>2. Inv'
    BY <2>1, CoreStep, OwedInvStep DEF Inv
  <2> QED
    BY <2>1, <2>2, RefineStep
<1>2. new = WebWorkers(ActiveWorkers', InFlight)
  OBVIOUS
<1>3. UNCHANGED ActiveWorkers => new = old
  BY <1>2
<1>4. ActiveWorkers' \subseteq ActiveWorkers => new \subseteq old
  BY <1>2, MoreWorkers
<1>5. ActiveWorkers \subseteq ActiveWorkers' => old \subseteq new
  BY <1>2, MoreWorkers
<1>6. ActiveWorkers' \subseteq 0..N => new \subseteq WebWorkers(0..N, Requests)
  BY <1>2, MoreWorkers DEF InFlight
<1>7. InFlight = {} =>
        /\ ActiveWorkers = {} => old = {}
        /\ ActiveWorkers' = {} => new = {}
  BY <1>2 DEF WebWorkers
<1> HIDE DEF old, new
<1>8. CASE UNCHANGED <<Phase, ActiveWorkers, owed, telemetry>>
  BY <1>3, <1>8 DEF WT!tvars, old, new
<1>9. CASE HT!Build
  BY <1>5, <1>6, <1>9 DEF HT!Build, WT!Build, WT!Next, old, new
<1>10. CASE HT!Depart
  BY <1>4, <1>10 DEF HT!Depart, WT!Depart, WT!Next, old, new
<1>11. CASE HT!TakeDown
  <2>1. InFlight = {}
    BY <1>11 DEF HT!TakeDown
  <2> QED
    BY <1>4, <1>7, <1>11, <2>1 DEF HT!TakeDown, WT!TakeDown, WT!Next, old, new
<1>12. CASE HT!FlushEnds
  BY <1>3, <1>12 DEF HT!FlushEnds, WT!FlushEnds, WT!Next, old, new
<1> QED
  BY <1>1, <1>8, <1>9, <1>10, <1>11, <1>12 DEF HT!Next

(* A request that comes while the host is up is a Build, one that goes is  *)
(* a Depart.                                                               *)
LEMMA WebRefineStep ==
  ASSUME WebInv, Undisturbed, [WebNext]_allVars
  PROVE  [WT!Next]_(WT!tvars)
<1>1. /\ InFlight # {} => host = "serving"
      /\ server = "serving" => host = "serving"
  BY DEF WebInv, WindowInv, WebTypeOK
<1>2. [Next]_vars
  BY UndisturbedStep
<1>3. host' = "serving" => Phase' = "up"
  BY DEF Phase
<1>4. CASE LifecycleStep
  <2>1. UNCHANGED InFlight
    BY <1>4 DEF LifecycleStep, webVars, InFlight
  <2>2. InFlight # {} => host' = "serving"
    BY <1>1, <1>4, ServingKept DEF Undisturbed
  <2> QED
    BY <1>2, <1>3, <2>1, <2>2, AmongRequests
<1>5. CASE ServerStep
  <2>1. UNCHANGED InFlight
    BY <1>5
    DEF ServerStep, ServerStarts, StartupFails, Terminate, Drained,
        WindowExpires, LifespanShutdown, ForceQuit, ServerExits, webVars,
        InFlight
  <2>2. InFlight # {} => host' = host
    BY <1>5
    DEF ServerStep, ServerStarts, StartupFails, Terminate, Drained,
        WindowExpires, LifespanShutdown, ForceQuit, ForcedExit, ServerExits,
        vars, WebInv, WindowInv
  <2> QED
    BY <1>1, <1>2, <1>3, <2>1, <2>2, AmongRequests
<1>6. CASE WebTerminated \/ UNCHANGED allVars
  <2>1. UNCHANGED <<InFlight, host>>
    BY <1>6 DEF WebTerminated, allVars, webVars, vars, InFlight
  <2> QED
    BY <1>1, <1>2, <1>3, <2>1, AmongRequests
<1>7. ASSUME NEW r \in Requests, RequestStep(r)
      PROVE  [WT!Next]_(WT!tvars)
  <2>1. CASE ResolveScoped(r) \/ ResolveApp(r) \/ CancelHandler(r)
    <3>1. UNCHANGED <<InFlight, host>>
      BY <2>1 DEF ResolveScoped, ResolveApp, CancelHandler, webVars, vars,
                  InFlight
    <3> QED
      BY <1>1, <1>2, <1>3, <3>1, AmongRequests
  <2> DEFINE old == WebWorkers(ActiveWorkers, InFlight)
             new == WebWorkers(ActiveWorkers, InFlight)'
  <2>2. UNCHANGED vars => UNCHANGED <<Phase, ActiveWorkers, owed, telemetry>>
    BY DEF vars, Phase, ActiveWorkers, Alive, CallerInside
  <2>3. UNCHANGED vars => new = WebWorkers(ActiveWorkers, InFlight')
    BY <2>2
  <2>4. CASE Accept(r)
    <3>1. UNCHANGED vars /\ Phase = "up"
      BY <1>1, <2>4 DEF Accept, Phase
    <3>2. InFlight \subseteq InFlight'
      BY <2>4 DEF Accept, InFlight, WebInv, WebTypeOK
    <3>3. ActiveWorkers \subseteq 0..N
      BY ConstantsAssumption DEF ActiveWorkers, Alive, Services
    <3>4. old \subseteq new /\ new \subseteq WebWorkers(0..N, Requests)
      BY <2>3, <3>1, <3>2, <3>3, MoreWorkers DEF InFlight
    <3>5. owed \in owed..AppResources
      BY ConstantsAssumption DEF WebInv, WebTypeOK, TypeOK
    <3> HIDE DEF old, new
    <3> QED
      BY <2>2, <3>1, <3>4, <3>5 DEF WT!Build, WT!Next, old, new
  <2>5. CASE HandlerEnds(r) \/ Finalize(r) \/ CancelFinalizer(r)
    <3>1. UNCHANGED vars
      BY <2>5 DEF HandlerEnds, Finalize, CancelFinalizer
    <3>2. InFlight' \subseteq InFlight
      <4>1. r \in InFlight
        BY <2>5
        DEF HandlerEnds, Finalize, CancelFinalizer, Unhindered, InFlight
      <4>2. \A q \in Requests \ {r} : request'[q] = request[q]
        BY <2>5
        DEF HandlerEnds, Finalize, CancelFinalizer, WebInv, WebTypeOK
      <4> QED
        BY <4>1, <4>2 DEF InFlight
    <3>3. new \subseteq old
      BY <2>3, <3>1, <3>2, MoreWorkers
    <3> HIDE DEF old, new
    <3> QED
      BY <2>2, <3>1, <3>3 DEF WT!Depart, WT!Next, old, new
  <2> QED
    BY <1>7, <2>1, <2>4, <2>5 DEF RequestStep
<1> QED
  BY <1>4, <1>5, <1>6, <1>7 DEF WebNext

(* Under a server the host keeps the promise of HostTeardown with its      *)
(* requests among the workers, up to the step that leaves requests behind: *)
(* accepted only while it is up, and out of their scopes before the first  *)
(* finalizer runs (http_di.py:45-47, host_lifecycle.py:36-40).             *)
THEOREM RefinementUnderServer == WebSpec => TeardownUnderServer
<1>1. WebInv /\ [WebNext]_allVars
        => [Undisturbed => [WT!Next]_(WT!tvars)]_allVars
  BY WebRefineStep
<1> QED
  BY <1>1, WebRefineInit, WebInvariance, PTL DEF WebSpec, TeardownUnderServer
=============================================================================
