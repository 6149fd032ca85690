--------------------------- MODULE HostLifecycle ---------------------------
(***************************************************************************)
(* run_host_lifecycle (pepelats/hosting/host_lifecycle.py): the host task  *)
(* resolves the background services, runs one asyncio task per service     *)
(* around the caller's body, and on the way out stops the services, closes *)
(* the container and flushes observability.                                *)
(*                                                                         *)
(* A value of `host` names the await at which the host task is suspended,  *)
(* so one action is what the task does between two awaits:                 *)
(*                                                                         *)
(*   resolving  container.get of the next hosted service                   *)
(*   entering   the application lifespan's startup                         *)
(*   serving    the yield: requests are served                             *)
(*   leaving    the application lifespan's shutdown                        *)
(*   stopping   wait_for of the gather of the services' tasks              *)
(*   closing    the dispose() of one APP-scoped resource                   *)
(*   flushing   to_thread(shutdown_observability)                          *)
(*   done       the lifecycle has returned or raised                       *)
(*                                                                         *)
(* asyncio's rules for cancellation (Python 3.13) are part of the model: a *)
(* cancelled task receives CancelledError at its await, wait_for cancels   *)
(* the gather and with it every task when the timeout expires, and raises  *)
(* TimeoutError only when all of them have ended.                          *)
(***************************************************************************)
EXTENDS Naturals

CONSTANTS N,              \* most hosted service types an application registers
          Names,          \* values of BackgroundService.name
          AppResources,   \* APP-scoped registrations that have a finalizer
          Faults          \* which of the faults below may happen

(* "resolve"  container.get raises            "app"      the body raises
   "crash"    execute_async raises            "stubborn" a service goes on
   "dispose"  a dispose() raises                         after CancelledError
   "flush"    a provider's shutdown raises    "force"    the host task is
                                                         cancelled         *)
FaultKinds ==
  {"resolve", "app", "crash", "stubborn", "dispose", "flush", "force"}

ASSUME ConstantsAssumption ==
  /\ N \in Nat
  /\ AppResources \in Nat
  /\ Faults \subseteq FaultKinds

Services == 1..N

VARIABLES
  host,        \* where the host task is suspended
  registered,  \* how many types the application registered, and
  nameOf,      \* ... the names of their instances: neither ever changes
  resolved,    \* how many services HostedServices holds
  task,        \* state of each service's task
  cancel,      \* services whose task has a CancelledError on its way
  stopping,    \* the event shared by the services
  owed,        \* finalizers of APP-scoped resources the container holds
  telemetry,   \* "up", "flushing" (the thread runs) or "down"
  timedOut,    \* the shutdown timeout has expired
  forced,      \* cancellation of the host task itself
  raised       \* what the host task has raised or swallowed up to now

application == <<registered, nameOf>>

vars == <<host, application, resolved, task, cancel, stopping, owed, telemetry,
          timedOut, forced, raised>>

Running == {"created", "running", "unwinding"}
Ended   == {"returned", "crashed", "cancelled"}

Alive == {i \in Services : task[i] \in Running}

CallerInside == host \in {"entering", "serving", "leaving"}

Init ==
  /\ registered \in 0..N
  /\ host = IF registered = 0 THEN "entering" ELSE "resolving"
  /\ nameOf \in [Services -> Names]
  /\ resolved = 0
  /\ task = [i \in Services |-> "none"]
  /\ cancel = {}
  /\ stopping = FALSE
  /\ owed = 0
  /\ telemetry = "up"
  /\ timedOut = FALSE
  /\ forced = "no"
  /\ raised = {}

----------------------------------------------------------------------------
(* The host task *)

(* The host task runs on: it stands at this await with no cancellation due. *)
HostAt(await) == host = await /\ forced # "pending"

(* A fault may or may not strike; raised records that it did. *)
May(fault) ==
  raised' \in {raised} \cup {raised \cup {f} : f \in Faults \cap {fault}}

(* The outer finally, entered with n finalizers: close() of a container    *)
(* that holds none does not suspend, and the flush starts at once.         *)
CloseContainer(n) ==
  /\ owed' = n
  /\ host' = IF n = 0 THEN "flushing" ELSE "closing"
  /\ telemetry' = IF n = 0 THEN "flushing" ELSE telemetry

(* Mutant: the container is closed with the services' tasks still running. *)
LeaveBodyContainerFirst == CloseContainer(owed) /\ UNCHANGED stopping

(* The caller's body is left, by return or by an exception: the services'  *)
(* scope sets the event and waits, and without services there is no scope. *)
LeaveBody ==
  IF registered = 0
  THEN CloseContainer(owed) /\ UNCHANGED stopping
  ELSE /\ host' = "stopping"
       /\ stopping' = TRUE
       /\ UNCHANGED <<owed, telemetry>>

NameTaken(i) == \E j \in 1..resolved : nameOf[j] = nameOf[i]

(* Mutant: the last service gets no task. *)
ResolveSkipsLast ==
  /\ HostAt("resolving")
  /\ ~NameTaken(resolved + 1)
  /\ resolved' = resolved + 1
  /\ owed' \in owed..AppResources
  /\ IF resolved' = registered
     THEN host' = "entering"
          /\ task' = [i \in Services |->
                        IF i < registered THEN "created" ELSE "none"]
     ELSE UNCHANGED <<host, task>>
  /\ UNCHANGED <<application, cancel, stopping, telemetry, timedOut, forced,
                 raised>>

(* container.get has built the next service and what it depends on, and    *)
(* HostedServices.add accepts it.  After the last one the tasks are        *)
(* created, none of which has run when the caller's body begins.           *)
Resolve ==
  /\ HostAt("resolving")
  /\ ~NameTaken(resolved + 1)
  /\ resolved' = resolved + 1
  /\ owed' \in owed..AppResources
  /\ IF resolved' = registered
     THEN host' = "entering"
          /\ task' = [i \in Services |->
                        IF i <= registered THEN "created" ELSE "none"]
     ELSE UNCHANGED <<host, task>>
  /\ UNCHANGED <<application, cancel, stopping, telemetry, timedOut, forced,
                 raised>>

(* Mutant: the services are resolved before the try. *)
ResolveRaisesOutsideTry ==
  /\ HostAt("resolving")
  /\ "resolve" \in Faults \/ NameTaken(resolved + 1)
  /\ raised' = raised \cup {"resolve"}
  /\ owed' \in owed..AppResources
  /\ host' = "done"
  /\ UNCHANGED <<application, resolved, task, cancel, stopping, telemetry,
                 timedOut, forced>>

(* container.get raises, perhaps with dependencies already built, or add   *)
(* rejects the name: straight to the outer finally, no task was created.   *)
ResolveRaises ==
  /\ HostAt("resolving")
  /\ "resolve" \in Faults \/ NameTaken(resolved + 1)
  /\ raised' = raised \cup {"resolve"}
  /\ \E n \in owed..AppResources : CloseContainer(n)
  /\ UNCHANGED <<application, resolved, task, cancel, stopping, timedOut,
                 forced>>

(* Mutant: a singleton is built, and owed a disposal, once more. *)
CallerResolvesAgain ==
  /\ CallerInside
  /\ owed <= AppResources
  /\ owed' = owed + 1
  /\ UNCHANGED <<host, application, resolved, task, cancel, stopping,
                 telemetry, timedOut, forced, raised>>

(* The application lifespan and the requests resolve from the container:   *)
(* an APP-scoped resource is built on first use.                           *)
CallerResolves ==
  /\ CallerInside
  /\ owed < AppResources
  /\ owed' = owed + 1
  /\ UNCHANGED <<host, application, resolved, task, cancel, stopping,
                 telemetry, timedOut, forced, raised>>

(* The application lifespan's startup is over: the host is serving. *)
Serve ==
  /\ HostAt("entering")
  /\ host' = "serving"
  /\ UNCHANGED <<application, resolved, task, cancel, stopping, owed,
                 telemetry, timedOut, forced, raised>>

(* The server sends lifespan.shutdown. *)
ShutdownRequested ==
  /\ HostAt("serving")
  /\ host' = "leaving"
  /\ UNCHANGED <<application, resolved, task, cancel, stopping, owed,
                 telemetry, timedOut, forced, raised>>

(* The application lifespan has run its shutdown, or raises in it. *)
AppLeaves ==
  /\ HostAt("leaving")
  /\ May("app")
  /\ LeaveBody
  /\ UNCHANGED <<application, resolved, task, cancel, timedOut, forced>>

(* Mutant: the yield is outside the try, so its exception skips the finally. *)
AppStartupSkipsFinally ==
  /\ HostAt("entering")
  /\ "app" \in Faults
  /\ raised' = raised \cup {"app"}
  /\ host' = "done"
  /\ UNCHANGED <<application, resolved, task, cancel, stopping, owed,
                 telemetry, timedOut, forced>>

(* The application lifespan's startup raises. *)
AppStartupRaises ==
  /\ HostAt("entering")
  /\ "app" \in Faults
  /\ raised' = raised \cup {"app"}
  /\ LeaveBody
  /\ UNCHANGED <<application, resolved, task, cancel, timedOut, forced>>

(* Mutant: asyncio.wait in place of wait_for, which leaves the tasks alone. *)
ShutdownTimeoutNoCancel ==
  /\ HostAt("stopping")
  /\ ~timedOut
  /\ Alive # {}
  /\ timedOut' = TRUE
  /\ UNCHANGED <<host, application, resolved, task, cancel, stopping, owed,
                 telemetry, forced, raised>>

(* wait_for's timeout expires: the gather is cancelled, and with it every  *)
(* task that has not ended.  The host goes on waiting for them, so that    *)
(* the task.cancel() and the second gather that follow find none running.  *)
ShutdownTimeout ==
  /\ HostAt("stopping")
  /\ ~timedOut
  /\ Alive # {}
  /\ timedOut' = TRUE
  /\ cancel' = cancel \cup Alive
  /\ UNCHANGED <<host, application, resolved, task, stopping, owed,
                 telemetry, forced, raised>>

(* Mutant: the cancelled tasks are not awaited. *)
ServicesStoppedNoWait ==
  /\ HostAt("stopping")
  /\ Alive = {} \/ timedOut
  /\ CloseContainer(owed)
  /\ UNCHANGED <<application, resolved, task, cancel, stopping, timedOut,
                 forced, raised>>

(* Every service has ended, by itself or cancelled. *)
ServicesStopped ==
  /\ HostAt("stopping")
  /\ Alive = {}
  /\ CloseContainer(owed)
  /\ UNCHANGED <<application, resolved, task, cancel, stopping, timedOut,
                 forced, raised>>

(* One finalizer has run; close() collects what it raises and goes on. *)
Dispose ==
  /\ HostAt("closing")
  /\ owed > 1
  /\ owed' = owed - 1
  /\ May("dispose")
  /\ UNCHANGED <<host, application, resolved, task, cancel, stopping,
                 telemetry, timedOut, forced>>

(* The last finalizer has run.  If none of them failed, close() returns    *)
(* and the flush starts on its thread.  Otherwise close() raises, and the  *)
(* exception leaves the finally before the flush.                          *)
CloseReturns ==
  /\ HostAt("closing")
  /\ owed = 1
  /\ May("dispose")
  /\ IF "dispose" \in raised'
     THEN host' = "done" /\ owed' = 0 /\ UNCHANGED telemetry
     ELSE CloseContainer(0)
  /\ UNCHANGED <<application, resolved, task, cancel, stopping, timedOut,
                 forced>>

(* The flush thread ends: every provider is down, or one of them raised.   *)
FlushThread ==
  /\ telemetry = "flushing"
  /\ telemetry' \in {"down"} \cup {"up" : f \in Faults \cap {"flush"}}
  /\ UNCHANGED <<host, application, resolved, task, cancel, stopping, owed,
                 timedOut, forced, raised>>

(* The host task resumes after the flush. *)
Finish ==
  /\ HostAt("flushing")
  /\ telemetry # "flushing"
  /\ host' = "done"
  /\ raised' = IF telemetry = "up" THEN raised \cup {"flush"} ELSE raised
  /\ UNCHANGED <<application, resolved, task, cancel, stopping, owed,
                 telemetry, timedOut, forced>>

(***************************************************************************)
(* Forced exit: the host task is cancelled, alone or, when asyncio.run is  *)
(* being left, together with every other task, the services' included.     *)
(* Its CancelledError arrives at the await where the task stands.          *)
(***************************************************************************)
ForcedExit ==
  /\ "force" \in Faults
  /\ host # "done"
  /\ forced = "no"
  /\ forced' = "pending"
  /\ cancel' \in {cancel, cancel \cup Alive}
  /\ UNCHANGED <<host, application, resolved, task, stopping, owed,
                 telemetry, timedOut, raised>>

Cancelled(await) ==
  /\ forced = "pending"
  /\ host = await
  /\ raised' = raised \cup {"cancel"}

(* In container.get: as any other failure of the startup. *)
CancelResolving ==
  /\ Cancelled("resolving")
  /\ \E n \in owed..AppResources : CloseContainer(n)
  /\ forced' = "taken"
  /\ UNCHANGED <<application, resolved, task, cancel, stopping, timedOut>>

(* At the yield: thrown into the application lifespan, which shuts down. *)
CancelServing ==
  /\ Cancelled("serving")
  /\ host' = "leaving"
  /\ forced' = "taken"
  /\ UNCHANGED <<application, resolved, task, cancel, stopping, owed,
                 telemetry, timedOut>>

(* In the application lifespan's own startup or shutdown. *)
CancelBody ==
  /\ Cancelled("entering") \/ Cancelled("leaving")
  /\ LeaveBody
  /\ forced' = "taken"
  /\ UNCHANGED <<application, resolved, task, cancel, timedOut>>

(* In wait_for: hands the cancellation on to the gather, whose tasks are   *)
(* awaited all the same before the CancelledError goes on to the finally.  *)
CancelStopping ==
  /\ Cancelled("stopping")
  /\ cancel' = cancel \cup Alive
  /\ forced' = "taken"
  /\ UNCHANGED <<host, application, resolved, task, stopping, owed,
                 telemetry, timedOut>>

(* Mutant: the flush runs although close() left finalizers behind. *)
CancelClosingFlushes ==
  /\ Cancelled("closing")
  /\ host' = "flushing" /\ telemetry' = "flushing"
  /\ owed' = owed - 1
  /\ forced' = "taken"
  /\ UNCHANGED <<application, resolved, task, cancel, stopping, timedOut>>

(* In a dispose(): close() stops there, the finalizers below it do not run *)
(* and the finally is left before the flush.                               *)
CancelClosing ==
  /\ Cancelled("closing")
  /\ host' = "done"
  /\ owed' = owed - 1
  /\ forced' = "cut"
  /\ UNCHANGED <<application, resolved, task, cancel, stopping, telemetry,
                 timedOut>>

(* In to_thread: the host task ends, the thread goes on flushing. *)
CancelFlushing ==
  /\ Cancelled("flushing")
  /\ host' = "done"
  /\ forced' = "cut"
  /\ UNCHANGED <<application, resolved, task, cancel, stopping, owed,
                 telemetry, timedOut>>

CancelHost ==
  \/ CancelResolving \/ CancelServing \/ CancelBody
  \/ CancelStopping \/ CancelClosing \/ CancelFlushing

----------------------------------------------------------------------------
(* The services' tasks: BackgroundService.start around execute_async *)

Becomes(i, state) ==
  /\ task' = [task EXCEPT ![i] = state]
  /\ UNCHANGED <<host, application, resolved, stopping, owed, telemetry,
                 timedOut, forced, raised>>

(* The task's first step. *)
Start(i) ==
  /\ task[i] = "created" /\ i \notin cancel
  /\ Becomes(i, "running")
  /\ UNCHANGED cancel

(* A task cancelled before its first step never enters start(). *)
CancelUnstarted(i) ==
  /\ task[i] = "created" /\ i \in cancel
  /\ Becomes(i, "cancelled")
  /\ cancel' = cancel \ {i}

(* CancelledError reaches execute_async, whose cleanup may await. *)
DeliverCancel(i) ==
  /\ task[i] \in {"running", "unwinding"} /\ i \in cancel
  /\ Becomes(i, "unwinding")
  /\ cancel' = cancel \ {i}

(* execute_async returns: it saw the event, had nothing left to do, or     *)
(* swallowed the CancelledError on its way out.                            *)
Return(i) ==
  /\ task[i] \in {"running", "unwinding"} /\ i \notin cancel
  /\ Becomes(i, "returned")
  /\ UNCHANGED cancel

(* Mutant: tasks of a TaskGroup, where a crash cancels the siblings. *)
CrashCancelsSiblings(i) ==
  /\ "crash" \in Faults
  /\ task[i] \in {"running", "unwinding"} /\ i \notin cancel
  /\ Becomes(i, "crashed")
  /\ cancel' = cancel \cup (Alive \ {i})

(* execute_async raises an Exception: start() logs it and returns. *)
Crash(i) ==
  /\ "crash" \in Faults
  /\ task[i] \in {"running", "unwinding"} /\ i \notin cancel
  /\ Becomes(i, "crashed")
  /\ UNCHANGED cancel

(* The cleanup is over and start() re-raises the CancelledError. *)
Reraise(i) ==
  /\ task[i] = "unwinding" /\ i \notin cancel
  /\ Becomes(i, "cancelled")
  /\ UNCHANGED cancel

(* A service that swallows the CancelledError and works on. *)
Persist(i) ==
  /\ "stubborn" \in Faults
  /\ task[i] = "unwinding" /\ i \notin cancel
  /\ Becomes(i, "running")
  /\ UNCHANGED cancel

----------------------------------------------------------------------------
HostStep ==
  \/ Resolve \/ ResolveRaises \/ Serve \/ ShutdownRequested
  \/ AppLeaves \/ AppStartupRaises
  \/ ShutdownTimeout \/ ServicesStopped
  \/ Dispose \/ CloseReturns \/ Finish

ServiceStep(i) ==
  \/ Start(i) \/ CancelUnstarted(i) \/ DeliverCancel(i)
  \/ Return(i) \/ Crash(i) \/ Reraise(i) \/ Persist(i)

(* The lifecycle is over, and the flush thread with it. *)
Terminated ==
  /\ host = "done" /\ telemetry # "flushing"
  /\ UNCHANGED vars

Next ==
  \/ HostStep \/ CallerResolves \/ FlushThread \/ ForcedExit \/ CancelHost
  \/ \E i \in Services : ServiceStep(i)
  \/ Terminated

Spec == Init /\ [][Next]_vars

(***************************************************************************)
(* Fairness: the event loop runs what is ready, the shutdown timer fires,  *)
(* the application lifespan's shutdown, a dispose() and a flush come to an *)
(* end.  A running service is not assumed to return, even after stopping   *)
(* is set; a service whose execute_async has received CancelledError is    *)
(* assumed to end (so LiveSpec is for Faults without "stubborn").          *)
(***************************************************************************)
Unwind(i) == task[i] = "unwinding" /\ (Return(i) \/ Crash(i) \/ Reraise(i))

Fairness ==
  /\ WF_vars(Resolve \/ ResolveRaises)
  /\ WF_vars(AppLeaves)
  /\ WF_vars(ShutdownTimeout)
  /\ WF_vars(ServicesStopped)
  /\ WF_vars(Dispose \/ CloseReturns)
  /\ WF_vars(FlushThread)
  /\ WF_vars(Finish)
  /\ WF_vars(CancelHost)
  /\ \A i \in Services :
       /\ WF_vars(Start(i))
       /\ WF_vars(CancelUnstarted(i) \/ DeliverCancel(i))
       /\ WF_vars(Unwind(i))

LiveSpec == Spec /\ Fairness

----------------------------------------------------------------------------
TypeOK ==
  /\ host \in {"resolving", "entering", "serving", "leaving", "stopping",
               "closing", "flushing", "done"}
  /\ registered \in 0..N
  /\ nameOf \in [Services -> Names]
  /\ resolved \in 0..registered
  /\ task \in [Services -> {"none"} \cup Running \cup Ended]
  /\ cancel \subseteq Services
  /\ stopping \in BOOLEAN
  /\ owed \in 0..AppResources
  /\ telemetry \in {"up", "flushing", "down"}
  /\ timedOut \in BOOLEAN
  /\ forced \in {"no", "pending", "taken", "cut"}
  /\ raised \subseteq FaultKinds \cup {"cancel"}

(* Nothing is torn down while still in use (host_lifecycle.py:36-40): from *)
(* the moment the container starts to close no service's task is running,  *)
(* waiting for its first step or unwinding, and none has a cancellation on *)
(* its way, whatever mix of timeout, crash and forced exit led there.      *)
NoServiceAtClose ==
  host \in {"closing", "flushing", "done"} => Alive = {} /\ cancel = {}

(* A service is cancelled only after it had its grace period, or because   *)
(* the whole process is being left: never because a sibling crashed or the *)
(* body raised (background_service.py:33, host_lifecycle.py:89 and 96).    *)
GracePeriod ==
  \A i \in Services :
    i \in cancel \/ task[i] \in {"unwinding", "cancelled"} =>
      (timedOut /\ stopping) \/ forced # "no"

(* The caller's body runs inside the services' window: every service has   *)
(* its task, none was told to stop, and nothing below is touched           *)
(* (test_web_host_builder.py:53-58, host_lifecycle.py:32-34).              *)
BodyWindow ==
  CallerInside =>
    /\ \A i \in 1..registered : task[i] # "none"
    /\ ~stopping /\ ~timedOut
    /\ telemetry = "up"

(* However the lifecycle ends -- a failed startup, a failing dispose, a    *)
(* timeout, a forced exit before the container closes -- every finalizer   *)
(* that was entered has run (host_lifecycle.py:43-45).  Only a second      *)
(* cancellation inside close() itself can leave some behind.               *)
DisposedUnlessCut == host = "done" /\ forced # "cut" => owed = 0

(* ... and unless close() or the flush itself raised, telemetry is down    *)
(* when the lifecycle is over (host_lifecycle.py:54-59).                   *)
FlushedUnlessFailed ==
  host = "done" /\ forced # "cut" /\ raised \cap {"dispose", "flush"} = {}
    => telemetry = "down"

(* Teardown order (host_lifecycle.py:7-8): a finalizer runs only when no   *)
(* service is alive and the caller's body is left; the flush starts only   *)
(* when, besides, no finalizer is owed.                                    *)
TeardownOrder ==
  [][ /\ owed' < owed => Alive = {} /\ ~CallerInside
      /\ telemetry = "up" /\ telemetry' = "flushing" =>
           Alive' = {} /\ ~CallerInside' /\ owed' = 0 ]_vars

(* The code implements the promise of HostTeardown.  Worker 0 is the       *)
(* caller's body.                                                          *)
Phase ==
  CASE host \in {"resolving", "entering", "serving", "leaving"} -> "up"
    [] host \in {"stopping", "closing", "flushing"} -> "draining"
    [] host = "done" -> "down"

ActiveWorkers == Alive \cup {w \in {0} : CallerInside}

HT == INSTANCE HostTeardown WITH Workers <- 0..N, MaxOwed <- AppResources,
        phase <- Phase, workers <- ActiveWorkers
ImplementsTeardown == HT!Spec

(* Once the body is being left, or the process is being left, the          *)
(* lifecycle comes to its end, even with services that ignore stopping:    *)
(* the timeout and the cancellation see to it (host_lifecycle.py:95-103).  *)
TeardownEnds ==
  (host \in {"leaving", "stopping", "closing", "flushing"} \/ forced = "pending")
    ~> host = "done"

(* What the docstring (host_lifecycle.py:7-8) and the comments at 43-45    *)
(* and 54-59 say without exception: every way out of the lifecycle ends    *)
(* with the flush.  Does not hold when a dispose() raises.                 *)
FlushAlways == host = "done" => telemetry = "down"
=============================================================================
