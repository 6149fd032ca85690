----------------------- MODULE HostLifecycle_proofs -----------------------
(***************************************************************************)
(* Proofs about HostLifecycle, for any number of services, any names, any  *)
(* number of APP-scoped resources and any set of faults.                   *)
(*                                                                         *)
(* None of the safety properties is inductive by itself: that no service   *)
(* is alive when the container closes rests on which tasks exist at each   *)
(* await of the host, that telemetry is down at the end on where the host  *)
(* can be when an exception skips the flush.  Inv collects these facts.    *)
(***************************************************************************)
EXTENDS HostLifecycle, TLAPS

(* The tasks that exist at each await, and that cancellations are only on  *)
(* their way to tasks that have not ended.                                 *)
TaskInv ==
  /\ host = "resolving" => resolved < registered
  /\ host = "resolving" => \A i \in Services : task[i] = "none"
  /\ CallerInside => \A i \in 1..registered : task[i] # "none"
  /\ \A i \in Services : i > registered => task[i] = "none"
  /\ cancel \subseteq Alive
  /\ host \in {"closing", "flushing", "done"} => Alive = {}

(* When stopping is set and when the timeout can have expired. *)
StopInv ==
  /\ timedOut => stopping
  /\ stopping => host \in {"stopping", "closing", "flushing", "done"}
  /\ host = "stopping" => stopping
  /\ GracePeriod

(* When the container closes, and what becomes of telemetry. *)
CloseInv ==
  /\ host = "closing" => owed > 0
  /\ host \notin {"flushing", "done"} => telemetry = "up"
  /\ forced = "cut" => host = "done"
  /\ FlushedUnlessFailed

(* What holds whoever else uses the container ... *)
Core == TypeOK /\ TaskInv /\ StopInv /\ CloseInv

(* ... and, as long as nobody does, what is left of it behind close(). *)
OwedInv ==
  /\ host = "flushing" => owed = 0
  /\ DisposedUnlessCut

Inv == Core /\ OwedInv

USE DEF Services, Running, Ended, FaultKinds

----------------------------------------------------------------------------
(* The initial states satisfy the invariant. *)
LEMMA InitInv == Init => Inv
<1> SUFFICES ASSUME Init PROVE Inv
  OBVIOUS
<1> USE ConstantsAssumption
<1>1. TypeOK
  <2>1. host \in {"resolving", "entering"} /\ registered \in 0..N
    BY DEF Init
  <2>2. task \in [Services -> {"none"} \cup Running \cup Ended]
    BY DEF Init
  <2>3. 0 \in 0..registered /\ 0 \in 0..AppResources
    BY <2>1
  <2> QED
    BY <2>1, <2>2, <2>3 DEF Init, TypeOK
<1>2. Alive = {}
  BY DEF Init, Alive
<1>3. TaskInv
  BY <1>2 DEF Init, TaskInv, CallerInside
<1>4. StopInv
  BY DEF Init, StopInv, GracePeriod
<1>5. CloseInv /\ OwedInv
  BY DEF Init, CloseInv, OwedInv, DisposedUnlessCut, FlushedUnlessFailed
<1> QED
  BY <1>1, <1>3, <1>4, <1>5 DEF Inv, Core

(* A service changes its own task and cancellation, nothing else. *)
LEMMA ServiceFrame ==
  ASSUME NEW i \in Services, ServiceStep(i)
  PROVE  UNCHANGED <<host, application, resolved, stopping, owed, telemetry,
                     timedOut, forced, raised>>
  BY DEF ServiceStep, Start, CancelUnstarted, DeliverCancel, Return, Crash,
         Reraise, Persist, Becomes

(* Every action keeps the variables in their types; owed needs CloseInv, since
   a finalizer is only taken off when one is owed. *)
LEMMA TypeOKStep == Core /\ [Next]_vars => TypeOK'
<1> SUFFICES ASSUME Core, [Next]_vars PROVE TypeOK'
  OBVIOUS
<1> USE ConstantsAssumption DEF Core, application
<1>1. CASE Resolve
  BY <1>1 DEF Resolve, HostAt, TypeOK, TaskInv
<1>2. CASE ResolveRaises
  BY <1>2 DEF ResolveRaises, CloseContainer, TypeOK
<1>3. CASE Serve
  BY <1>3 DEF Serve, TypeOK
<1>4. CASE ShutdownRequested
  BY <1>4 DEF ShutdownRequested, TypeOK
<1>5. CASE AppLeaves
  BY <1>5 DEF AppLeaves, May, LeaveBody, CloseContainer, TypeOK
<1>6. CASE AppStartupRaises
  BY <1>6 DEF AppStartupRaises, LeaveBody, CloseContainer, TypeOK
<1>7. CASE ShutdownTimeout
  BY <1>7 DEF ShutdownTimeout, TypeOK, Alive
<1>8. CASE ServicesStopped
  BY <1>8 DEF ServicesStopped, CloseContainer, TypeOK
<1>9. CASE Dispose
  BY <1>9 DEF Dispose, May, TypeOK
<1>10. CASE CloseReturns
  BY <1>10 DEF CloseReturns, May, CloseContainer, TypeOK
<1>11. CASE Finish
  BY <1>11 DEF Finish, TypeOK
<1>12. CASE CallerResolves
  BY <1>12 DEF CallerResolves, TypeOK
<1>13. CASE FlushThread
  BY <1>13 DEF FlushThread, TypeOK
<1>14. CASE ForcedExit
  BY <1>14 DEF ForcedExit, TypeOK, Alive
<1>15. CASE CancelResolving
  BY <1>15 DEF CancelResolving, Cancelled, CloseContainer, TypeOK
<1>16. CASE CancelServing
  BY <1>16 DEF CancelServing, Cancelled, TypeOK
<1>17. CASE CancelBody
  BY <1>17 DEF CancelBody, Cancelled, LeaveBody, CloseContainer, TypeOK
<1>18. CASE CancelStopping
  BY <1>18 DEF CancelStopping, Cancelled, TypeOK, Alive
<1>19. CASE CancelClosing
  BY <1>19 DEF CancelClosing, Cancelled, TypeOK, CloseInv
<1>20. CASE CancelFlushing
  BY <1>20 DEF CancelFlushing, Cancelled, TypeOK
<1>21. ASSUME NEW i \in Services, ServiceStep(i) PROVE TypeOK'
  <2>1. CASE Start(i)
    BY <2>1 DEF Start, Becomes, TypeOK
  <2>2. CASE CancelUnstarted(i)
    BY <2>2 DEF CancelUnstarted, Becomes, TypeOK
  <2>3. CASE DeliverCancel(i)
    BY <2>3 DEF DeliverCancel, Becomes, TypeOK
  <2>4. CASE Return(i)
    BY <2>4 DEF Return, Becomes, TypeOK
  <2>5. CASE Crash(i)
    BY <2>5 DEF Crash, Becomes, TypeOK
  <2>6. CASE Reraise(i)
    BY <2>6 DEF Reraise, Becomes, TypeOK
  <2>7. CASE Persist(i)
    BY <2>7 DEF Persist, Becomes, TypeOK
  <2> QED
    BY <1>21, <2>1, <2>2, <2>3, <2>4, <2>5, <2>6, <2>7 DEF ServiceStep
<1>22. CASE Terminated \/ UNCHANGED vars
  BY <1>22 DEF vars, Terminated, TypeOK
<1> QED
  BY <1>1, <1>2, <1>3, <1>4, <1>5, <1>6, <1>7, <1>8, <1>9, <1>10, <1>11,
     <1>12, <1>13, <1>14, <1>15, <1>16, <1>17, <1>18, <1>19, <1>20, <1>21,
     <1>22
  DEF Next, HostStep, CancelHost

(* Tasks are created all at once by the last Resolve, only ended afterwards,
   and the container is reached only once they all have ended. *)
LEMMA TaskInvStep == Core /\ [Next]_vars => TaskInv'
<1> SUFFICES ASSUME Core, [Next]_vars PROVE TaskInv'
  OBVIOUS
<1> USE ConstantsAssumption DEF Core, application
<1>1. CASE Resolve
  BY <1>1 DEF Resolve, TypeOK, TaskInv, CallerInside, Alive
<1>2. CASE ResolveRaises
  BY <1>2
  DEF ResolveRaises, HostAt, CloseContainer, TaskInv, CallerInside, Alive
<1>3. CASE Serve
  BY <1>3 DEF Serve, HostAt, TaskInv, CallerInside, Alive
<1>4. CASE ShutdownRequested
  BY <1>4 DEF ShutdownRequested, HostAt, TaskInv, CallerInside, Alive
<1>5. CASE AppLeaves
  BY <1>5
  DEF AppLeaves, LeaveBody, CloseContainer, TaskInv, CallerInside, Alive
<1>6. CASE AppStartupRaises
  BY <1>6
  DEF AppStartupRaises, LeaveBody, CloseContainer, TaskInv, CallerInside,
      Alive
<1>7. CASE ShutdownTimeout
  BY <1>7 DEF ShutdownTimeout, TaskInv, CallerInside, Alive
<1>8. CASE ServicesStopped
  BY <1>8 DEF ServicesStopped, CloseContainer, TaskInv, CallerInside, Alive
<1>9. CASE Dispose
  BY <1>9 DEF Dispose, TaskInv, CallerInside, Alive
<1>10. CASE CloseReturns
  BY <1>10
  DEF CloseReturns, HostAt, CloseContainer, TaskInv, CallerInside, Alive
<1>11. CASE Finish
  BY <1>11 DEF Finish, HostAt, TaskInv, CallerInside, Alive
<1>12. CASE CallerResolves
  BY <1>12 DEF CallerResolves, TaskInv, Alive
<1>13. CASE FlushThread
  BY <1>13 DEF FlushThread, TaskInv, CallerInside, Alive
<1>14. CASE ForcedExit
  BY <1>14 DEF ForcedExit, TaskInv, CallerInside, Alive
<1>15. CASE CancelResolving
  BY <1>15
  DEF CancelResolving, Cancelled, CloseContainer, TaskInv, CallerInside,
      Alive
<1>16. CASE CancelServing
  BY <1>16 DEF CancelServing, Cancelled, TaskInv, CallerInside, Alive
<1>17. CASE CancelBody
  BY <1>17
  DEF CancelBody, LeaveBody, CloseContainer, TaskInv, CallerInside, Alive
<1>18. CASE CancelStopping
  BY <1>18 DEF CancelStopping, TaskInv, CallerInside, Alive
<1>19. CASE CancelClosing
  BY <1>19 DEF CancelClosing, Cancelled, TaskInv, CallerInside, Alive
<1>20. CASE CancelFlushing
  BY <1>20 DEF CancelFlushing, Cancelled, TaskInv, CallerInside, Alive
<1>21. ASSUME NEW i \in Services, ServiceStep(i) PROVE TaskInv'
  <2>1. CASE Start(i)
    BY <2>1 DEF Start, Becomes, TaskInv, CallerInside, Alive
  <2>2. CASE CancelUnstarted(i)
    BY <2>2 DEF CancelUnstarted, Becomes, TaskInv, CallerInside, Alive
  <2>3. CASE DeliverCancel(i)
    BY <2>3 DEF DeliverCancel, Becomes, TaskInv, CallerInside, Alive
  <2>4. CASE Return(i)
    BY <2>4 DEF Return, Becomes, TaskInv, CallerInside, Alive
  <2>5. CASE Crash(i)
    BY <2>5 DEF Crash, Becomes, TaskInv, CallerInside, Alive
  <2>6. CASE Reraise(i)
    BY <2>6 DEF Reraise, Becomes, TaskInv, CallerInside, Alive
  <2>7. CASE Persist(i)
    BY <2>7 DEF Persist, Becomes, TaskInv, CallerInside, Alive
  <2> QED
    BY <1>21, <2>1, <2>2, <2>3, <2>4, <2>5, <2>6, <2>7 DEF ServiceStep
<1>22. CASE Terminated \/ UNCHANGED vars
  BY <1>22 DEF vars, Terminated, TaskInv, CallerInside, Alive
<1> QED
  BY <1>1, <1>2, <1>3, <1>4, <1>5, <1>6, <1>7, <1>8, <1>9, <1>10, <1>11,
     <1>12, <1>13, <1>14, <1>15, <1>16, <1>17, <1>18, <1>19, <1>20, <1>21,
     <1>22
  DEF Next, HostStep, CancelHost

(* Only the timeout, which runs once stopping is set, and a forced exit send
   a CancelledError. *)
LEMMA StopInvStep == Core /\ [Next]_vars => StopInv'
<1> SUFFICES ASSUME Core, [Next]_vars PROVE StopInv'
  OBVIOUS
<1> USE ConstantsAssumption DEF Core, application
<1>1. CASE Resolve
  BY <1>1 DEF Resolve, HostAt, StopInv, GracePeriod
<1>2. CASE ResolveRaises
  BY <1>2 DEF ResolveRaises, CloseContainer, StopInv, GracePeriod
<1>3. CASE Serve
  BY <1>3 DEF Serve, HostAt, StopInv, GracePeriod
<1>4. CASE ShutdownRequested
  BY <1>4 DEF ShutdownRequested, HostAt, StopInv, GracePeriod
<1>5. CASE AppLeaves
  BY <1>5 DEF AppLeaves, LeaveBody, CloseContainer, StopInv, GracePeriod
<1>6. CASE AppStartupRaises
  BY <1>6
  DEF AppStartupRaises, LeaveBody, CloseContainer, StopInv, GracePeriod
<1>7. CASE ShutdownTimeout
  BY <1>7 DEF ShutdownTimeout, HostAt, StopInv, GracePeriod
<1>8. CASE ServicesStopped
  BY <1>8 DEF ServicesStopped, CloseContainer, StopInv, GracePeriod
<1>9. CASE Dispose
  BY <1>9 DEF Dispose, StopInv, GracePeriod
<1>10. CASE CloseReturns
  BY <1>10 DEF CloseReturns, CloseContainer, StopInv, GracePeriod
<1>11. CASE Finish
  BY <1>11 DEF Finish, StopInv, GracePeriod
<1>12. CASE CallerResolves
  BY <1>12 DEF CallerResolves, StopInv, GracePeriod
<1>13. CASE FlushThread
  BY <1>13 DEF FlushThread, StopInv, GracePeriod
<1>14. CASE ForcedExit
  BY <1>14 DEF ForcedExit, StopInv, GracePeriod
<1>15. CASE CancelResolving
  BY <1>15 DEF CancelResolving, CloseContainer, StopInv, GracePeriod
<1>16. CASE CancelServing
  BY <1>16 DEF CancelServing, Cancelled, StopInv, GracePeriod
<1>17. CASE CancelBody
  BY <1>17 DEF CancelBody, LeaveBody, CloseContainer, StopInv, GracePeriod
<1>18. CASE CancelStopping
  BY <1>18 DEF CancelStopping, StopInv, GracePeriod
<1>19. CASE CancelClosing
  BY <1>19 DEF CancelClosing, StopInv, GracePeriod
<1>20. CASE CancelFlushing
  BY <1>20 DEF CancelFlushing, StopInv, GracePeriod
<1>21. ASSUME NEW i \in Services, ServiceStep(i) PROVE StopInv'
  <2>1. CASE Start(i)
    BY <2>1 DEF Start, Becomes, StopInv, GracePeriod
  <2>2. CASE CancelUnstarted(i)
    BY <2>2 DEF CancelUnstarted, Becomes, StopInv, GracePeriod
  <2>3. CASE DeliverCancel(i)
    BY <2>3 DEF DeliverCancel, Becomes, StopInv, GracePeriod
  <2>4. CASE Return(i)
    BY <2>4 DEF Return, Becomes, StopInv, GracePeriod
  <2>5. CASE Crash(i)
    BY <2>5 DEF Crash, Becomes, StopInv, GracePeriod
  <2>6. CASE Reraise(i)
    BY <2>6 DEF Reraise, Becomes, StopInv, GracePeriod
  <2>7. CASE Persist(i)
    BY <2>7 DEF Persist, Becomes, StopInv, GracePeriod
  <2> QED
    BY <1>21, <2>1, <2>2, <2>3, <2>4, <2>5, <2>6, <2>7 DEF ServiceStep
<1>22. CASE Terminated \/ UNCHANGED vars
  BY <1>22 DEF vars, Terminated, StopInv, GracePeriod
<1> QED
  BY <1>1, <1>2, <1>3, <1>4, <1>5, <1>6, <1>7, <1>8, <1>9, <1>10, <1>11,
     <1>12, <1>13, <1>14, <1>15, <1>16, <1>17, <1>18, <1>19, <1>20, <1>21,
     <1>22
  DEF Next, HostStep, CancelHost

(* The ways into and out of the outer finally. *)
LEMMA CloseInvStep == Core /\ [Next]_vars => CloseInv'
<1> SUFFICES ASSUME Core, [Next]_vars PROVE CloseInv'
  OBVIOUS
<1> USE ConstantsAssumption DEF Core, application
<1>1. CASE Resolve
  BY <1>1
  DEF Resolve, HostAt, CloseInv, FlushedUnlessFailed
<1>2. CASE ResolveRaises
  BY <1>2
  DEF ResolveRaises, HostAt, CloseContainer, TypeOK, CloseInv,
      FlushedUnlessFailed
<1>3. CASE Serve
  BY <1>3
  DEF Serve, HostAt, CloseInv, FlushedUnlessFailed
<1>4. CASE ShutdownRequested
  BY <1>4
  DEF ShutdownRequested, HostAt, CloseInv, FlushedUnlessFailed
<1>5. CASE AppLeaves
  BY <1>5
  DEF AppLeaves, HostAt, LeaveBody, CloseContainer, TypeOK, CloseInv,
      FlushedUnlessFailed
<1>6. CASE AppStartupRaises
  BY <1>6
  DEF AppStartupRaises, HostAt, LeaveBody, CloseContainer, TypeOK, CloseInv,
      FlushedUnlessFailed
<1>7. CASE ShutdownTimeout
  BY <1>7
  DEF ShutdownTimeout, CloseInv, FlushedUnlessFailed
<1>8. CASE ServicesStopped
  BY <1>8
  DEF ServicesStopped, HostAt, CloseContainer, TypeOK, CloseInv,
      FlushedUnlessFailed
<1>9. CASE Dispose
  BY <1>9
  DEF Dispose, HostAt, TypeOK, CloseInv, FlushedUnlessFailed
<1>10. CASE CloseReturns
  BY <1>10
  DEF CloseReturns, HostAt, CloseContainer, CloseInv, FlushedUnlessFailed
<1>11. CASE Finish
  BY <1>11
  DEF Finish, HostAt, TypeOK, CloseInv, FlushedUnlessFailed
<1>12. CASE CallerResolves
  BY <1>12
  DEF CallerResolves, CloseInv, FlushedUnlessFailed, CallerInside
<1>13. CASE FlushThread
  BY <1>13 DEF FlushThread, CloseInv, FlushedUnlessFailed
<1>14. CASE ForcedExit
  BY <1>14 DEF ForcedExit, CloseInv, FlushedUnlessFailed
<1>15. CASE CancelResolving
  BY <1>15
  DEF CancelResolving, Cancelled, CloseContainer, TypeOK, CloseInv,
      FlushedUnlessFailed
<1>16. CASE CancelServing
  BY <1>16
  DEF CancelServing, Cancelled, CloseInv, FlushedUnlessFailed
<1>17. CASE CancelBody
  BY <1>17
  DEF CancelBody, Cancelled, LeaveBody, CloseContainer, TypeOK, CloseInv,
      FlushedUnlessFailed
<1>18. CASE CancelStopping
  BY <1>18
  DEF CancelStopping, Cancelled, CloseInv, FlushedUnlessFailed
<1>19. CASE CancelClosing
  BY <1>19
  DEF CancelClosing, CloseInv, FlushedUnlessFailed
<1>20. CASE CancelFlushing
  BY <1>20
  DEF CancelFlushing, CloseInv, FlushedUnlessFailed
<1>21. ASSUME NEW i \in Services, ServiceStep(i) PROVE CloseInv'
  BY <1>21, ServiceFrame DEF CloseInv, FlushedUnlessFailed
<1>22. CASE Terminated \/ UNCHANGED vars
  BY <1>22
  DEF vars, Terminated, CloseInv, FlushedUnlessFailed
<1> QED
  BY <1>1, <1>2, <1>3, <1>4, <1>5, <1>6, <1>7, <1>8, <1>9, <1>10, <1>11,
     <1>12, <1>13, <1>14, <1>15, <1>16, <1>17, <1>18, <1>19, <1>20, <1>21,
     <1>22
  DEF Next, HostStep, CancelHost

LEMMA CoreStep == Core /\ [Next]_vars => Core'
  BY TypeOKStep, TaskInvStep, StopInvStep, CloseInvStep DEF Core

(* close() leaves nothing behind unless it is cut short, and nobody builds
   anything behind it. *)
LEMMA OwedInvStep == Inv /\ [Next]_vars => OwedInv'
<1> SUFFICES ASSUME Inv, [Next]_vars PROVE OwedInv'
  OBVIOUS
<1> USE ConstantsAssumption DEF Inv, Core, application
<1>1. CASE Resolve
  BY <1>1
  DEF Resolve, HostAt, CloseInv, OwedInv, DisposedUnlessCut
<1>2. CASE ResolveRaises
  BY <1>2
  DEF ResolveRaises, HostAt, CloseContainer, TypeOK, CloseInv, OwedInv,
      DisposedUnlessCut
<1>3. CASE Serve
  BY <1>3
  DEF Serve, HostAt, CloseInv, OwedInv, DisposedUnlessCut
<1>4. CASE ShutdownRequested
  BY <1>4
  DEF ShutdownRequested, HostAt, CloseInv, OwedInv, DisposedUnlessCut
<1>5. CASE AppLeaves
  BY <1>5
  DEF AppLeaves, HostAt, LeaveBody, CloseContainer, TypeOK, CloseInv,
      OwedInv, DisposedUnlessCut
<1>6. CASE AppStartupRaises
  BY <1>6
  DEF AppStartupRaises, HostAt, LeaveBody, CloseContainer, TypeOK, CloseInv,
      OwedInv, DisposedUnlessCut
<1>7. CASE ShutdownTimeout
  BY <1>7
  DEF ShutdownTimeout, CloseInv, OwedInv, DisposedUnlessCut
<1>8. CASE ServicesStopped
  BY <1>8
  DEF ServicesStopped, HostAt, CloseContainer, TypeOK, CloseInv, OwedInv,
      DisposedUnlessCut
<1>9. CASE Dispose
  BY <1>9
  DEF Dispose, TypeOK, CloseInv, OwedInv, DisposedUnlessCut
<1>10. CASE CloseReturns
  BY <1>10
  DEF CloseReturns, HostAt, CloseContainer, CloseInv, OwedInv,
      DisposedUnlessCut
<1>11. CASE Finish
  BY <1>11
  DEF Finish, HostAt, TypeOK, CloseInv, OwedInv, DisposedUnlessCut
<1>12. CASE CallerResolves
  BY <1>12
  DEF CallerResolves, CloseInv, OwedInv, DisposedUnlessCut, CallerInside
<1>13. CASE FlushThread
  BY <1>13 DEF FlushThread, CloseInv, OwedInv, DisposedUnlessCut
<1>14. CASE ForcedExit
  BY <1>14 DEF ForcedExit, CloseInv, OwedInv, DisposedUnlessCut
<1>15. CASE CancelResolving
  BY <1>15
  DEF CancelResolving, Cancelled, CloseContainer, TypeOK, CloseInv, OwedInv,
      DisposedUnlessCut
<1>16. CASE CancelServing
  BY <1>16
  DEF CancelServing, Cancelled, CloseInv, OwedInv, DisposedUnlessCut
<1>17. CASE CancelBody
  BY <1>17
  DEF CancelBody, Cancelled, LeaveBody, CloseContainer, TypeOK, CloseInv,
      OwedInv, DisposedUnlessCut
<1>18. CASE CancelStopping
  BY <1>18
  DEF CancelStopping, Cancelled, CloseInv, OwedInv, DisposedUnlessCut
<1>19. CASE CancelClosing
  BY <1>19
  DEF CancelClosing, CloseInv, OwedInv, DisposedUnlessCut
<1>20. CASE CancelFlushing
  BY <1>20
  DEF CancelFlushing, CloseInv, OwedInv, DisposedUnlessCut
<1>21. ASSUME NEW i \in Services, ServiceStep(i) PROVE OwedInv'
  BY <1>21, ServiceFrame DEF OwedInv, DisposedUnlessCut
<1>22. CASE Terminated \/ UNCHANGED vars
  BY <1>22
  DEF vars, Terminated, CloseInv, OwedInv, DisposedUnlessCut
<1> QED
  BY <1>1, <1>2, <1>3, <1>4, <1>5, <1>6, <1>7, <1>8, <1>9, <1>10, <1>11,
     <1>12, <1>13, <1>14, <1>15, <1>16, <1>17, <1>18, <1>19, <1>20, <1>21,
     <1>22
  DEF Next, HostStep, CancelHost

(* The invariant holds in every reachable state. *)
THEOREM Invariance == Spec => []Inv
<1>1. Inv /\ [Next]_vars => Inv'
  BY CoreStep, OwedInvStep DEF Inv
<1> QED
  BY InitInv, <1>1, PTL DEF Spec

(* Every variable keeps its type: in particular the container never owes   *)
(* more disposals than there are APP-scoped resources.                     *)
THEOREM Typing == Spec => []TypeOK
<1>1. Inv => TypeOK
  BY DEF Inv, Core
<1> QED
  BY Invariance, <1>1, PTL

(* Nothing is torn down while still in use: no service is alive, and none  *)
(* is still to be cancelled, once the container starts to close.           *)
THEOREM NothingInUse == Spec => []NoServiceAtClose
<1>1. Inv => NoServiceAtClose
  BY DEF Inv, Core, TaskInv, NoServiceAtClose
<1> QED
  BY Invariance, <1>1, PTL

(* A service is cancelled only after its grace period or by a forced exit. *)
THEOREM GraceGiven == Spec => []GracePeriod
<1>1. Inv => GracePeriod
  BY DEF Inv, Core, StopInv
<1> QED
  BY Invariance, <1>1, PTL

(* The caller's body runs inside the services' window. *)
THEOREM BodyInWindow == Spec => []BodyWindow
<1>1. Inv => BodyWindow
  BY DEF Inv, Core, TaskInv, StopInv, CloseInv, TypeOK, BodyWindow,
         CallerInside
<1> QED
  BY Invariance, <1>1, PTL

(* Every finalizer has run at the end, unless close() itself was cut short. *)
THEOREM Disposed == Spec => []DisposedUnlessCut
<1>1. Inv => DisposedUnlessCut
  BY DEF Inv, OwedInv
<1> QED
  BY Invariance, <1>1, PTL

(* Telemetry is down at the end, unless close() or the flush failed. *)
THEOREM Flushed == Spec => []FlushedUnlessFailed
<1>1. Inv => FlushedUnlessFailed
  BY DEF Inv, Core, CloseInv
<1> QED
  BY Invariance, <1>1, PTL

----------------------------------------------------------------------------
(* The order of TeardownOrder, as an action. *)
OrderedStep ==
  /\ owed' < owed => Alive = {} /\ ~CallerInside
  /\ telemetry = "up" /\ telemetry' = "flushing" =>
       Alive' = {} /\ ~CallerInside' /\ owed' = 0

(* Every step keeps that order: CloseInv tells what is owed at the flush,
   TaskInv that nothing is alive once the container closes. *)
LEMMA OrderStep == Inv /\ Inv' /\ [Next]_vars => OrderedStep
<1> SUFFICES ASSUME Inv, Inv', [Next]_vars PROVE OrderedStep
  OBVIOUS
<1> USE ConstantsAssumption DEF Inv, Core, application
<1>1. CASE Resolve
  BY <1>1 DEF Resolve, OrderedStep, TypeOK
<1>2. CASE ResolveRaises
  BY <1>2
  DEF ResolveRaises, HostAt, CloseContainer, OrderedStep, TypeOK, TaskInv
<1>3. CASE Serve
  BY <1>3 DEF Serve, OrderedStep, TypeOK
<1>4. CASE ShutdownRequested
  BY <1>4 DEF ShutdownRequested, OrderedStep, TypeOK
<1>5. CASE AppLeaves
  BY <1>5
  DEF AppLeaves, LeaveBody, CloseContainer, OrderedStep, TypeOK, TaskInv,
      CallerInside
<1>6. CASE AppStartupRaises
  BY <1>6
  DEF AppStartupRaises, LeaveBody, CloseContainer, OrderedStep, TypeOK,
      TaskInv, CallerInside
<1>7. CASE ShutdownTimeout
  BY <1>7 DEF ShutdownTimeout, OrderedStep, TypeOK
<1>8. CASE ServicesStopped
  BY <1>8
  DEF ServicesStopped, CloseContainer, OrderedStep, TypeOK, TaskInv,
      CallerInside
<1>9. CASE Dispose
  BY <1>9 DEF Dispose, HostAt, OrderedStep, TaskInv, CallerInside
<1>10. CASE CloseReturns
  BY <1>10
  DEF CloseReturns, HostAt, CloseContainer, OrderedStep, TaskInv,
      CallerInside
<1>11. CASE Finish
  BY <1>11 DEF Finish, OrderedStep, TypeOK
<1>12. CASE CallerResolves
  BY <1>12 DEF CallerResolves, OrderedStep, TypeOK
<1>13. CASE FlushThread
  BY <1>13 DEF FlushThread, OrderedStep, TypeOK
<1>14. CASE ForcedExit
  BY <1>14 DEF ForcedExit, OrderedStep, TypeOK
<1>15. CASE CancelResolving
  BY <1>15
  DEF CancelResolving, Cancelled, CloseContainer, OrderedStep, TypeOK,
      TaskInv
<1>16. CASE CancelServing
  BY <1>16 DEF CancelServing, OrderedStep, TypeOK
<1>17. CASE CancelBody
  BY <1>17
  DEF CancelBody, LeaveBody, CloseContainer, OrderedStep, TypeOK, TaskInv,
      CallerInside
<1>18. CASE CancelStopping
  BY <1>18 DEF CancelStopping, OrderedStep, TypeOK
<1>19. CASE CancelClosing
  BY <1>19 DEF CancelClosing, Cancelled, OrderedStep, TaskInv, CallerInside
<1>20. CASE CancelFlushing
  BY <1>20 DEF CancelFlushing, OrderedStep, TypeOK
<1>21. ASSUME NEW i \in Services, ServiceStep(i) PROVE OrderedStep
  <2>1. CASE Start(i)
    BY <2>1 DEF Start, Becomes, OrderedStep, TypeOK
  <2>2. CASE CancelUnstarted(i)
    BY <2>2 DEF CancelUnstarted, Becomes, OrderedStep, TypeOK
  <2>3. CASE DeliverCancel(i)
    BY <2>3 DEF DeliverCancel, Becomes, OrderedStep, TypeOK
  <2>4. CASE Return(i)
    BY <2>4 DEF Return, Becomes, OrderedStep, TypeOK
  <2>5. CASE Crash(i)
    BY <2>5 DEF Crash, Becomes, OrderedStep, TypeOK
  <2>6. CASE Reraise(i)
    BY <2>6 DEF Reraise, Becomes, OrderedStep, TypeOK
  <2>7. CASE Persist(i)
    BY <2>7 DEF Persist, Becomes, OrderedStep, TypeOK
  <2> QED
    BY <1>21, <2>1, <2>2, <2>3, <2>4, <2>5, <2>6, <2>7 DEF ServiceStep
<1>22. CASE Terminated \/ UNCHANGED vars
  BY <1>22 DEF vars, Terminated, OrderedStep, TypeOK
<1> QED
  BY <1>1, <1>2, <1>3, <1>4, <1>5, <1>6, <1>7, <1>8, <1>9, <1>10, <1>11,
     <1>12, <1>13, <1>14, <1>15, <1>16, <1>17, <1>18, <1>19, <1>20, <1>21,
     <1>22
  DEF Next, HostStep, CancelHost

(* A finalizer runs only with no service alive and the body left, the      *)
(* flush only with no finalizer owed.                                      *)
THEOREM Ordered == Spec => TeardownOrder
<1>1. Inv /\ Inv' /\ [Next]_vars => [OrderedStep]_vars
  BY OrderStep
<1> QED
  BY Invariance, <1>1, PTL DEF Spec, TeardownOrder, OrderedStep

----------------------------------------------------------------------------
(* The refinement: each step of the host is a step of HostTeardown, or     *)
(* leaves its variables alone.                                             *)

(* A host starts up with its body, or nothing, inside. *)
LEMMA RefineInit == Init => HT!Init
<1> SUFFICES ASSUME Init PROVE HT!Init
  OBVIOUS
<1> USE ConstantsAssumption
<1>1. Phase = "up"
  BY DEF Init, Phase
<1>2. ActiveWorkers \in SUBSET (0..N)
  BY DEF Init, ActiveWorkers, Alive
<1> QED
  BY <1>1, <1>2 DEF Init, HT!Init

(* Resolving, starting and the body are Build and Depart, the steps from
   the body's end to done are TakeDown, the flush thread is FlushEnds. *)
LEMMA RefineStep ==
  Inv /\ Inv' /\ [Next]_vars
    => [HT!Next]_<<Phase, ActiveWorkers, owed, telemetry>>
<1> SUFFICES ASSUME Inv, Inv', [Next]_vars
    PROVE [HT!Next]_<<Phase, ActiveWorkers, owed, telemetry>>
  OBVIOUS
<1> USE ConstantsAssumption DEF Inv, Core, application
<1>1. CASE Resolve
  BY <1>1
  DEF Resolve, HostAt, HT!Next, HT!Build, Phase, ActiveWorkers, Alive,
      TypeOK, TaskInv
<1>2. CASE ResolveRaises
  BY <1>2
  DEF ResolveRaises, HostAt, CloseContainer, HT!Next, HT!TakeDown, Phase,
      ActiveWorkers, TypeOK, TaskInv, CloseInv, OwedInv
<1>3. CASE Serve
  BY <1>3
  DEF Serve, HostAt, HT!Next, HT!Build, HT!Depart, Phase, ActiveWorkers,
      Alive, TypeOK
<1>4. CASE ShutdownRequested
  BY <1>4
  DEF ShutdownRequested, HostAt, HT!Next, HT!Build, HT!Depart, Phase,
      ActiveWorkers, Alive, TypeOK
<1>5. CASE AppLeaves
  BY <1>5
  DEF AppLeaves, HostAt, LeaveBody, CloseContainer, HT!Next, HT!TakeDown,
      Phase, ActiveWorkers, Alive, CallerInside, TypeOK, TaskInv, CloseInv,
      OwedInv
<1>6. CASE AppStartupRaises
  BY <1>6
  DEF AppStartupRaises, HostAt, LeaveBody, CloseContainer, HT!Next,
      HT!TakeDown, Phase, ActiveWorkers, Alive, CallerInside, TypeOK,
      TaskInv, CloseInv, OwedInv
<1>7. CASE ShutdownTimeout
  BY <1>7
  DEF ShutdownTimeout, HT!Next, Phase, ActiveWorkers, Alive, CallerInside
<1>8. CASE ServicesStopped
  BY <1>8
  DEF ServicesStopped, HostAt, CloseContainer, HT!Next, HT!TakeDown, Phase,
      ActiveWorkers, Alive, CallerInside, CloseInv, OwedInv
<1>9. CASE Dispose
  BY <1>9
  DEF Dispose, HostAt, HT!Next, HT!TakeDown, Phase, ActiveWorkers,
      CallerInside, TypeOK, TaskInv
<1>10. CASE CloseReturns
  BY <1>10
  DEF CloseReturns, HostAt, CloseContainer, HT!Next, HT!TakeDown, Phase,
      ActiveWorkers, CallerInside, TaskInv, CloseInv, OwedInv
<1>11. CASE Finish
  BY <1>11
  DEF Finish, HT!Next, HT!TakeDown, Phase, ActiveWorkers, CallerInside,
      TypeOK, TaskInv
<1>12. CASE CallerResolves
  BY <1>12
  DEF CallerResolves, HT!Next, HT!Build, Phase, ActiveWorkers, Alive,
      CallerInside, TypeOK
<1>13. CASE FlushThread
  BY <1>13
  DEF FlushThread, HT!Next, HT!FlushEnds, Phase, ActiveWorkers, Alive,
      CallerInside
<1>14. CASE ForcedExit
  BY <1>14
  DEF ForcedExit, HT!Next, Phase, ActiveWorkers, Alive, CallerInside
<1>15. CASE CancelResolving
  BY <1>15
  DEF CancelResolving, Cancelled, CloseContainer, HT!Next, HT!TakeDown,
      Phase, ActiveWorkers, TypeOK, TaskInv, CloseInv, OwedInv
<1>16. CASE CancelServing
  BY <1>16
  DEF CancelServing, Cancelled, HT!Next, HT!Build, HT!Depart, Phase,
      ActiveWorkers, Alive, TypeOK
<1>17. CASE CancelBody
  BY <1>17
  DEF CancelBody, Cancelled, LeaveBody, CloseContainer, HT!Next, HT!TakeDown,
      Phase, ActiveWorkers, Alive, CallerInside, TypeOK, TaskInv, CloseInv,
      OwedInv
<1>18. CASE CancelStopping
  BY <1>18
  DEF CancelStopping, HT!Next, Phase, ActiveWorkers, Alive, CallerInside
<1>19. CASE CancelClosing
  BY <1>19
  DEF CancelClosing, Cancelled, HT!Next, HT!TakeDown, Phase, ActiveWorkers,
      CallerInside, TypeOK, TaskInv
<1>20. CASE CancelFlushing
  BY <1>20
  DEF CancelFlushing, HT!Next, HT!TakeDown, Phase, ActiveWorkers,
      CallerInside, TypeOK, TaskInv
<1>21. ASSUME NEW i \in Services, ServiceStep(i)
       PROVE [HT!Next]_<<Phase, ActiveWorkers, owed, telemetry>>
  <2>1. CASE Start(i)
    BY <2>1
    DEF Start, Becomes, HT!Next, Phase, ActiveWorkers, Alive, CallerInside
  <2>2. CASE CancelUnstarted(i)
    BY <2>2
    DEF CancelUnstarted, Becomes, HT!Next, HT!Depart, Phase, ActiveWorkers,
        Alive, CallerInside
  <2>3. CASE DeliverCancel(i)
    BY <2>3
    DEF DeliverCancel, Becomes, HT!Next, Phase, ActiveWorkers, Alive,
        CallerInside
  <2>4. CASE Return(i)
    BY <2>4
    DEF Return, Becomes, HT!Next, HT!Depart, Phase, ActiveWorkers, Alive,
        CallerInside
  <2>5. CASE Crash(i)
    BY <2>5
    DEF Crash, Becomes, HT!Next, HT!Depart, Phase, ActiveWorkers, Alive,
        CallerInside
  <2>6. CASE Reraise(i)
    BY <2>6
    DEF Reraise, Becomes, HT!Next, HT!Depart, Phase, ActiveWorkers, Alive,
        CallerInside
  <2>7. CASE Persist(i)
    BY <2>7
    DEF Persist, Becomes, HT!Next, Phase, ActiveWorkers, Alive, CallerInside
  <2> QED
    BY <1>21, <2>1, <2>2, <2>3, <2>4, <2>5, <2>6, <2>7 DEF ServiceStep
<1>22. CASE Terminated \/ UNCHANGED vars
  BY <1>22
  DEF vars, Terminated, HT!Next, Phase, ActiveWorkers, Alive, CallerInside
<1> QED
  BY <1>1, <1>2, <1>3, <1>4, <1>5, <1>6, <1>7, <1>8, <1>9, <1>10, <1>11,
     <1>12, <1>13, <1>14, <1>15, <1>16, <1>17, <1>18, <1>19, <1>20, <1>21,
     <1>22
  DEF Next, HostStep, CancelHost

(* Every behaviour of the host is one that HostTeardown allows. *)
THEOREM Refinement == Spec => ImplementsTeardown
<1>1. Inv /\ Inv' /\ [Next]_vars => [HT!Next]_HT!tvars
  BY RefineStep DEF HT!tvars
<1> QED
  BY RefineInit, Invariance, <1>1, PTL DEF Spec, ImplementsTeardown, HT!Spec
===========================================================================
