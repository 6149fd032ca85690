------------------------ MODULE Observability_proofs ------------------------
(***************************************************************************)
(* Proofs about Observability, for a process with one host, any number of  *)
(* boots, any sinks and any of the faults.                                 *)
(*                                                                         *)
(* What a configured process looks like can only be kept if it is known    *)
(* what every call leaves half done: how far configure and shutdown have   *)
(* come, and which providers are gone or not there yet.  Inv says so for   *)
(* each value of pc and step.                                              *)
(***************************************************************************)
EXTENDS Observability, TLAPS

SinksOf(b) ==
  {Handlers(b, Len(Sinks)), Append(Handlers(b, Len(Sinks)), OtlpHandler(b))}

Position(s) == CASE s = "tracing" -> 1 [] s = "metrics" -> 2 [] s = "logging" -> 3

(* Where the host is, and what its own configure call is worth there. *)
HostInv(h) ==
  /\ pc[h] = "configuring" =>
       ~configured /\ step[h] \in 1..3 /\ boot[h] \in Boots
  /\ pc[h] \in {"composing", "built", "serving"} =>
       /\ configured
       /\ boot[h] # 0 => /\ instrumented
                         /\ boot[h] \in live["tracing"]
                         /\ boot[h] \in live["metrics"]
  /\ pc[h] = "stopping" => configured

(* The providers that are there: of a configure call, as far as it has     *)
(* come; of a process that is configured, until its shutdown gets there.   *)
WholeInv(h) ==
  /\ pc[h] = "configuring" /\ step[h] >= 2 =>
       current["tracing"] = boot[h] /\ boot[h] \in live["tracing"]
  /\ pc[h] = "configuring" /\ step[h] = 3 =>
       current["metrics"] = boot[h] /\ boot[h] \in live["metrics"]
  /\ configured /\ (pc[h] = "stopping" => step[h] >= 1) =>
       /\ current["tracing"] \in live["tracing"]
       /\ root \in SinksOf(current["tracing"])
  /\ configured /\ (pc[h] = "stopping" => step[h] >= 2) =>
       current["metrics"] = current["tracing"]

(* The providers that are not: not made yet, shut down, or never reached   *)
(* again.                                                                  *)
Gone(h, s) ==
  \/ pc[h] = "configuring" /\ Position(s) >= step[h]
  \/ pc[h] = "stopping" /\ Position(s) > step[h]
  \/ pc[h] # "configuring" /\ ~configured

LostInv(h) ==
  \A s \in Signals :
    /\ live[s] \subseteq {current[s]} \cup failed
    /\ Gone(h, s) => live[s] \subseteq failed

Inv(h) == TypeOK /\ HostInv(h) /\ WholeInv(h) /\ LostInv(h)

----------------------------------------------------------------------------
(* Attaching sinks gives the root logger handlers of the right kind. *)
LEMMA HandlersType ==
  ASSUME NEW b \in Boots, NEW n \in 0..Len(Sinks)
  PROVE  Handlers(b, n) \in Seq(Handler)
<1>1. Sinks \in Seq(STRING) /\ Len(Sinks) \in Nat /\ n \in Nat
  BY ObservabilityAssumption
<1>2. \A k \in 1..n : k \in DOMAIN Sinks
  BY <1>1
<1>3. \A k \in 1..n : [boot |-> b, sink |-> Sinks[k]] \in Handler
  BY <1>2 DEF Handler
<1>4. Handlers(b, n) \in [1..n -> Handler]
  BY <1>3 DEF Handlers
<1>5. [1..n -> Handler] \subseteq Seq(Handler)
  BY <1>1
<1> QED
  BY <1>4, <1>5

(* TypeOK in two halves: the flags, and everything else. *)
FlagsOK == configured \in BOOLEAN /\ instrumented \in BOOLEAN

DataOK ==
  /\ current \in [Signals -> {0} \cup Boots]
  /\ global \in [Signals -> {0} \cup Boots]
  /\ live \in [Signals -> SUBSET Boots]
  /\ root \in Seq(Handler)
  /\ boots \in {0} \cup Boots
  /\ pc \in [Hosts -> {"idle", "configuring", "composing", "built",
                       "serving", "stopping"}]
  /\ step \in [Hosts -> 0..3]
  /\ boot \in [Hosts -> {0} \cup Boots]
  /\ failed \subseteq Boots

LEMMA InitInv ==
  ASSUME NEW CONSTANT h, Hosts = {h}, Init
  PROVE  Inv(h)
<1>1. <<>> \in Seq(Handler)
  OBVIOUS
<1>2. DataOK
  BY <1>1 DEF Init, DataOK, Signals
<1>3. FlagsOK
  BY Zenon DEF Init, FlagsOK
<1>4. HostInv(h) /\ WholeInv(h) /\ LostInv(h)
  BY DEF Init, HostInv, WholeInv, LostInv, Signals
<1> QED
  BY <1>2, <1>3, <1>4, Zenon DEF Inv, TypeOK, FlagsOK, DataOK

(* The flags stay Booleans. *)
LEMMA FlagsStep ==
  ASSUME NEW CONSTANT h, FlagsOK, HostStep(h)
  PROVE  FlagsOK'
<1>1. configured' \in BOOLEAN
  <2>1. configured' = configured \/ configured' = TRUE \/ configured' = FALSE
    BY Zenon DEF HostStep, BuildConfigured, BuildFresh, ConfigureProvider,
      ConfigureLogging, ConfigureRaises, Compose, ComposeRaises, Serve,
      ServeEnds, Abandon, BeginShutdown, ShutdownProvider, ShutdownRaises,
      ShutdownReturns
  <2> QED
    BY <2>1, Zenon DEF FlagsOK
<1>2. instrumented' \in BOOLEAN
  <2>1. \/ instrumented' = instrumented \/ instrumented' = TRUE
        \/ \E s : instrumented' = (instrumented /\ s # "logging")
    BY Zenon DEF HostStep, BuildConfigured, BuildFresh, ConfigureProvider,
      ConfigureLogging, ConfigureRaises, Compose, ComposeRaises, Serve,
      ServeEnds, Abandon, BeginShutdown, ShutdownProvider, ShutdownRaises,
      ShutdownReturns, logs
  <2> QED
    BY <2>1, Zenon DEF FlagsOK
<1> QED
  BY <1>1, <1>2, Zenon DEF FlagsOK

(* A step keeps every variable in its type. *)
LEMMA DataStep ==
  ASSUME NEW CONSTANT h, Hosts = {h}, DataOK, HostInv(h), HostStep(h)
  PROVE  DataOK'
<1> USE DEF Goto, At
<1>b. pc[h] = "configuring" => boot[h] \in Boots /\ step[h] \in 1..3
  BY DEF HostInv
<1>1. CASE BuildConfigured(h)
  BY <1>1 DEF BuildConfigured, DataOK, logs
<1>2. CASE BuildFresh(h)
  <2>1. boots + 1 \in Boots
    BY <1>2, ObservabilityAssumption DEF BuildFresh, DataOK, Boots
  <2> QED
    BY <1>2, <2>1 DEF BuildFresh, DataOK, logs
<1>3. CASE ConfigureProvider(h)
  <2>1. Order[step[h]] \in Signals /\ step[h] + 1 \in 0..3
    BY <1>3 DEF ConfigureProvider, Order, Signals
  <2>2. /\ live' \in [Signals -> SUBSET Boots]
        /\ current' \in [Signals -> {0} \cup Boots]
        /\ global' \in [Signals -> {0} \cup Boots]
    BY <1>b, <1>3, <2>1 DEF ConfigureProvider, Install, DataOK
  <2> QED
    BY <1>3, <2>1, <2>2 DEF ConfigureProvider, DataOK, logs
<1>4. CASE ConfigureLogging(h)
  <2>1. boot[h] \in Boots
    BY <1>b, <1>4 DEF ConfigureLogging
  <2>2. AttachSinks(boot[h], Len(Sinks)) \in Seq(Handler)
    BY <2>1, HandlersType DEF AttachSinks
  <2>3. OtlpHandler(boot[h]) \in Handler
    BY <2>1 DEF OtlpHandler, Handler
  <2>4. root' \in Seq(Handler)
    BY <1>4, <2>2, <2>3 DEF ConfigureLogging
  <2>5. /\ live' \in [Signals -> SUBSET Boots]
        /\ current' \in [Signals -> {0} \cup Boots]
        /\ global' \in [Signals -> {0} \cup Boots]
    BY <1>4, <2>1 DEF ConfigureLogging, Install, DataOK, Signals
  <2> QED
    BY <1>4, <2>4, <2>5 DEF ConfigureLogging, DataOK
<1>5. CASE ConfigureRaises(h)
  <2>1. boot[h] \in Boots
    BY <1>b, <1>5 DEF ConfigureRaises
  <2>2. PICK n \in 0..Len(Sinks) - 1 : root' = AttachSinks(boot[h], n)
    BY <1>5 DEF ConfigureRaises
  <2>3. root' \in Seq(Handler)
    BY <2>1, <2>2, HandlersType DEF AttachSinks
  <2> QED
    BY <1>5, <2>1, <2>3 DEF ConfigureRaises, DataOK
<1>6. CASE Compose(h) \/ Serve(h) \/ Abandon(h)
  BY <1>6 DEF Compose, Serve, Abandon, DataOK, logs
<1>7. CASE ComposeRaises(h) \/ ServeEnds(h)
  <2>1. BeginShutdown(h)
    BY <1>7 DEF ComposeRaises, ServeEnds
  <2>2. CASE configured
    BY <2>1, <2>2 DEF BeginShutdown, DataOK, logs
  <2>3. CASE ~configured
    BY <2>1, <2>3 DEF BeginShutdown, DataOK, logs
  <2> QED
    BY <2>2, <2>3
<1>8. CASE ShutdownProvider(h)
  BY <1>8 DEF ShutdownProvider, Order, DataOK, Signals
<1>9. CASE ShutdownRaises(h)
  BY <1>9 DEF ShutdownRaises, DataOK, logs, Signals
<1>10. CASE ShutdownReturns(h)
  BY <1>10 DEF ShutdownReturns, DataOK, logs
<1> QED
  BY <1>1, <1>2, <1>3, <1>4, <1>5, <1>6, <1>7, <1>8, <1>9, <1>10
  DEF HostStep

(* A step keeps what is known of the host. *)
LEMMA HostInvStep ==
  ASSUME NEW CONSTANT h, Hosts = {h}, DataOK, HostInv(h), WholeInv(h),
         HostStep(h)
  PROVE  HostInv(h)'
<1> USE DEF DataOK, HostInv, Goto, At
<1>1. CASE BuildConfigured(h)
  BY <1>1 DEF BuildConfigured
<1>2. CASE BuildFresh(h)
  <2>1. boots + 1 \in Boots
    BY <1>2, ObservabilityAssumption DEF BuildFresh, Boots
  <2> QED
    BY <1>2, <2>1 DEF BuildFresh
<1>3. CASE ConfigureProvider(h)
  BY <1>3 DEF ConfigureProvider
<1>4. CASE ConfigureLogging(h)
  <2>1. boot[h] \in live["tracing"] /\ boot[h] \in live["metrics"]
    BY <1>4 DEF ConfigureLogging, WholeInv
  <2>2. boot[h] \in live'["tracing"] /\ boot[h] \in live'["metrics"]
    BY <1>4, <2>1 DEF ConfigureLogging, Install, Signals
  <2>3. pc'[h] = "composing" /\ configured' /\ instrumented' /\ boot' = boot
    BY <1>4 DEF ConfigureLogging
  <2> QED
    BY <2>2, <2>3
<1>5. CASE ConfigureRaises(h)
  BY <1>5 DEF ConfigureRaises
<1>6. CASE Compose(h)
  BY <1>6 DEF Compose, logs
<1>7. CASE Serve(h)
  BY <1>7 DEF Serve, logs
<1>8. CASE Abandon(h)
  BY <1>8 DEF Abandon
<1>9. CASE ComposeRaises(h) \/ ServeEnds(h)
  BY <1>9 DEF ComposeRaises, ServeEnds, BeginShutdown
<1>10. CASE ShutdownProvider(h)
  BY <1>10 DEF ShutdownProvider
<1>11. CASE ShutdownRaises(h)
  BY <1>11 DEF ShutdownRaises
<1>12. CASE ShutdownReturns(h)
  BY <1>12 DEF ShutdownReturns
<1> QED
  BY <1>1, <1>2, <1>3, <1>4, <1>5, <1>6, <1>7, <1>8, <1>9, <1>10, <1>11,
     <1>12 DEF HostStep

(* A step keeps what is known of the providers that are there. *)
LEMMA WholeInvStep ==
  ASSUME NEW CONSTANT h, Hosts = {h}, DataOK, HostInv(h), WholeInv(h),
         HostStep(h)
  PROVE  WholeInv(h)'
<1> USE DEF DataOK, HostInv, WholeInv, Goto, At, Signals
<1>1. CASE BuildConfigured(h)
  BY <1>1 DEF BuildConfigured, SinksOf, logs
<1>2. CASE BuildFresh(h)
  BY <1>2 DEF BuildFresh
<1>3. CASE ConfigureProvider(h)
  BY <1>3 DEF ConfigureProvider, Install, Order
<1>4. CASE ConfigureLogging(h)
  <2>1. /\ current'["tracing"] = boot[h] /\ current'["metrics"] = boot[h]
        /\ boot[h] \in live'["tracing"]
    BY <1>4 DEF ConfigureLogging, Install
  <2>2. root' \in SinksOf(current'["tracing"])
    BY <1>4, <2>1 DEF ConfigureLogging, AttachSinks, SinksOf
  <2>3. pc'[h] = "composing"
    BY <1>4 DEF ConfigureLogging
  <2>4. SinksOf(current["tracing"])' = SinksOf(current'["tracing"])
    BY DEF SinksOf, Handlers, OtlpHandler
  <2> QED
    BY <2>1, <2>2, <2>3, <2>4
<1>5. CASE ConfigureRaises(h)
  BY <1>5 DEF ConfigureRaises
<1>6. CASE Compose(h) \/ Serve(h) \/ Abandon(h)
  BY <1>6 DEF Compose, Serve, Abandon, SinksOf, logs
<1>7. CASE ComposeRaises(h) \/ ServeEnds(h)
  BY <1>7 DEF ComposeRaises, ServeEnds, BeginShutdown, SinksOf, logs
<1>8. CASE ShutdownProvider(h)
  BY <1>8 DEF ShutdownProvider, Order, SinksOf
<1>9. CASE ShutdownRaises(h)
  BY <1>9 DEF ShutdownRaises, SinksOf, logs
<1>10. CASE ShutdownReturns(h)
  BY <1>10 DEF ShutdownReturns
<1> QED
  BY <1>1, <1>2, <1>3, <1>4, <1>5, <1>6, <1>7, <1>8, <1>9, <1>10
  DEF HostStep

(* A step keeps what is known of the providers that are not. *)
LEMMA LostInvStep ==
  ASSUME NEW CONSTANT h, Hosts = {h}, DataOK, HostInv(h), WholeInv(h),
         LostInv(h), HostStep(h)
  PROVE  LostInv(h)'
<1> USE DEF DataOK, HostInv, LostInv, Gone, Goto, At, Signals
<1>1. CASE BuildConfigured(h)
  BY <1>1 DEF BuildConfigured
<1>2. CASE BuildFresh(h)
  BY <1>2 DEF BuildFresh
<1>3. CASE ConfigureProvider(h)
  BY <1>3 DEF ConfigureProvider, Install, Order, Position, WholeInv
<1>4. CASE ConfigureLogging(h)
  BY <1>4 DEF ConfigureLogging, Install, Position, WholeInv
<1>5. CASE ConfigureRaises(h)
  BY <1>5 DEF ConfigureRaises, Position, WholeInv
<1>6. CASE Compose(h) \/ Serve(h) \/ Abandon(h)
  BY <1>6 DEF Compose, Serve, Abandon
<1>7. CASE ComposeRaises(h) \/ ServeEnds(h)
  BY <1>7 DEF ComposeRaises, ServeEnds, BeginShutdown, Position
<1>8. CASE ShutdownProvider(h)
  BY <1>8 DEF ShutdownProvider, Order, Position
<1>9. CASE ShutdownRaises(h)
  BY <1>9 DEF ShutdownRaises
<1>10. CASE ShutdownReturns(h)
  BY <1>10 DEF ShutdownReturns, Position
<1> QED
  BY <1>1, <1>2, <1>3, <1>4, <1>5, <1>6, <1>7, <1>8, <1>9, <1>10
  DEF HostStep

LEMMA Invariance ==
  ASSUME NEW CONSTANT h, Hosts = {h}
  PROVE  Spec => []Inv(h)
<1>1. Init => Inv(h)
  BY InitInv
<1>2. Inv(h) /\ [Next]_vars => Inv(h)'
  <2> SUFFICES ASSUME Inv(h), [Next]_vars PROVE Inv(h)'
    OBVIOUS
  <2>0. /\ FlagsOK /\ DataOK
        /\ HostInv(h) /\ WholeInv(h) /\ LostInv(h)
    BY Zenon DEF Inv, TypeOK, FlagsOK, DataOK
  <2>1. CASE HostStep(h)
    <3>1. FlagsOK' /\ DataOK'
      BY <2>0, <2>1, FlagsStep, DataStep
    <3>2. HostInv(h)' /\ WholeInv(h)' /\ LostInv(h)'
      BY <2>0, <2>1, HostInvStep, WholeInvStep, LostInvStep
    <3> QED
      BY <3>1, <3>2, Zenon DEF Inv, TypeOK, FlagsOK, DataOK
  <2>2. CASE UNCHANGED vars
    <3>1. UNCHANGED <<configured, current, global, live, root, instrumented,
                      boots, pc, step, boot, failed>>
      BY <2>2 DEF vars
    <3>2. TypeOK' /\ HostInv(h)'
      BY <2>0, <3>1, Zenon DEF FlagsOK, DataOK, TypeOK, HostInv
    <3>3. WholeInv(h)' /\ LostInv(h)'
      BY <2>0, <3>1, Zenon
      DEF WholeInv, LostInv, Gone, SinksOf, Handlers, OtlpHandler
    <3> QED
      BY <3>2, <3>3 DEF Inv
  <2>3. HostStep(h) \/ UNCHANGED vars
    BY DEF Next, ProcessEnds
  <2> QED
    BY <2>1, <2>2, <2>3
<1> QED
  BY <1>1, <1>2, PTL DEF Spec

----------------------------------------------------------------------------
(* With one host in the process every variable keeps its type: the module  *)
(* globals hold providers that were made, and the root logger handlers of  *)
(* the configured sinks.                                                   *)
THEOREM TypeCorrect ==
  ASSUME NEW CONSTANT h, Hosts = {h}
  PROVE  Spec => []TypeOK
<1>1. Inv(h) => TypeOK
  BY DEF Inv
<1> QED
  BY <1>1, Invariance, PTL

(* With one host, whatever calls failed or were repeated before, a process *)
(* that says it is configured has its tracing alive and the tracing and    *)
(* the metrics of one configure call to shut down (setup.py:25-36, 61).    *)
THEOREM ConfiguredProcessIsWhole ==
  ASSUME NEW CONSTANT h, Hosts = {h}
  PROVE  Spec => []ConfiguredIsWhole
<1>1. Inv(h) => ConfiguredIsWhole
  BY DEF Inv, WholeInv, ConfiguredIsWhole
<1> QED
  BY <1>1, Invariance, PTL

(* With one host, what is logged while configured goes once to each sink   *)
(* of the current configure call, and to no handler that an earlier call   *)
(* left behind (logging.py:38, sinks.py:32-43).                            *)
THEOREM LoggedToItsOwnSinks ==
  ASSUME NEW CONSTANT h, Hosts = {h}
  PROVE  Spec => []SinksOfThisBoot
<1>1. Inv(h) => SinksOfThisBoot
  BY DEF Inv, WholeInv, SinksOfThisBoot, SinksOf
<1> QED
  BY <1>1, Invariance, PTL

(* With one host, every running provider can be reached by the next        *)
(* shutdown, and none runs after it, but for those of configure calls that *)
(* raised (setup.py:25-26, 79-83).                                         *)
THEOREM NoProviderOrphaned ==
  ASSUME NEW CONSTANT h, Hosts = {h}
  PROVE  Spec => []NothingOrphaned
<1>1. Inv(h) => NothingOrphaned
  BY DEF Inv, LostInv, Gone, NothingOrphaned, Settled, InCall
<1> QED
  BY <1>1, Invariance, PTL

(* With one host, a host that serves does so with observability configured *)
(* and, if its own build configured it, with providers that run            *)
(* (web_host_builder.py:82-85).                                            *)
THEOREM ServingHostIsObserved ==
  ASSUME NEW CONSTANT h, Hosts = {h}
  PROVE  Spec => []ServingIsObserved
<1>1. Inv(h) => ServingIsObserved
  BY DEF Inv, HostInv, ServingIsObserved
<1> QED
  BY <1>1, Invariance, PTL
=============================================================================
