--------------------------- MODULE Observability ---------------------------
(***************************************************************************)
(* The process-wide observability state (pepelats/observability/setup.py   *)
(* with tracing.py, metrics.py and logging.py) and the hosts that drive    *)
(* it: WebHostBuilder.build configures it, the host's lifecycle shuts it   *)
(* down, a build that fails in between undoes it.                          *)
(*                                                                         *)
(* Providers are numbered by the configure_observability call that made    *)
(* them.  A provider is live from its construction to its shutdown(); each *)
(* module global holds the provider that shutdown_observability will find  *)
(* (0 for None), and OpenTelemetry's own globals, which get_tracer and     *)
(* get_meter go through, accept one provider per process and keep it.      *)
(***************************************************************************)
EXTENDS Naturals, Sequences

CONSTANTS Hosts,      \* the hosts of this process
          MaxBoots,   \* bound on the calls of configure_observability
          Sinks,      \* the log sinks of the configuration, in its order
          Faults      \* which of the faults below may happen

(* "sink"   attach_sinks raises: an unknown sink, no log directory
   "build"  a configurator or the composition of the host raises
   "meter"  MeterProvider.shutdown raises what its reader raised *)

ASSUME ObservabilityAssumption ==
  /\ MaxBoots \in Nat
  /\ Sinks \in Seq(STRING)
  /\ Faults \subseteq {"sink", "build", "meter"}

(* configure_observability works through the signals in this order and     *)
(* shutdown_observability in the opposite one.                             *)
Signals == {"tracing", "metrics", "logging"}
Order == <<"tracing", "metrics", "logging">>

Boots == 1..MaxBoots

VARIABLES
  configured,  \* setup._configured
  current,     \* _tracer_provider, _meter_provider and _logger_provider
  global,      \* OpenTelemetry's set-once global provider of each signal
  live,        \* the providers of each signal that have not been shut down
  root,        \* the root logger's handlers: [boot, sink], by the boot whose
               \* service their lines name
  instrumented, \* LoggingInstrumentor has put trace ids on log records
  boots,       \* configure calls that got past the _configured check
  pc,          \* what each host is doing
  step,        \* the signal its configure or shutdown call is at
  boot,        \* the boot its build configured, 0 if it found one configured
  failed       \* history: the boots whose configure call raised

vars == <<configured, current, global, live, root, instrumented, boots, pc,
          step, boot, failed>>
logs == <<root, instrumented>>

Init ==
  /\ configured = FALSE
  /\ current = [s \in Signals |-> 0]
  /\ global = [s \in Signals |-> 0]
  /\ live = [s \in Signals |-> {}]
  /\ root = <<>>
  /\ instrumented = FALSE
  /\ boots = 0
  /\ pc = [h \in Hosts |-> "idle"]
  /\ step = [h \in Hosts |-> 0]
  /\ boot = [h \in Hosts |-> 0]
  /\ failed = {}

Goto(h, state) == pc' = [pc EXCEPT ![h] = state]
At(h, k) == step' = [step EXCEPT ![h] = k]

----------------------------------------------------------------------------
(* WebHostBuilder.build *)

(* configure_observability when the process is configured already. *)
BuildConfigured(h) ==
  /\ pc[h] = "idle" /\ configured
  /\ Goto(h, "composing")
  /\ boot' = [boot EXCEPT ![h] = 0]
  /\ UNCHANGED <<configured, current, global, live, logs, boots, step,
                 failed>>

(* Mutant: without the _configured check. *)
BuildFreshUnchecked(h) ==
  /\ pc[h] = "idle"
  /\ boots < MaxBoots
  /\ boots' = boots + 1
  /\ boot' = [boot EXCEPT ![h] = boots + 1]
  /\ Goto(h, "configuring") /\ At(h, 1)
  /\ UNCHANGED <<configured, current, global, live, logs, failed>>

(* Mutant: _configured is set before the providers are built. *)
BuildFreshFlagFirst(h) ==
  /\ pc[h] = "idle" /\ ~configured
  /\ boots < MaxBoots
  /\ boots' = boots + 1
  /\ boot' = [boot EXCEPT ![h] = boots + 1]
  /\ Goto(h, "configuring") /\ At(h, 1)
  /\ configured' = TRUE
  /\ UNCHANGED <<current, global, live, logs, failed>>

(* configure_observability when the process is not configured. *)
BuildFresh(h) ==
  /\ pc[h] = "idle" /\ ~configured
  /\ boots < MaxBoots
  /\ boots' = boots + 1
  /\ boot' = [boot EXCEPT ![h] = boots + 1]
  /\ Goto(h, "configuring") /\ At(h, 1)
  /\ UNCHANGED <<configured, current, global, live, logs, failed>>

(* A provider is constructed, kept in its module and offered to the        *)
(* set-once global, which ignores all but the first.                       *)
Install(s, b) ==
  /\ live' = [live EXCEPT ![s] = @ \cup {b}]
  /\ current' = [current EXCEPT ![s] = b]
  /\ global' = [global EXCEPT ![s] = IF @ = 0 THEN b ELSE @]

(* Mutant: logging configured as one more provider, the flag forgotten. *)
ConfigureProviderAll(h) ==
  /\ pc[h] = "configuring" /\ step[h] \in 1..3
  /\ Install(Order[step[h]], boot[h])
  /\ At(h, step[h] + 1)
  /\ UNCHANGED <<configured, logs, boots, pc, boot, failed>>

(* configure_tracing, configure_metrics. *)
ConfigureProvider(h) ==
  /\ pc[h] = "configuring" /\ step[h] \in {1, 2}
  /\ Install(Order[step[h]], boot[h])
  /\ At(h, step[h] + 1)
  /\ UNCHANGED <<configured, logs, boots, pc, boot, failed>>

Handlers(b, n) == [k \in 1..n |-> [boot |-> b, sink |-> Sinks[k]]]
OtlpHandler(b) == [boot |-> b, sink |-> "otlp"]

(* Mutant: handlers.clear() is left out. *)
AttachSinksToOthers(b, n) == root \o Handlers(b, n)

(* The root logger loses whatever handlers it has, and attach_sinks adds   *)
(* one for each configured sink; n of them before one raises.              *)
AttachSinks(b, n) == Handlers(b, n)

(* Mutant: _configured is never set. *)
ConfigureLoggingNoFlag(h) ==
  /\ pc[h] = "configuring" /\ step[h] = 3
  /\ root' = AttachSinks(boot[h], Len(Sinks))
  /\ UNCHANGED <<live, current, global>>
  /\ instrumented' = TRUE
  /\ Goto(h, "composing") /\ At(h, 0)
  /\ UNCHANGED <<configured, boots, boot, failed>>

(* configure_logging, then _configured = True.  The OTLP provider and its  *)
(* handler are built only when export is enabled.                          *)
ConfigureLogging(h) ==
  /\ pc[h] = "configuring" /\ step[h] = 3
  /\ LET attached == AttachSinks(boot[h], Len(Sinks)) IN
       \/ /\ Install("logging", boot[h])
          /\ root' = Append(attached, OtlpHandler(boot[h]))
       \/ root' = attached /\ UNCHANGED <<live, current, global>>
  /\ instrumented' = TRUE
  /\ configured' = TRUE
  /\ Goto(h, "composing") /\ At(h, 0)
  /\ UNCHANGED <<boots, boot, failed>>

(* One of the sinks is unknown, or its handler cannot be built: the sinks  *)
(* before it are attached, and the exception leaves build() from outside   *)
(* its try.                                                                *)
ConfigureRaises(h) ==
  /\ "sink" \in Faults
  /\ pc[h] = "configuring" /\ step[h] = 3
  /\ \E n \in 0..Len(Sinks) - 1 : root' = AttachSinks(boot[h], n)
  /\ Goto(h, "idle") /\ At(h, 0)
  /\ failed' = failed \cup {boot[h]}
  /\ UNCHANGED <<configured, current, global, live, instrumented, boots, boot>>

(* Services, container, pipeline and application are put together. *)
Compose(h) ==
  /\ pc[h] = "composing"
  /\ Goto(h, "built")
  /\ UNCHANGED <<configured, current, global, live, logs, boots, step,
                 boot, failed>>

----------------------------------------------------------------------------
(* shutdown_observability *)

(* Mutant: the log provider is left out of the shutdown. *)
BeginShutdownSkipsLogging(h) ==
  /\ IF configured
     THEN Goto(h, "stopping") /\ At(h, 2)
     ELSE Goto(h, "idle") /\ UNCHANGED step
  /\ UNCHANGED <<configured, current, global, live, logs, boots, boot,
                 failed>>

(* A call that finds nothing configured returns; any other starts at       *)
(* logging and works downwards.                                            *)
BeginShutdown(h) ==
  /\ IF configured
     THEN Goto(h, "stopping") /\ At(h, 3)
     ELSE Goto(h, "idle") /\ UNCHANGED step
  /\ UNCHANGED <<configured, current, global, live, logs, boots, boot,
                 failed>>

(* build() fails after configuring: its except clause undoes it. *)
ComposeRaises(h) ==
  /\ "build" \in Faults
  /\ pc[h] = "composing"
  /\ BeginShutdown(h)

(* The host is served; at the end of its lifespan it flushes. *)
Serve(h) ==
  /\ pc[h] = "built"
  /\ Goto(h, "serving")
  /\ UNCHANGED <<configured, current, global, live, logs, boots, step,
                 boot, failed>>

ServeEnds(h) ==
  /\ pc[h] = "serving"
  /\ BeginShutdown(h)

(* A host that is built and never served is not torn down. *)
Abandon(h) ==
  /\ pc[h] = "built"
  /\ Goto(h, "idle")
  /\ UNCHANGED <<configured, current, global, live, logs, boots, step,
                 boot, failed>>

(* shutdown_logging, shutdown_metrics, shutdown_tracing: the provider in   *)
(* the module global is shut down and the global cleared.  Logging takes   *)
(* its instrumentation back; all handlers stay on the root logger.         *)
ShutdownProvider(h) ==
  /\ pc[h] = "stopping" /\ step[h] > 0
  /\ LET s == Order[step[h]] IN
       /\ live' = [live EXCEPT ![s] = @ \ {current[s]}]
       /\ current' = [current EXCEPT ![s] = 0]
       /\ instrumented' = (instrumented /\ s # "logging")
  /\ At(h, step[h] - 1)
  /\ UNCHANGED <<configured, global, root, boots, pc, boot, failed>>

(* A reader fails in MeterProvider.shutdown: the provider is shut down all *)
(* the same, but the call ends there, with its global and _configured set. *)
ShutdownRaises(h) ==
  /\ "meter" \in Faults
  /\ pc[h] = "stopping" /\ step[h] = 2
  /\ current["metrics"] \in live["metrics"]
  /\ live' = [live EXCEPT !["metrics"] = @ \ {current["metrics"]}]
  /\ Goto(h, "idle") /\ At(h, 0)
  /\ UNCHANGED <<configured, current, global, logs, boots, boot, failed>>

ShutdownReturns(h) ==
  /\ pc[h] = "stopping" /\ step[h] = 0
  /\ configured' = FALSE
  /\ Goto(h, "idle")
  /\ UNCHANGED <<current, global, live, logs, boots, step, boot, failed>>

----------------------------------------------------------------------------
HostStep(h) ==
  \/ BuildConfigured(h) \/ BuildFresh(h)
  \/ ConfigureProvider(h) \/ ConfigureLogging(h) \/ ConfigureRaises(h)
  \/ Compose(h) \/ ComposeRaises(h)
  \/ Serve(h) \/ ServeEnds(h) \/ Abandon(h)
  \/ ShutdownProvider(h) \/ ShutdownRaises(h) \/ ShutdownReturns(h)

(* No host is being built or served: the process may end. *)
ProcessEnds ==
  /\ \A h \in Hosts : pc[h] = "idle"
  /\ UNCHANGED vars

Next == (\E h \in Hosts : HostStep(h)) \/ ProcessEnds

Spec == Init /\ [][Next]_vars

----------------------------------------------------------------------------
Handler == [boot : Boots, sink : {Sinks[k] : k \in DOMAIN Sinks} \cup {"otlp"}]

TypeOK ==
  /\ configured \in BOOLEAN
  /\ current \in [Signals -> {0} \cup Boots]
  /\ global \in [Signals -> {0} \cup Boots]
  /\ live \in [Signals -> SUBSET Boots]
  /\ root \in Seq(Handler)
  /\ instrumented \in BOOLEAN
  /\ boots \in {0} \cup Boots
  /\ pc \in [Hosts -> {"idle", "configuring", "composing", "built",
                       "serving", "stopping"}]
  /\ step \in [Hosts -> 0..3]
  /\ boot \in [Hosts -> {0} \cup Boots]
  /\ failed \subseteq Boots

InCall(h) == pc[h] \in {"configuring", "stopping"}
Settled == \A h \in Hosts : ~InCall(h)

(* A process that says it is configured has one boot's tracing and metrics *)
(* to shut down, and its tracing alive (setup.py:34-36, 61): whatever      *)
(* calls failed or were repeated before.                                   *)
ConfiguredIsWhole ==
  configured /\ (\A h \in Hosts : pc[h] # "stopping") =>
    /\ current["tracing"] \in live["tracing"]
    /\ current["metrics"] = current["tracing"]

(* What is logged then goes once to each configured sink, in their order,  *)
(* and to this boot's export if it has one: no handler of an earlier boot, *)
(* with its service's name or its dead exporter, is still there, nor what  *)
(* a configure call had attached when it raised (logging.py:38,            *)
(* sinks.py:32-43).                                                        *)
SinksOfThisBoot ==
  configured /\ (\A h \in Hosts : pc[h] # "stopping") =>
    LET b == current["tracing"] IN
    root \in {Handlers(b, Len(Sinks)),
              Append(Handlers(b, Len(Sinks)), OtlpHandler(b))}

(* Every provider that still runs is the one its module global holds, so   *)
(* that a shutdown can still reach it, and none runs once the process is   *)
(* not configured and no call is under way: no configure call overwrites   *)
(* the global of a running provider (setup.py:25-26, 79-83).  Only the     *)
(* providers of a configure call that raised half-way can be lost.         *)
NothingOrphaned ==
  \A s \in Signals :
    /\ live[s] \subseteq {current[s]} \cup failed
    /\ ~configured /\ Settled => live[s] \subseteq failed

(* A host that serves runs with observability configured, whatever became  *)
(* of the builds and shutdowns before (web_host_builder.py:82-85), and if  *)
(* its own build configured it, with providers that run and log records    *)
(* that carry trace ids.  This is a property of a process with one host:   *)
(* another one's shutdown, or its failed build, takes the providers away   *)
(* from a host that serves.                                                *)
ServingIsObserved ==
  \A h \in Hosts : pc[h] = "serving" =>
    /\ configured
    /\ boot[h] # 0 => /\ instrumented
                      /\ \A s \in {"tracing", "metrics"} : boot[h] \in live[s]

(* What the comment in build() says (web_host_builder.py:85-87) without    *)
(* that exception: a failed build leaves no global providers running.      *)
FailedBuildIsUndone ==
  ~configured /\ Settled => \A s \in Signals : live[s] = {}

(* What setup.py:3-4 promises of a second boot: a fresh configure, after   *)
(* which get_tracer and get_meter reach the providers it made.             *)
FreshConfigure ==
  configured /\ Settled =>
    \A s \in {"tracing", "metrics"} : global[s] = current[s]
=============================================================================
