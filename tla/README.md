# A verification development for pepelats

pepelats is a small Python framework for hosting services: it loads
configuration, builds a dependency-injection container (Dishka), assembles an
ASGI application (Starlette or FastAPI), serves it with uvicorn next to a set of
background services, and tears everything down in a fixed order. This directory
models it in TLA+, checks the models with TLC and proves the central safety
properties with TLAPS. Paths below are relative to `src/src/pepelats/`.

Contents: 1 inventory, 2 modules and how they correspond to the code, 3 what each
run checks, 4 bounds, 5 fairness, 6 proofs, 7 disagreements found, 8 what is not
modelled, 9 plan.

## 1. Inventory

**Host lifecycle** (`hosting/host_lifecycle.py`, `hosted_services.py`,
`background_service.py`). State: the host task, one asyncio task per background
service, the shared `stopping` event, the finalizers the container owes.
Operations: resolve the services, create their tasks, run the caller's body,
set `stopping`, wait for the tasks with a timeout, cancel, close the container,
flush observability on a thread. Hard: services return, crash, hang or swallow
cancellation in any order against the timeout; the host task may be cancelled at
any await; startup, `dispose()` and the flush may fail. Correct when no layer is
torn down while one above it is in use, services get their grace period, every
finalizer and the flush run, and teardown ends.

**Web host and server** (`hosting/web_host.py`, and the lifespan built by
`hosting/web_host_builder.py:148-171`). uvicorn accepts requests while the
lifespan is at its yield, drains them on a signal within
`timeout_graceful_shutdown`, then ends the lifespan. Hard: requests in flight
against teardown; a second signal. Correct when requests live inside the body.

**HTTP request scope** (`hosting/http_di.py`, `hosting/middleware/`). One REQUEST
scope per connection, left on every way out of the handler; correct when its
finalizers run and nothing it resolved is taken away earlier.

**Observability** (`observability/*.py`). State: `_configured`, three module
globals, OpenTelemetry's set-once globals, the root logger's handlers. Operations:
configure and shut down, from `build()`, a failed `build()` and the lifecycle.
Hard: partial failure of either, several boots or hosts in one process. Correct
when every provider that runs can be shut down and a configured process is whole.

**Web host builder** (`hosting/web_host_builder.py`). Records configurators, then
`build()` runs them once, with observability configured first and undone on
failure.

**Dependency injection** (`dependency_injection/*.py`). State: registrations; per
scope a cache and a stack of exits. Operations: register, build the container,
enter a scope, get, close. Hard: shared dependencies between scopes, failing
constructors and finalizers, concurrent `get` in one scope. Correct when singletons
are built once, and every disposable is disposed once, after what was built on it.

**Pipeline** (`hosting/pipeline.py`, `hosting/middleware/`). A list of middleware,
stably sorted by order around three built-ins (instrumentation, exception logging,
request scope). Hard: ties, middleware added to the application outside the pipeline,
exceptions and cancellations anywhere. Correct when what a middleware relies on is
outside it, and an exception is logged once, inside its span.

**FastAPI integration** (`integrations/fastapi/*.py`). Rewrites endpoint signatures
so that injected parameters are resolved from the request's scope at call time. Hard: a
route is rewritten again when its router is included; one parameter of several cannot be
resolved; the request itself is one of the arguments. Correct when the endpoint gets
exactly the arguments it declares.

**Configuration loading** (`configuration/appsettings_*.py`,
`configuration_loader.py`, `dynaconf_loader.py`). Picks the base file, the
environment, the overlay; layers base, overlay, `.env` and process environment.
Hard: case and extension ambiguities; the environment is resolved before `.env` is
read, which itself changes `os.environ`.

**Configuration binding and bootstrap** (`configuration/configuration.py`,
`section_coercion.py`, `hosting/host_bootstrap.py`). Pure functions from raw
sections to models: key casing, index dicts to lists, nested models, required sections.
Hard: two spellings of one name, and sections that are read twice by different rules.
Correct when every reading is the one a declarative description of the section gives.

Interactions: `build()` configures observability, fills a `ServiceCollection`, builds
the container, the pipeline and the application, and hands container and service
types to the lifespan; `run()` lets uvicorn drive that lifespan; the lifespan runs
`run_host_lifecycle`, which resolves from the container, closes it and shuts
observability down; each request opens a child scope of the same container. The
hazards of each part, at their lines, are in `PROJECT.json`.

## 2. Modules

| module | models | notes |
|---|---|---|
| `HostTeardown` | the promise of the teardown order | abstract: workers, finalizers, telemetry |
| `HostLifecycle` | `run_host_lifecycle` and what it awaits | implements `HostTeardown` |
| `MCHostLifecycle` | instances for TLC | |
| `HostLifecycle_proofs` | theorems about `HostLifecycle` | |
| `WebHost` | uvicorn, requests and scopes around the lifecycle | EXTENDS `HostLifecycle` |
| `MCWebHost` | instances for TLC | |
| `WebHost_proofs` | theorems about `WebHost` | EXTENDS `HostLifecycle_proofs` |
| `Observability` | process-wide providers and log handlers, and the hosts that drive them | |
| `MCObservability` | instances for TLC | |
| `Observability_proofs` | theorems about `Observability` with one host | |
| `RouteInjection` | the rewriting of an endpoint and the call of its wrapper | operators only |
| `RouteInjection_proofs` | theorems about those operators | |
| `RequestPipeline` | `build()`'s assembly, the layers of middleware, connections through them | EXTENDS `RouteInjection` |
| `MCRequestPipeline` | instances for TLC | |
| `RequestPipeline_proofs` | theorems about `RequestPipeline` | EXTENDS `RouteInjection_proofs` |
| `Container` | registrations, APP and REQUEST containers, the tasks that call `get` | |
| `MCContainer` | instances for TLC | |
| `Container_proofs` | theorems about `Container` | |
| `Configuration` | `load_configuration` and the host's bootstrap, over several loads | |
| `MCConfiguration` | instances for TLC | |
| `Configuration_proofs` | theorems about `Configuration` | |
| `SectionBinding` | sections to models, and the bootstrap that reads them | |
| `MCSectionBinding` | instances for TLC | |
| `SectionBinding_proofs` | theorems about `SectionBinding` | |

**HostLifecycle.** `host` names the await at which the host task is suspended:
an action is what it does between two awaits, which is atomic under asyncio.
`resolving` is `container.get` in the loop at line 46, `entering`/`serving`/
`leaving` the body (the application lifespan's startup, the yield, its shutdown),
`stopping` the `wait_for` at 91, `closing` the `dispose()` of one resource inside
`container.close()` at 53, `flushing` the `to_thread` at 59. `task[i]` is the state
of the task that runs `BackgroundService.start`: `created` (not yet run),
`running`, `unwinding` (CancelledError has reached `execute_async`), then
`returned`, `crashed` (logged, swallowed) or `cancelled`. `cancel` holds the tasks
whose CancelledError has been requested and not delivered. `owed` counts the
finalizers on the APP scope's stack; which resource each belongs to is left to
the container's own module. `telemetry` goes `up`, `flushing`, `down`; the thread
that flushes is an actor of its own, since it outlives a host task that is
cancelled there. `raised`, `timedOut` and `forced` record what happened; the
properties use them to say "unless".

Python's rules are part of the model: `wait_for` on a `gather` cancels every task
when it expires and raises only after all have ended (so that the `task.cancel()`
loop and second `gather` at 101-103 find none running); cancelling the host while
it waits cancels the tasks and still waits for them; a task cancelled before its
first step never enters `start()`. `Faults` says which failures an instance allows.

**WebHost** adds the server's state, two requests with their scopes, and
uvicorn's rules (external, from how `run()` configures it): drain, window, second
signal, cancellation of what is left by `asyncio.run`. `LifespanShutdown` is the
only way the host leaves `serving`, other than cancellation. A request is `open`
in its handler, `closing` in the exit of its scope; `scoped` counts the finalizers
it owes; `doomed` is `cancel` for requests. A request ends `done`, when its scope has been left, or
`cut`, when a cancellation struck in the scope's exit (`CancelFinalizer`): the finalizer that was
awaited and those below it are lost. A handler's resolution of an
APP-scoped resource is bounded only by the handler's own state: nothing in the code
stops a cancelled handler from resolving from a closed container. `TeardownUnderServer` is
`HostTeardown` again, with the requests among its workers: the host is up while one comes, and
every scope has been left before the first finalizer runs, up to and including the step that leaves
requests behind.

**Observability** numbers providers by the configure call that made them.
`current` are the module globals, `global` OpenTelemetry's set-once globals, `live`
the providers not shut down. `root` are the handlers on the root logger, each with the
boot whose service it names: `configure_logging` empties the list and attaches one per
configured sink and one for export, a sink that fails leaves those before it, and a
shutdown leaves them all (only the instrumentation of log records is taken back). Each
host goes through build (configuring signal by signal, then composing), serve and
shutdown (signal by signal, in the opposite order); failures strike at the log
sinks, in the composition, and in the meter provider's shutdown.

**Container.** `graph` is what a `ServiceCollection` has recorded: each service's
lifetime and the parameters of its constructor, fixed once the container is built.
For each container (`Root`, and the REQUEST scopes) there are its `phase`, its
`cache` and its stack of `exits`; `instances` is everything that was ever constructed, with
the instances it was built from. `stack[t]` is the `get` of task `t`: a stack of frames, each a
service that is at `lookup` (the cache), `parameters` (resolved one after the other,
each by a frame of its own) or `awaiting` (inside an asynchronous factory).
asyncio switches tasks only where one suspends, that is in `Wait` (the APP
container's lock is held by another) and after `FactoryAwaits`: `cpu` is the task that
runs until then, so that a `get` without such a point is not interleaved with anything.
`ConstructRaises` is a constructor that fails and a task that is cancelled in it: the frames
go, the lock is released, what was built stays in cache and exits. `Close` and
`Finalize` are `enter_scope`'s exit and the lifecycle's `container.close()`.
`add_hosted_service` registers a type as it is, without the generator that
`_register` wraps an `AsyncDisposable` in (`Finalized`). Dishka is not in the
repository; cache, lock and stack are modelled from what the adapter relies on, and where
that leaves a choice (whether a closed container drops its cache) the model takes both. Two
fields of an instance say "unless": `late`, built after its container had begun to
close, and `contended`, built while another task of its scope was inside a `get`.

**Configuration.** A load is one synchronous call, hence one step: `RejectLoad`
(no base file, ambiguous stems, an environment that is blank or cannot be read), `BreakLoad` (a
file does not parse, found when Dynaconf has already copied `.env` into `os.environ`) or
`CompleteLoad`. `NewBuilder` is `WebHostBuilder.__init__`, a load and the bootstrap's
required sections. Between loads `.env` is edited and variables of the process are set and
deleted. File contents are the set of settings a file defines; the value of a
setting is the sequence of files or the variable it came from. A name is a word, its
casing and whether blanks surround it: this keeps exactly what `strip`, `lower` and the
comparison of stems tell apart. `exports` and `touched` are history: the variables
no load has put there, and whether anything was edited since the last load.

**RouteInjection and RequestPipeline.** A parameter is its name, its kind and what its annotation
is to InjectRoute; `Inject` is `_inject` on such a list, and `Supplied`, `FindsConnection`,
`WithoutHidden`, `Binds` follow the arguments of one call from FastAPI (external) through the
wrapper to Python's own binding. `Kept` is the filter of `_inject`'s comprehensions: the library's
`SelectSeq` would do for TLC, but the provers know nothing of it (the run evaluates an
assumption, `KeptIsSelectSeq`, that the two agree). `Declarable` is what the model takes for granted of an
endpoint: a signature Python accepts, no name that InjectRoute reserves, and a `**` parameter that is
FastAPI's. A program is the middleware an application registers,
through `configure_pipeline` with an order or on the application in `configure_api`, and an endpoint.
`recorded` holds the configurators of the pipeline and of the application that the builder has so far, and
`Build` makes an application of them; its `layers` stay in the
order of registration, and `Outside` says which of two is further out: by order, the earlier
of two at the same order (`sorted` is stable), and whatever `configure_api` adds before all
of them, since `add_middleware` inserts at the front. Each connection has the set of layers whose
`__call__` is under way (`inside`), and goes in, through the wrapper and the endpoint, and out,
one layer at a time, with the outcome that is on its way: a result, an exception, a
cancellation. Two connections meet in what they could share: the provider that is
published (`published`) and the container its scope was made from (`root`).
Middleware of the application may answer, raise, swallow, and resolve services on the way in
and out. `Cancel` strikes where the connection's task awaits: on the way in, in the endpoint, in a
middleware on its way out; `CutScope` is a cancellation in the exit of the scope, which leaves what is
not yet disposed of where it is. An exit that is not cut is one step (`LeaveScope`), with or without an
exception from a finalizer; its order is in `Container`, its single finalizers in `WebHost`. The
wrapper's `get` of a parameter may build what that one needs (`BuildNeeded`) and then fail or be
cancelled. `late` marks what was resolved from a scope that had been left, `cut` a scope whose exit
was broken off, `under` an exception or cancellation that was raised inside the logging layer.

**SectionBinding.** A dict is the sequence of its items, because insertion order decides
which of two spellings wins; a key is a word with its casing, or a number. `Coerce` and
`CoerceField` follow `section_coercion.py`; the machine around them is
`load_host_bootstrap`, one step per section, and what the application gets afterwards.
`Agrees` states the result without an order of work: the property compares the two.
What the code does by recursion the model does by depth: `Values[n]` are the values nested at
most `n` deep, `Coerced[n]` and `Agreeing[n]` the coercion and the agreement on those, each from
`n - 1`. Whatever part of a value raises a ValueError, the whole does (`Failed`). The names of the models the
bootstrap reads are constants of the code (`ServiceConfig`, `ServerConfig`, `HostConfig`), and
`BindingAssumption` says of them what `service_config.py`, `server_config.py` and `host_config.py` do: the first
two have fields of plain values only, the third a server and a timeout.

An operator marked `Mutant` in a comment is a plausible wrong version of the
definition that follows it; it belongs to no specification, and serves to show
that a property notices that mistake (`PROJECT.json`, `mutants`).

## 3. Runs

| run | question | answer |
|---|---|---|
| `lifecycle` | does any mix of faults break the teardown order, grace period, disposal or flush, and is `HostTeardown` implemented? | no |
| `lifecycle_dispose_raises` | is the flush reached when a `dispose()` raises? | **no**, see 7 |
| `web_host` | do requests stay inside the body, do scopes (those of cancelled requests included) and container end empty, and does a signal bring the host down with hanging handlers and services that ignore `stopping`? | yes, unless the window ends or the exit is forced; also then a scope keeps finalizers only when its exit itself is cut |
| `web_host_drain` | do APP resources outlive the requests that may hold them? | **no**, see 7 |
| `observability` | can providers be lost, log lines go to an earlier boot's handlers, or a serving host be unobserved, over four boots with failures? | only providers of a configure call that raised are lost |
| `observability_failed_build` | does a failed build leave nothing running? | **no**, see 7 |
| `observability_reboot` | does a second boot reach the providers it made? | **no**, see 7 |
| `container` | do overlapping, failing gets and closes break caching, disposal or its order, or block a task for good? | no, with the two exceptions below |
| `request_pipeline` | wherever middleware is registered and whatever raises or is cancelled, does code find its own open scope, is each exception logged once with its span, is what was resolved disposed of, and does an endpoint get its arguments? | yes, with the exceptions below |
| `configuration` | over three loads and two edits, do settings follow the documented precedence, do files fit, is a reload the same? | yes, as long as `.env` does not set `ENVIRONMENT` |
| `configuration_dotenv_environment` | does an `ENVIRONMENT` in `.env` name the environment? | **no**, see 7 |
| `section_binding` | is what a model is validated from what the section says, in every casing and order? | yes; the bootstrap's own readings differ when a name is spelled twice |

The properties, each with its reason and the lines it is about, are stated in
comments above their definitions. The ones that carry most:

- `NoServiceAtClose`, `TeardownOrder`: nothing is torn down while in use;
- `GracePeriod`: no service is cancelled before stopping was set and the timeout
  has expired, except when the process is forced to exit;
- `DisposedUnlessCut`, `FlushedUnlessFailed`: every way out disposes and flushes,
  with the exceptions the code really has: a cancellation inside `close()` or the
  flush, and an exception from either;
- `ServedInWindow`, `NothingLeaked`: the server's drain composes with the
  lifecycle's teardown;
- `NothingOrphaned`, `SinksOfThisBoot`: no telemetry provider runs that no shutdown will
  reach, and no handler of an earlier boot gets a line;
- `ScopeReachable`: a middleware at `REQUEST_SCOPE` or further in, and every endpoint, find their own
  connection's open scope, of their own application's container;
- `ResolvedIsDisposed`: what a connection resolves is disposed of when it ends with a result, an
  exception or a cancellation, including what was built for a parameter that could not be resolved in
  the end. There are two exceptions: a CancelledError in the scope's exit itself cuts the disposal
  short, and what a middleware *outside* the scope resolves after the scope was left stays behind, as
  `request_services` still returns the provider then;
- `ScopeFinalized`: the same against the server's shutdown, finalizer by finalizer: a request that is
  cancelled in its handler runs all of them, and only an expired window or a forced exit can cut the
  exit of a scope;
- `FailureLogged`: an exception from inside the logging layer is logged exactly once, with
  the request's span, and a cancellation that struck inside it never. Middleware of `configure_api` is
  always outside;
- `CalledComplete`, `BuildsAgree`: rewriting a route twice (`include_router` makes it
  anew from its wrapper) and building twice add nothing. `CalledComplete` is about endpoints that declare
  at most one plain `Request`; see 7 for the others;
- `BoundAsDeclared`, `HostReadings`, `InstanceIdGenerated`: the binding, and the two places that
  bind by hand. The timeout that the bootstrap reads from `[host]` by itself is the first of two
  spellings, where binding the section takes the last one;
- `DisposedOnce`, `DependentsFirst`, `ScopedOnce`: what disposal and caching promise,
  with the exceptions the code really has: an instance that a `get` adds while its container
  closes may be left behind, and two gets of one request that overlap on an
  asynchronous APP-scoped factory may build a scoped service twice, since
  a request's container has no lock;
- `Precedence`, `ReloadStable`: the layers end in the documented order whatever earlier
  loads have left in `os.environ`.

## 4. Bounds

- `N = 3` services registered at most (2 for liveness), from none upwards in the
  same run: two services already interleave, the third shows that the position in
  the list does not matter. Two names make duplicates possible and avoidable.
- `AppResources = 2`: one finalizer that fails or is cut, and one below it.
- `Requests` has two members, each with up to two scoped finalizers: one request
  may be cancelled in its handler while the other is in its scope's exit. There is one
  APP-scoped resource there, since a handler may resolve it again as long as it runs; several
  are in the lifecycle's own run.
- `MaxBoots = 4` configure calls: a failed one, one whose shutdown fails, one that
  starts from what these leave, and one more. It is the only artificial bound on a
  counter (`boots < MaxBoots` in `BuildFresh`). A process with a single host is
  checked; see hazards for two hosts.
- `Container`: three services of which each needs all the earlier ones, with every
  valid choice of lifetimes, so that parameters are shared, a scoped service needs an
  APP-scoped one and a disposal order of three is possible; a hosted service is nobody's
  parameter, hence last. Two tasks of one scope and the host's own: the smallest set in
  which tasks of one scope, and of two containers, compete for lock and cache.
  `MaxGets = 2` calls of `get` in all: what a call leaves behind is met by one other, during or
  after it. Three calls with three services are out of reach in the time of a run.
- `Configuration`: one environment of interest ("prod") in three casings and two suffixes,
  the default one, base files that are missing, ambiguous, broken, or
  lack a section, a scalar and a list setting; `MaxLoads = 3`, `MaxEdits = 2`: a load, an edit,
  a load that meets what the first left, and once more.
- `RequestPipeline`: two middleware of the application, at 50 (outside everything), 100, 200, 300 (the
  built-in orders, where ties matter) or added by `configure_api`, in any order; or any endpoint of up to
  two parameters of three kinds and five kinds of annotation; or two connections side by side.
  `MaxBuilds = 2`: a build that fails or succeeds, and one after it. A third middleware adds no new
  pair, and the properties are about pairs of layers.
- `SectionBinding`: dicts of up to three keys, so that a name can be spelled twice with another item
  between, and index dicts that mix `"1"`, `"01"`, `10`, the number 1, a digit `int` rejects, and a word.
  `Depth = 4`: a section, an index dict in it, an item of that, and the item's own values; no model of
  the run nests deeper, and the proofs take any depth.
- There is no clock: a timeout or a graceful window may end at any moment while it
  is being waited for, an over-approximation that includes windows of zero.

## 5. Fairness

Liveness is checked under weak fairness of what the event loop schedules: host
steps that are ready, the shutdown timer, delivery of a cancellation, the flush
thread (bounded by `export_timeout_seconds` per export), and that application
code the framework awaits without a timeout (the lifespan's shutdown,
`dispose()`) comes back. A running service is *not* assumed to return, nor to
heed `stopping`; a request handler is not assumed to return at all. A service that
has received CancelledError is assumed to end: the code has no answer to one that
does not (`asyncio` offers none), so `web_host` leaves the fault
`stubborn` out, while `lifecycle` includes it. `Serve` and `ShutdownRequested` are
not fair in `HostLifecycle`: a host may serve for ever. In `WebHost` the server polls its own state
(`Drained`, `WindowExpires`, `LifespanShutdown`, `ServerExits` are fair). In
`Container` a task inside a `get` that can go on does, and a factory that is awaited
ends or raises (`WF` of `GetStep` per task): with that, `GetEnds` says that no
order of the tasks leaves one waiting for the lock. `Configuration` has no liveness;
there the process may stop at any time, so deadlock is not checked. `RequestPipeline` and
`SectionBinding` have no liveness either: an endpoint need not return.

## 6. Proofs

Every invariant that a passing run checks is a theorem for all values of the
constants; so is every action property, and the refinement of `HostTeardown`, by the lifecycle
alone and under a server. The proofs rest on the named assumption of each module
(`ConstantsAssumption`, `WebAssumption`, `ObservabilityAssumption`, `GraphAssumption`,
`ConfigurationAssumption`, `PipelineAssumption`, `BindingAssumption`), which TLC evaluates for its
instances, and on nothing else. Few of the properties are inductive alone. What follows
says, module by module, what has to be added, since that is where the reasons are.

### `HostLifecycle_proofs`

For every number of services, every set of names, any number of resources and any set of
faults: `TypeOK`, `NoServiceAtClose`, `GracePeriod`, `BodyWindow`, `DisposedUnlessCut`,
`FlushedUnlessFailed`, `TeardownOrder`, and the refinement `ImplementsTeardown`. `Inv` is `Core`,
which is type correctness and the first three of these parts, and `OwedInv`:

- `TaskInv`: which tasks exist at each await. Tasks are created all at once by the
  last `Resolve`, so inside the body every registered service has one; a
  CancelledError is only on its way to a task that has not ended; from `closing`
  on none is alive. The step into `closing` is guarded by "all ended"
  (`ServicesStopped`), or comes from `resolving` (no task exists yet) or from a body
  without services (no task is ever created): this is where the three facts meet.
- `StopInv`: `timedOut` implies `stopping`, and `stopping` is only set
  once the body is left, so that only a forced exit cancels a service that was not asked to stop.
- `CloseInv`: `closing` has a finalizer left, telemetry is up before the flush,
  and `cut` is only ever set on the way to `done`.
- `OwedInv`: nothing is owed once the flush has begun. It stands apart because it is true
  only as long as nobody else uses the container.

For the refinement, `Phase` collapses `host` and `ActiveWorkers` is the services alive
plus worker 0 for the caller's body; every action is a `Build`, `Depart`, `TakeDown` or
`FlushEnds`, or changes none of the four.

### `WebHost_proofs`

For any set of requests and any number of resources, scoped or not: `WebTypeOK`, `ServedInWindow`,
`ScopeFinalized`, `NothingLeaked`; the lifecycle's own promises under a server
(`LifecycleUnderServer`); and `ResourcesKept`, no finalizer runs while a request is under way.

The argument composes the two. As long as neither the window nor a forced exit has left requests
behind (`Undisturbed`), each step of the server is a step of `HostLifecycle` or leaves
its variables alone, but for a request that builds an APP-scoped resource, which only happens at
`serving` (`WindowInv`). Then `OwedInv` carries over. After that a request may build
such a resource behind `close()`, and `OwedInv` is false; `Core` does not mention what is owed,
and holds in any case. This is why the invariant was split, and why `LifecycleUnderServer` holds
without the hypothesis and `DisposedUnlessCut` is not part of it.

`RefinementUnderServer` is the same argument for `HostTeardown`: each undisturbed step of the lifecycle
maps to the step it maps to without a server (`RefineStep` of the other module), because no request
is there when the host winds up (`AmongRequests`); a request that is accepted is a `Build`, one that
leaves its scope a `Depart`, and any other step of a request or of the server a stutter or a `Build`
of a resource. It puts in order what `ServedInWindow` and `NothingLeaked` say of single states; no run
checks it beside those.

### `Observability_proofs`

For a process with one host, every number of boots, every sequence of sinks and any set of faults:
`TypeOK`, `ConfiguredIsWhole`, `SinksOfThisBoot`, `NothingOrphaned`, `ServingIsObserved`. One host is a
hypothesis of each theorem (`Hosts = {h}`), not of the module: with two hosts a build
can find `_configured` false while another host's is half-way, and a shutdown takes
down what the other host serves with; TLC finds all of them but `TypeOK` false there.

The properties speak of a process between two calls; what makes them inductive is what
each call has done so far:

- `HostInv`: what the host's own configure call is worth at each `pc`. While it
  configures the process is not configured yet; once it has, the providers of its boot
  run until it begins to stop.
- `WholeInv`: the providers that are there, step by step through configure and shutdown.
  The order of the two calls matters: shutdown works downwards from logging, so
  tracing is the last to go.
- `LostInv`: `Gone` names the signals a call has not reached yet or has dealt with
  already; no provider of theirs runs, but for those of failed calls. A provider is
  therefore never overwritten while it runs: `Install` only meets signals that are gone.

### `Container_proofs`

For any registrations whose graph Dishka accepts, any number of scopes, tasks and gets: `TypeOK`,
`SingletonOnce`, `ScopedOnce`, `DisposedOnce` and `DependentsFirst`.

- `StackInv`: the frames of a `get` descend in the order of the graph, so that no service is twice
  on one stack, and whatever is needed by an APP-scoped service is APP-scoped.
- `LockInv`: an APP-scoped service that has been missed in the cache and not yet constructed
  (`Building`) is so in the task that holds the lock, and the cache still lacks it. Between look-up
  and construction, then, nobody else can construct it.
- `CacheInv`: an instance that must be the only one is in its container's cache until that
  begins to close. For a scoped service there is no lock, and the invariant says instead that
  no task of the scope is building another; `contended` marks where that fails.
- `OnceInv`: two such instances are one, which `LockInv` and `CacheInv` keep true when a third is made.
- `ExitInv`, `DisposalInv`: a stack of exits ascends in the order of construction,
  what an instance uses was constructed before it, and whatever is not yet disposed of is on its stack.
  Disposal takes the top, hence dependents before what they were built on.

### `Configuration_proofs`

For any settings, directories, `.env` files and variables, any number of loads and edits:
`TypeOK`, `Precedence`, `FilesFit`, `ReadyIsBacked`, `EnvironKept`, `ReloadStable`. A load leaves
`.env`'s variables in `os.environ`, where the next load cannot tell them from exported ones:

- `EnvironInv`: a variable that no load has put there has its exported value, and any other
  setting there is `.env`'s. With `LayeredFacts`, which says what the layers give a single key, this is
  precedence after any history.
- `StableInv`: `Result` is what a load gives as a function of the state, and unless something was
  edited what is loaded is that function of the present state. Its own effect on `os.environ`
  does not change it, as long as `.env` does not set `ENVIRONMENT` (see 7 for when it does).

### `RouteInjection_proofs`, `RequestPipeline_proofs`

*The rewriting* (`RouteRewritten`, `ConventionalCall`), for every declarable list of parameters. After
the route is declared and its router included, the function is the one that was declared, the signature
has the parameters that are not injected and no other but the hidden ones, in an order Python accepts, and
the injected ones are what the wrapper resolves. The provers have no induction over operators; but
`Kept` is a recursive function over places, its values form a set, and `SetInduction` is induction for
a set, from the library's theorem on minimal elements. `KeptPlaces` is the single fact that is proved so:
an increasing function leads from the places of the result onto the places that were kept. Every
other lemma on signatures follows from it without induction.

*The layers*, for any configurators and endpoint, any number of builds and of connections: `TypeOK`,
`ScopeReachable`, `FailureLogged`, `ResolvedIsDisposed`, `CalledComplete`, `BuildsAgree`. `BuilderInv`
says what an application is: the three built-in layers at the first three places, then one layer for
each configurator recorded (`WellBuilt`). `ConnInv` is about each connection:

- `Placed`: the layers around it are nested, what is entered has all that is outside it around
  it. `Enter` takes a layer outside of which nothing is left to enter, `Leave` one inside of which nothing
  is left; that these keep the nesting needs `Outside` to lead one way only (`OutsideOneWay`). With the orders
  100, 200 and 300 it follows that the request scope is within the logging layer, and that within the span.
- `ScopeInv`: the scope is open exactly while its layer is around the connection; what it has to dispose of
  was resolved in it, came late, or was left there by an exit that was cut; and what came late came from a
  middleware outside the scope (`RunsOutside`: where the scope's layer is not around a layer, that one is
  further out, since `Outside` orders any two).
- `LogInv`: nothing is logged until the logging layer is left, and then one entry, if what passed was an
  exception raised inside it; a cancellation raised inside it leaves no entry.

A second invariant, `CallsInv`, follows one call: the arguments are what FastAPI supplies for the
rewritten signature and the names resolved so far, and when all are there `ConventionalCall` makes it a call
that binds. It needs the first invariant and not the other way round, so they are proved one after the other.

### `SectionBinding_proofs`

For any models, configurations, requests and depth: `BoundAsDeclared`, `InstanceIdGenerated`,
`HostReadings`; and `CoercionAgrees`, that coercion gives for every value and every annotation what
the declarative `Agreeing` asks for. The state invariant is the easy half: `Read` says that what is held
at each step is the coercion of its section. What that coercion comes to is about data:

- The recursive functions of the module are functions of a depth, and the library's theorem on those
  unfolds them (`ValuesAt`, `CoercedAt`, `AgreeingAt`, `AssignAllAt`); `Values` grows with the
  depth (`ValuesGrow`). Induction over values becomes induction over a number.
- `AssignAllFacts`: a dict assigned item by item has each key once, with its last value. With
  `LastSpelling` and `OthersKept` it gives which of two spellings ends in a model's field, and
  that a key which is nobody's field is left as it was.
- `OrderExists` and `RankedSorted`: the items of an index dict can be put in order, and the
  one at place `k` is the one that `k - 1` others precede, which is how the declarative side says it.
- `CoercedFits`: coercion makes nothing deeper, so that `Depth` is enough for the result, too.
  It comes before `CoercionRight`, which is agreement by induction on the depth.
- `PlainBound`, `GeneratedBound`, `HostBound`: the readings of the bootstrap. A section read
  as a model of plain values never fails (`PlainMade`); the generated instance id
  decides its field unless the section spells the name twice, in lower case first; and the host's
  timeout read by itself is the first spelling of it (`FirstOf`), in the whole model the last.

### Only model-checked

- Liveness (`TeardownEnds`, `GetEnds`, and the server's): TLAPS does not reason about `ENABLED`,
  hence not about fairness.
- The properties of the runs that end in a violation: they are false.

## 7. Disagreements between the code and its documentation

1. *A failing `dispose()` skips the flush* (`lifecycle_dispose_raises`).
   `container.close()` runs all finalizers, then raises what they raised; the
   exception leaves the `finally` at `host_lifecycle.py:53`, and line 59 is not
   reached. The docstring (7-8) and comment (43-44) promise the flush without
   exception. Telemetry of the shutdown is lost and `_configured` stays true.
2. *A cancelled request may outlive the resources it uses* (`web_host_drain`).
   When the graceful window ends, uvicorn cancels the requests, does not await
   them, and ends the lifespan. A handler whose cleanup awaits, or a scope's own
   `dispose()`, runs on while the container closes. `async_disposable.py:11-12`:
   "the container calls `dispose` once nothing depends on it". The trace needs a
   request that has received its CancelledError and is still unwinding when the
   first APP-scoped finalizer runs.
3. *A build that fails in its log sinks leaves providers running*
   (`observability_failed_build`). `configure_observability` is outside the `try` of
   `build()`, and sets `_configured` last, so that not even a call of
   `shutdown_observability` would help. `web_host_builder.py:85-87` promises
   "a failed build leaves no global providers running".
4. *A second boot is not a fresh configure* (`observability_reboot`). OpenTelemetry's
   globals accept one provider per process, so `get_tracer` and `get_meter` keep
   returning the first boot's, which is shut down. `setup.py:3-4` says otherwise.
5. *An `ENVIRONMENT` in `.env` comes too late* (`configuration_dotenv_environment`). The
   environment is resolved (`configuration_loader.py:22`) before Dynaconf copies
   `.env` into `os.environ` (28), so the load that reads it goes by the base file or the
   default, and the next load in the process by `.env`. The repository's `README.md:36-42`
   lists `.env` above the base file and `ENVIRONMENT` before its `environment` key.

Met while reading, and not checked by a run of its own:

- `add_hosted_service` (`service_collection.py:117`) does not go through `_register`, so a
  background service that implements `AsyncDisposable` is never finalized, although
  `async_disposable.py:7-13` says "disposal is detected from this contract". `Container` models it, and its
  properties leave hosted services out.
- A request that is cancelled in the exit of its scope leaves the finalizers below that point undisposed
  (`http_di.py:45-47`, `service_provider.py:58`: the container's exit awaits one `dispose()` after the
  other and collects exceptions, not a CancelledError), although `async_disposable.py:7-13` makes no
  exception. Both models have it (`CutScope`, `CancelFinalizer`).
- `route_injection.py:5-6` says that `RequestProvider` makes `Request` and `WebSocket` resolvable by
  type; line 38 declares `Request` only.
- `README.md:88` says that the bootstrap requires `[observability]`; `host_bootstrap.py:82-85` takes
  defaults when it is missing.
- An endpoint that is a plain `def` with an `Inject[T]` runs on the event loop, and the wrapper then
  awaits its result (`route_injection.py:66`): its work is done and the request fails. The model
  has it (`BlocksLoop`).
- An endpoint that declares `Annotated[Request, ...]`, or a subclass, beside `Inject[T]` is not
  recognized (`route_injection.py:109`), and FastAPI gives the request to the hidden parameter.
- An index dict for a list of plain values, such as `LOGGING__SINKS__0`, is not turned into a list
  (`section_coercion.py:76`: only lists of models are).

## 8. Not modelled

`PROJECT.json` lists every component with its status. Out of scope for good: value
validation (pydantic), route matching and OpenAPI (FastAPI), export and batching
inside OpenTelemetry, log formatting, file parsing, a signal that kills the
process without teardown, a second `run()` of one host (what Dishka makes of a closed container), loggers
that structlog has cached (`logging.py:70`), the levels of overridden loggers, the spelling rule of
`section_names.py`, endpoints with `*args` or defaults. Dishka, uvicorn, asyncio and OpenTelemetry are modelled
from how the code uses them, and marked external in the map. Two hosts in one
process share `_configured` without any protection; the model allows it
(`Hosts` with two members) and its invariants then fail, which no document of the
repository contradicts.

## 9. Plan

Order: what can hurt a running host first, pure functions last.

1. *Done.* `HostTeardown`, `HostLifecycle` and its proofs; `Observability`;
   `WebHost`.
2. *Done.* `Container` and `Configuration`, with their proofs.
3. *Done.* `RouteInjection` and `RequestPipeline`, with their proofs; the log side of
   `Observability` and its proofs.
4. *Done.* `SectionBinding`, with the bootstrap and its proofs.
5. *Done.* `WebHost_proofs`: the lifecycle's invariant under a server, and the refinement of
   `HostTeardown` with the requests among its workers.
6. Left: what no property covers yet (`PROJECT.json`, `hazards` with a note) needs state that is not
   modelled, structlog's cached loggers and a container that is used after its host is done; and
   liveness, which the provers cannot reason about.
