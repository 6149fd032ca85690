----------------------------- MODULE Container -----------------------------
(***************************************************************************)
(* The dependency-injection container that build_container makes of a      *)
(* ServiceCollection (pepelats/dependency_injection): the APP container,   *)
(* the REQUEST scopes opened on it, and the tasks that call get.           *)
(*                                                                         *)
(* Dishka, the engine, is external.  What the adapter relies on: get looks *)
(* in the cache of the container a service belongs to, then resolves the   *)
(* constructor's parameters one after the other, then constructs; an       *)
(* instance that must be finalized goes on its container's stack of exits; *)
(* close pops that stack.  The APP container serves one get at a time, by  *)
(* an asyncio.Lock; a scope has no lock.                                   *)
(*                                                                         *)
(* asyncio switches tasks only where one suspends, and a get suspends only *)
(* while it waits for the lock or inside an asynchronous factory: `cpu` is *)
(* the task that runs in between.                                          *)
(***************************************************************************)
EXTENDS Naturals, Sequences, FiniteSets

CONSTANTS Services,   \* the registered types, numbered in dependency order
          Graphs,     \* the registrations considered, see GraphAssumption
          Root,       \* the APP container
          Scopes,     \* REQUEST scopes
          Tasks,      \* asyncio tasks that call get
          HomeOf,     \* the container whose provider each task uses
          MaxGets,    \* bound on the calls of get
          None        \* no task

(* add_singleton, add_factory with an async generator, add_hosted_service, *)
(* add_scoped, add_transient.  All the types are AsyncDisposable.          *)
Lifetimes == {"singleton", "factory", "hosted", "scoped", "transient"}
AppWide   == {"singleton", "factory", "hosted"}

Containers == {Root} \cup Scopes

(* Dishka validates the graph when the container is built: no cycle, and   *)
(* nothing APP-scoped depends on a REQUEST scope.                          *)
Valid(g) ==
  \A s \in Services : \A d \in g.needs[s] :
    d < s /\ (g.life[s] \in AppWide => g.life[d] \in AppWide)

ASSUME GraphAssumption ==
  /\ Services \subseteq Nat /\ IsFiniteSet(Services)
  /\ MaxGets \in Nat
  /\ HomeOf \in [Tasks -> Containers]
  /\ None \notin Tasks /\ Root \notin Scopes
  /\ \A g \in Graphs :
       g.life \in [Services -> Lifetimes]
         /\ g.needs \in [Services -> SUBSET Services] /\ Valid(g)

VARIABLES
  graph,      \* the registrations, which never change
  phase,      \* each container: "open", "closing" or "closed"
  cache,      \* each container's instance of a service, 0 for none
  exits,      \* each container's stack of instances to finalize
  instances,  \* everything constructed, see Instance
  stack,      \* each task's get: its frames, innermost last
  lock,       \* the task that holds the APP container's lock
  cpu,        \* the task that runs
  gets        \* calls of get so far

vars == <<graph, phase, cache, exits, instances, stack, lock, cpu, gets>>

Init ==
  /\ graph \in Graphs
  /\ phase = [c \in Containers |-> "open"]
  /\ cache = [c \in Containers |-> [s \in Services |-> 0]]
  /\ exits = [c \in Containers |-> <<>>]
  /\ instances = <<>>
  /\ stack = [t \in Tasks |-> <<>>]
  /\ lock = None
  /\ cpu = None
  /\ gets = 0

----------------------------------------------------------------------------
IsApp(s)   == graph.life[s] \in AppWide
Home(t, s) == IF IsApp(s) THEN Root ELSE HomeOf[t]

(* Mutant: what is not cached is not wrapped. *)
FinalizedCached(s) == graph.life[s] \notin {"hosted", "transient"}

(* A type is wrapped in a generator, and so finalized, by _register and by *)
(* a generator factory, not by add_hosted_service.                         *)
Finalized(s) == graph.life[s] # "hosted"

(* Mutant: only what is APP-scoped is cached. *)
CachedAppOnly(s) == graph.life[s] \in AppWide
Cached(s) == graph.life[s] # "transient"

(* A frame: the service, what get is at, the instances of its parameters. *)
Frame(s) == [of |-> s, at |-> "lookup", got |-> {}]
Idle(t)  == stack[t] = <<>>
Top(t)   == stack[t][Len(stack[t])]
Below(t) == SubSeq(stack[t], 1, Len(stack[t]) - 1)
Runs(t)  == cpu \in {t, None} /\ ~Idle(t)

Missing(f) ==
  {d \in graph.needs[f.of] : \A i \in f.got : instances[i].of # d}

Replace(t, f) == stack' = [stack EXCEPT ![t][Len(stack[t])] = f]

(* The innermost frame yields instance i.  The lock is released when the   *)
(* outermost APP-scoped frame is left.                                     *)
Return(t, i) ==
  LET rest == Below(t)
      n    == Len(rest)
  IN /\ stack' = [stack EXCEPT ![t] =
                    IF n = 0 THEN <<>> ELSE [rest EXCEPT ![n].got = @ \cup {i}]]
     /\ cpu' = IF n = 0 THEN None ELSE t
     /\ lock' = IF lock = t /\ (n = 0 \/ ~IsApp(rest[n].of)) THEN None ELSE lock

----------------------------------------------------------------------------
(* get *)

(* A provider goes on serving gets after its container was closed. *)
Get(t, s) ==
  /\ cpu = None /\ Idle(t)
  /\ IsApp(s) \/ HomeOf[t] # Root
  /\ gets < MaxGets
  /\ gets' = gets + 1
  /\ stack' = [stack EXCEPT ![t] = <<Frame(s)>>]
  /\ cpu' = t
  /\ UNCHANGED <<graph, phase, cache, exits, instances, lock>>

(* The task waits for the lock: another one is inside an APP-scoped get. *)
Wait(t) ==
  /\ cpu = t /\ Top(t).at = "lookup"
  /\ IsApp(Top(t).of) /\ lock \notin {t, None}
  /\ cpu' = None
  /\ UNCHANGED <<graph, phase, cache, exits, instances, stack, lock, gets>>

(* Mutant: the APP container is made without a lock. *)
LookupUnlocked(t) ==
  /\ Runs(t) /\ Top(t).at = "lookup"
  /\ LET s == Top(t).of
         i == cache[Home(t, s)][s]
     IN IF i # 0 THEN Return(t, i)
                 ELSE /\ Replace(t, [Top(t) EXCEPT !.at = "parameters"])
                      /\ cpu' = t /\ UNCHANGED lock
  /\ UNCHANGED <<graph, phase, cache, exits, instances, gets>>

(* The cache is consulted, under the lock if the service is APP-scoped. *)
Lookup(t) ==
  /\ Runs(t) /\ Top(t).at = "lookup"
  /\ IsApp(Top(t).of) => lock \in {t, None}
  /\ LET s == Top(t).of
         i == cache[Home(t, s)][s]
     IN IF i # 0
        THEN Return(t, i)
        ELSE /\ Replace(t, [Top(t) EXCEPT !.at = "parameters"])
             /\ lock' = IF IsApp(s) THEN t ELSE lock
             /\ cpu' = t
  /\ UNCHANGED <<graph, phase, cache, exits, instances, gets>>

(* The next parameter of the constructor is resolved. *)
Parameter(t) ==
  /\ Runs(t) /\ Top(t).at = "parameters"
  /\ \E d \in Missing(Top(t)) :
       /\ \A e \in Missing(Top(t)) : d <= e
       /\ stack' = [stack EXCEPT ![t] = Append(@, Frame(d))]
  /\ cpu' = t
  /\ UNCHANGED <<graph, phase, cache, exits, instances, lock, gets>>

(* An asynchronous factory awaits before it yields its instance. *)
FactoryAwaits(t) ==
  /\ Runs(t) /\ Top(t).at = "parameters" /\ Missing(Top(t)) = {}
  /\ graph.life[Top(t).of] = "factory"
  /\ Replace(t, [Top(t) EXCEPT !.at = "awaiting"])
  /\ cpu' = None
  /\ UNCHANGED <<graph, phase, cache, exits, instances, lock, gets>>

ReadyToConstruct(t) ==
  /\ Runs(t)
  /\ \/ Top(t).at = "awaiting"
     \/ /\ Top(t).at = "parameters" /\ Missing(Top(t)) = {}
        /\ graph.life[Top(t).of] # "factory"

(* The instance is there: its exit is registered, then it is cached. *)
Construct(t) ==
  /\ ReadyToConstruct(t)
  /\ LET s == Top(t).of
         c == Home(t, s)
         i == Len(instances) + 1
     IN /\ instances' = Append(instances,
              [of |-> s, home |-> c, uses |-> Top(t).got,
               late |-> phase[c] # "open", disposals |-> 0,
               contended |-> \E u \in Tasks \ {t} :
                               ~Idle(u) /\ HomeOf[u] = HomeOf[t]])
        /\ exits' = IF Finalized(s)
                    THEN [exits EXCEPT ![c] = Append(@, i)] ELSE exits
        /\ cache' = IF Cached(s) THEN [cache EXCEPT ![c][s] = i] ELSE cache
        /\ Return(t, i)
  /\ UNCHANGED <<graph, phase, gets>>

(* Mutant: the exit is registered before the constructor has run. *)
ConstructRaisesExitFirst(t) ==
  /\ ReadyToConstruct(t)
  /\ stack' = [stack EXCEPT ![t] = <<>>]
  /\ cpu' = None
  /\ lock' = IF lock = t THEN None ELSE lock
  /\ exits' = [exits EXCEPT ![Home(t, Top(t).of)] =
                 Append(@, Len(instances) + 1)]
  /\ UNCHANGED <<graph, phase, cache, instances, gets>>

(* Mutant: the lock is not released by an exception. *)
ConstructRaisesLocked(t) ==
  /\ ReadyToConstruct(t)
  /\ stack' = [stack EXCEPT ![t] = <<>>]
  /\ cpu' = None
  /\ UNCHANGED <<graph, phase, cache, exits, instances, lock, gets>>

(* The constructor or the factory raises, or the task is cancelled there:  *)
(* the whole get fails, what it has built by then stays.                   *)
ConstructRaises(t) ==
  /\ ReadyToConstruct(t)
  /\ stack' = [stack EXCEPT ![t] = <<>>]
  /\ cpu' = None
  /\ lock' = IF lock = t THEN None ELSE lock
  /\ UNCHANGED <<graph, phase, cache, exits, instances, gets>>

GetStep(t) ==
  \/ Wait(t) \/ Lookup(t) \/ Parameter(t) \/ FactoryAwaits(t)
  \/ Construct(t) \/ ConstructRaises(t)

----------------------------------------------------------------------------
(* close *)

(* A scope is left, or the host closes the APP container.  A get may be    *)
(* under way in either: of a task the handler did not wait for, or of a    *)
(* request that was cancelled.                                             *)
Close(c) ==
  /\ cpu = None /\ phase[c] = "open"
  /\ phase' = [phase EXCEPT ![c] = "closing"]
  /\ UNCHANGED <<graph, cache, exits, instances, stack, lock, cpu, gets>>

(* Mutant: finalizers run in the order of construction. *)
FinalizeOldest(c) ==
  /\ cpu = None /\ phase[c] = "closing" /\ exits[c] # <<>>
  /\ exits' = [exits EXCEPT ![c] = Tail(@)]
  /\ instances' = [instances EXCEPT ![Head(exits[c])].disposals = @ + 1]
  /\ UNCHANGED <<graph, phase, cache, stack, lock, cpu, gets>>

(* The youngest instance is popped and its dispose() runs; what it raises  *)
(* is kept for the end.                                                    *)
Finalize(c) ==
  /\ cpu = None /\ phase[c] = "closing" /\ exits[c] # <<>>
  /\ LET n == Len(exits[c]) IN
       /\ exits' = [exits EXCEPT ![c] = SubSeq(@, 1, n - 1)]
       /\ instances' = [instances EXCEPT ![exits[c][n]].disposals = @ + 1]
  /\ UNCHANGED <<graph, phase, cache, stack, lock, cpu, gets>>

(* The stack is empty.  Whether the cache is dropped is up to the engine.  *)
Closed(c) ==
  /\ cpu = None /\ phase[c] = "closing" /\ exits[c] = <<>>
  /\ phase' = [phase EXCEPT ![c] = "closed"]
  /\ cache' \in {cache, [cache EXCEPT ![c] = [s \in Services |-> 0]]}
  /\ UNCHANGED <<graph, exits, instances, stack, lock, cpu, gets>>

CloseStep(c) == Finalize(c) \/ Closed(c)

----------------------------------------------------------------------------
Finished ==
  /\ \A c \in Containers : phase[c] = "closed"
  /\ \A t \in Tasks : Idle(t)
  /\ UNCHANGED vars

Next ==
  \/ \E t \in Tasks : GetStep(t) \/ \E s \in Services : Get(t, s)
  \/ \E c \in Containers : Close(c) \/ CloseStep(c)
  \/ Finished

Spec == Init /\ [][Next]_vars

(* Fairness: a task that can go on does, a factory ends. *)
LiveSpec == Spec /\ \A t \in Tasks : WF_vars(GetStep(t))

----------------------------------------------------------------------------
Ids == 1..Len(instances)

(* late: built after its container began to close.  contended: another     *)
(* task of the same scope was inside a get when it was built.              *)
Instance(ids) ==
  [of : Services, home : Containers, uses : SUBSET ids, late : BOOLEAN,
   contended : BOOLEAN, disposals : Nat]

Frames(ids) ==
  [of : Services, at : {"lookup", "parameters", "awaiting"}, got : SUBSET ids]

TypeOK ==
  /\ graph \in Graphs
  /\ phase \in [Containers -> {"open", "closing", "closed"}]
  /\ cache \in [Containers -> [Services -> {0} \cup Ids]]
  /\ exits \in [Containers -> Seq(Ids)]
  /\ instances \in Seq(Instance(Ids))
  /\ stack \in [Tasks -> Seq(Frames(Ids))]
  /\ lock \in Tasks \cup {None}
  /\ cpu \in Tasks \cup {None}
  /\ gets \in 0..MaxGets

Made(s, c) ==
  {i \in Ids : /\ instances[i].of = s
               /\ instances[i].home = c
               /\ ~instances[i].late}

(* A singleton is constructed once in the life of the container, whichever *)
(* tasks and scopes ask for it first and at the same time                  *)
(* (test_service_collection.py:43-52 and 95-110 for one caller).           *)
SingletonOnce ==
  \A s \in Services : IsApp(s) => Cardinality(Made(s, Root)) <= 1

(* A scoped service is constructed once per scope, as long as the gets of  *)
(* that scope follow each other (test_service_collection.py:68-79).  Two   *)
(* that overlap may build it twice: the second misses the cache while the  *)
(* first waits for an APP-scoped parameter.                                *)
ScopedOnce ==
  \A c \in Scopes, s \in Services : graph.life[s] = "scoped" =>
    Cardinality({i \in Made(s, c) : ~instances[i].contended}) <= 1

(* When a container is closed, each disposable instance it has built was   *)
(* disposed, once: also those of a get that failed half-way, transient     *)
(* ones and those built for a parameter (async_disposable.py:9-13).  What  *)
(* a get adds while or after the container closes may be left behind, and  *)
(* a hosted service always is.                                             *)
DisposedOnce ==
  \A i \in Ids : LET x == instances[i] IN
    /\ x.disposals <= 1
    /\ phase[x.home] = "closed" /\ ~x.late /\ graph.life[x.of] # "hosted"
         => x.disposals = 1

(* No instance is disposed before one of its container that was built on   *)
(* it (async_disposable.py:11-12).                                         *)
DependentsFirst ==
  [][\A i \in Ids : instances'[i].disposals > instances[i].disposals =>
       \A j \in Ids :
         /\ i \in instances[j].uses
         /\ instances[j].home = instances[i].home
         /\ graph.life[instances[j].of] # "hosted"
         => instances[j].disposals > 0]_vars

(* Every get comes to an end: no failure, and no task that goes away in    *)
(* the middle of an APP-scoped get, leaves the others waiting for the lock *)
(* (service_provider.py:50-52).                                            *)
GetEnds == \A t \in Tasks : ~Idle(t) ~> Idle(t)
=============================================================================
