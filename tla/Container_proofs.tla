-------------------------- MODULE Container_proofs --------------------------
(***************************************************************************)
(* Proofs about Container, for any registrations whose graph Dishka        *)
(* accepts, any number of scopes and of tasks in them, and any number of   *)
(* gets.                                                                   *)
(*                                                                         *)
(* That a service is built once is a matter of what may happen between a   *)
(* look-up that misses the cache and the construction: for an APP-scoped   *)
(* service nothing, because of the lock, for a scoped one anything another *)
(* task of its scope does.  That an instance is disposed once, and after   *)
(* those built on it, is a matter of the order of the exits: it is that of *)
(* the constructions, and an instance is younger than all it uses.         *)
(***************************************************************************)
EXTENDS Container, TLAPS, SequenceTheorems, FiniteSetTheorems

(* The frames of a get: each is of a parameter of the one below it, so the *)
(* services descend, and what an APP-scoped service needs is APP-scoped.   *)
StackInv ==
  \A t \in Tasks : \A k, l \in 1..Len(stack[t]) : k < l =>
    /\ stack[t][l].of < stack[t][k].of
    /\ IsApp(stack[t][k].of) => IsApp(stack[t][l].of)

(* Task t has missed the cache for s and not yet constructed it. *)
Building(t, s) ==
  \E k \in 1..Len(stack[t]) : stack[t][k].of = s /\ stack[t][k].at # "lookup"

(* An APP-scoped service is under construction in the task that holds the  *)
(* lock, and not in the cache.                                             *)
LockInv ==
  \A t \in Tasks, s \in Services :
    IsApp(s) /\ Building(t, s) => lock = t /\ cache[Root][s] = 0

(* Until its container begins to close, an instance that must be the only  *)
(* one is in the cache; and if it is of a scope, no get of the scope is    *)
(* about to build another.                                                 *)
CacheInv ==
  \A i \in Ids, s \in Services, c \in Containers :
    instances[i].of = s /\ instances[i].home = c =>
    /\ IsApp(s) => c = Root
    /\ phase[c] = "open" =>
         /\ IsApp(s) => cache[Root][s] = i
         /\ graph.life[s] = "scoped" /\ ~instances[i].contended =>
              /\ cache[c][s] = i
              /\ \A u \in Tasks : HomeOf[u] = c => ~Building(u, s)

OnceInv ==
  \A i, j \in Ids :
    LET x == instances[i]  y == instances[j] IN
    /\ x.of = y.of /\ x.home = y.home /\ ~x.late /\ ~y.late
    /\ \/ IsApp(x.of)
       \/ graph.life[x.of] = "scoped" /\ ~x.contended /\ ~y.contended
    => i = j

(* The stack of exits holds what is still to be disposed of, in the order  *)
(* of construction; once it has been emptied, only what came too late.     *)
ExitInv ==
  \A c \in Containers : \A k \in 1..Len(exits[c]) :
    LET x == instances[exits[c][k]] IN
    /\ x.home = c /\ x.disposals = 0 /\ graph.life[x.of] # "hosted"
    /\ phase[c] = "closed" => x.late
    /\ \A l \in 1..Len(exits[c]) : k < l => exits[c][k] < exits[c][l]

DisposalInv ==
  \A i \in Ids :
    LET x == instances[i] IN
    /\ x.disposals <= 1
    /\ \A j \in x.uses : j < i
    /\ graph.life[x.of] # "hosted" /\ x.disposals = 0 =>
         \E k \in 1..Len(exits[x.home]) : exits[x.home][k] = i

Inv ==
  TypeOK /\ StackInv /\ LockInv /\ CacheInv /\ OnceInv /\ ExitInv /\ DisposalInv

----------------------------------------------------------------------------
(* What a step does to the frames of the tasks. *)

LEMMA PopSeq ==
  ASSUME NEW S, NEW s \in Seq(S), s # <<>>
  PROVE  /\ Len(s) - 1 \in Nat
         /\ SubSeq(s, 1, Len(s) - 1) \in Seq(S)
         /\ Len(SubSeq(s, 1, Len(s) - 1)) = Len(s) - 1
         /\ \A k \in 1..(Len(s) - 1) : SubSeq(s, 1, Len(s) - 1)[k] = s[k]
<1> DEFINE n == Len(s) - 1
<1>1. n \in Nat
  BY EmptySeq
<1>2. \A k \in 1..n : s[k] \in S
  BY <1>1, ElementOfSeq
<1> HIDE DEF n
<1>3. /\ SubSeq(s, 1, n) \in Seq(S)
      /\ Len(SubSeq(s, 1, n)) = IF 1 <= n THEN n - 1 + 1 ELSE 0
      /\ \A k \in 1..(n - 1 + 1) : SubSeq(s, 1, n)[k] = s[1 + k - 1]
  BY <1>1, <1>2, SubSeqProperties
<1>4. /\ SubSeq(s, 1, n) \in Seq(S)
      /\ Len(SubSeq(s, 1, n)) = n
      /\ \A k \in 1..n : SubSeq(s, 1, n)[k] = s[k]
  BY <1>1, <1>3
<1> QED
  BY <1>1, <1>4 DEF n

LEMMA ReplaceShape ==
  ASSUME NEW ids, stack \in [Tasks -> Seq(Frames(ids))],
         NEW t \in Tasks, ~Idle(t), NEW f \in Frames(ids), Replace(t, f)
  PROVE  /\ stack' \in [Tasks -> Seq(Frames(ids))]
         /\ \A u \in Tasks \ {t} : stack'[u] = stack[u]
         /\ Len(stack'[t]) = Len(stack[t])
         /\ \A k \in 1..Len(stack[t]) :
              stack'[t][k] = IF k = Len(stack[t]) THEN f ELSE stack[t][k]
<1>1. /\ stack[t] \in Seq(Frames(ids))
      /\ Len(stack[t]) \in 1..Len(stack[t])
  BY EmptySeq DEF Idle
<1>2. stack' = [stack EXCEPT ![t] = [stack[t] EXCEPT ![Len(stack[t])] = f]]
  BY DEF Replace
<1> DEFINE new == [stack[t] EXCEPT ![Len(stack[t])] = f]
<1>3. /\ new \in Seq(Frames(ids)) /\ Len(new) = Len(stack[t])
      /\ \A k \in 1..Len(stack[t]) :
           new[k] = IF k = Len(stack[t]) THEN f ELSE stack[t][k]
  BY <1>1, ExceptSeq
<1> HIDE DEF new
<1> QED
  BY <1>2, <1>3 DEF new

LEMMA PushShape ==
  ASSUME NEW ids, stack \in [Tasks -> Seq(Frames(ids))],
         NEW t \in Tasks, NEW f \in Frames(ids),
         stack' = [stack EXCEPT ![t] = Append(@, f)]
  PROVE  /\ stack' \in [Tasks -> Seq(Frames(ids))]
         /\ \A u \in Tasks \ {t} : stack'[u] = stack[u]
         /\ Len(stack'[t]) = Len(stack[t]) + 1
         /\ stack'[t][Len(stack[t]) + 1] = f
         /\ \A k \in 1..Len(stack[t]) : stack'[t][k] = stack[t][k]
<1>1. stack[t] \in Seq(Frames(ids))
  OBVIOUS
<1>2. stack' = [stack EXCEPT ![t] = Append(stack[t], f)]
  OBVIOUS
<1> QED
  BY <1>1, <1>2, AppendProperties

LEMMA ReturnShape ==
  ASSUME NEW ids, stack \in [Tasks -> Seq(Frames(ids))],
         NEW t \in Tasks, ~Idle(t), NEW i \in ids, Return(t, i)
  PROVE  /\ stack' \in [Tasks -> Seq(Frames(ids))]
         /\ \A u \in Tasks \ {t} : stack'[u] = stack[u]
         /\ Len(stack'[t]) = Len(stack[t]) - 1
         /\ \A k \in 1..(Len(stack[t]) - 1) :
              /\ stack'[t][k].of = stack[t][k].of
              /\ stack'[t][k].at = stack[t][k].at
<1> DEFINE n == Len(stack[t]) - 1
           rest == SubSeq(stack[t], 1, n)
           new == IF n = 0 THEN <<>> ELSE [rest EXCEPT ![n].got = @ \cup {i}]
<1>1. stack[t] \in Seq(Frames(ids)) /\ Len(stack[t]) \in Nat /\ n \in Nat
  BY EmptySeq, LenProperties DEF Idle
<1>2. \A k \in 1..n : stack[t][k] \in Frames(ids)
  BY <1>1, ElementOfSeq
<1>3. /\ rest \in Seq(Frames(ids)) /\ Len(rest) = n
      /\ \A k \in 1..n : rest[k] = stack[t][k]
  BY <1>1, PopSeq DEF Idle
<1>4. stack' = [stack EXCEPT ![t] = new]
  BY <1>3 DEF Return, Below
<1>5. /\ new \in Seq(Frames(ids)) /\ Len(new) = n
      /\ \A k \in 1..n : new[k].of = stack[t][k].of /\ new[k].at = stack[t][k].at
  <2>1. CASE n = 0
    <3> HIDE DEF rest, n
    <3>1. new = <<>>
      BY <2>1, Zenon
    <3> HIDE DEF new
    <3> QED
      BY <2>1, <3>1, EmptySeq
  <2>2. CASE n # 0
    <3> DEFINE f == [rest[n] EXCEPT !.got = @ \cup {i}]
    <3>1. n \in 1..Len(rest)
      BY <1>1, <1>3, <2>2
    <3>2. rest[n] \in Frames(ids)
      BY <1>2, <1>3, <3>1
    <3>3. f \in Frames(ids) /\ f.of = rest[n].of /\ f.at = rest[n].at
      BY <3>2 DEF Frames
    <3>4. new = [rest EXCEPT ![n] = f]
      BY <2>2
    <3> HIDE DEF new, f, rest, n
    <3>5. /\ new \in Seq(Frames(ids)) /\ Len(new) = Len(rest)
          /\ \A k \in 1..Len(rest) : new[k] = IF k = n THEN f ELSE rest[k]
      BY <1>3, <3>1, <3>3, <3>4, ExceptSeq
    <3> QED
      BY <1>3, <3>1, <3>3, <3>5
  <2> QED
    BY <2>1, <2>2
<1> QED
  BY <1>4, <1>5

----------------------------------------------------------------------------
(* Type correctness. *)

(* What Dishka's validation of the graph gives. *)
LEMMA GraphFacts ==
  ASSUME TypeOK, NEW s \in Services
  PROVE  /\ s \in Nat
         /\ graph.life[s] \in Lifetimes
         /\ graph.needs[s] \in SUBSET Services
         /\ \A d \in graph.needs[s] : d < s /\ (IsApp(s) => IsApp(d))
BY GraphAssumption DEF TypeOK, Valid, IsApp

LEMMA TopFacts ==
  ASSUME TypeOK, NEW t \in Tasks, ~Idle(t)
  PROVE  /\ Len(stack[t]) \in Nat \ {0}
         /\ Top(t) \in Frames(Ids)
         /\ Top(t).of \in Services
         /\ Home(t, Top(t).of) \in Containers
<1>1. stack[t] \in Seq(Frames(Ids)) /\ HomeOf[t] \in Containers
  BY GraphAssumption DEF TypeOK
<1>2. Len(stack[t]) \in Nat \ {0}
  BY <1>1, EmptySeq DEF Idle
<1>3. Top(t) \in Frames(Ids)
  BY <1>1, <1>2, ElementOfSeq DEF Top
<1> QED
  BY <1>1, <1>2, <1>3 DEF Frames, Home, Containers

LEMMA FrameType ==
  ASSUME NEW s \in Services, NEW ids
  PROVE  Frame(s) \in Frames(ids)
BY DEF Frame, Frames

LEMMA InstanceFacts ==
  ASSUME TypeOK
  PROVE  /\ Len(instances) \in Nat
         /\ \A i \in Ids : instances[i] \in Instance(Ids)
<1>1. instances \in Seq(Instance(Ids))
  BY DEF TypeOK
<1> QED
  BY <1>1, LenProperties, ElementOfSeq DEF Ids

(* The types, with room for one more instance. *)
LEMMA MoreIds ==
  ASSUME TypeOK, NEW ids, Ids \subseteq ids
  PROVE  /\ exits \in [Containers -> Seq(ids)]
         /\ cache \in [Containers -> [Services -> {0} \cup ids]]
         /\ instances \in Seq(Instance(ids))
         /\ stack \in [Tasks -> Seq(Frames(ids))]
<1>1. Instance(Ids) \subseteq Instance(ids) /\ Frames(Ids) \subseteq Frames(ids)
  BY DEF Instance, Frames
<1>2. ASSUME NEW c \in Containers
      PROVE  exits[c] \in Seq(ids)
  BY SeqMonotonic DEF TypeOK
<1>3. ASSUME NEW t \in Tasks
      PROVE  stack[t] \in Seq(Frames(ids))
  BY <1>1, SeqMonotonic DEF TypeOK
<1>4. instances \in Seq(Instance(ids))
  BY <1>1, SeqMonotonic DEF TypeOK
<1>5. cache \in [Containers -> [Services -> {0} \cup ids]]
  BY DEF TypeOK
<1> QED
  BY <1>2, <1>3, <1>4, <1>5 DEF TypeOK

LEMMA ReturnRest ==
  ASSUME TypeOK, NEW t \in Tasks, NEW i, Return(t, i)
  PROVE  lock' \in Tasks \cup {None} /\ cpu' \in Tasks \cup {None}
BY DEF Return, TypeOK

LEMMA ConstructType ==
  ASSUME TypeOK, NEW t \in Tasks, Construct(t)
  PROVE  /\ TypeOK'
         /\ Ids' = Ids \cup {Len(instances) + 1}
         /\ Len(instances) + 1 \notin {0} \cup Ids
         /\ \A j \in Ids : instances'[j] = instances[j]
         /\ \A i : i = Len(instances) + 1 =>
              /\ instances'[i].of = Top(t).of
              /\ instances'[i].home = Home(t, Top(t).of)
              /\ instances'[i].uses = Top(t).got /\ Top(t).got \subseteq Ids
              /\ instances'[i].disposals = 0
              /\ instances'[i].late <=> phase[Home(t, Top(t).of)] # "open"
              /\ instances'[i].contended <=>
                   \E u \in Tasks \ {t} : ~Idle(u) /\ HomeOf[u] = HomeOf[t]
<1> DEFINE s == Top(t).of
           c == Home(t, s)
           i == Len(instances) + 1
           ids == 1..i
           x == [of |-> s, home |-> c, uses |-> Top(t).got,
                 late |-> phase[c] # "open", disposals |-> 0,
                 contended |-> \E u \in Tasks \ {t} :
                                 ~Idle(u) /\ HomeOf[u] = HomeOf[t]]
<1>1. ~Idle(t) /\ Return(t, i) /\ UNCHANGED <<graph, phase, gets>>
  BY DEF Construct, ReadyToConstruct, Runs
<1>2. /\ instances' = Append(instances, x)
      /\ exits' = IF Finalized(s) THEN [exits EXCEPT ![c] = Append(@, i)] ELSE exits
      /\ cache' = IF Cached(s) THEN [cache EXCEPT ![c][s] = i] ELSE cache
  BY DEF Construct
<1>3. s \in Services /\ c \in Containers /\ Top(t).got \in SUBSET Ids
  BY <1>1, TopFacts DEF Frames
<1>4. Len(instances) \in Nat /\ Ids \subseteq ids /\ i \in ids
  BY InstanceFacts DEF Ids
<1>5. /\ exits \in [Containers -> Seq(ids)]
      /\ cache \in [Containers -> [Services -> {0} \cup ids]]
      /\ instances \in Seq(Instance(ids))
      /\ stack \in [Tasks -> Seq(Frames(ids))]
  BY <1>4, MoreIds
<1>6. x \in Instance(ids)
  BY <1>3, <1>4 DEF Instance
<1> HIDE DEF s, c, i, ids, x
<1>7. /\ instances' \in Seq(Instance(ids))
      /\ Len(instances') = Len(instances) + 1
      /\ \A j \in Ids : instances'[j] = instances[j]
      /\ instances'[Len(instances) + 1] = x
  BY <1>2, <1>5, <1>6, AppendProperties DEF Ids
<1>8. Ids' = ids
  BY <1>7 DEF Ids, ids, i
<1>9. exits' \in [Containers -> Seq(ids)]
  <2>1. Append(exits[c], i) \in Seq(ids)
    BY <1>3, <1>4, <1>5, AppendProperties
  <2> QED
    BY <1>2, <1>5, <2>1
<1>10. cache' \in [Containers -> [Services -> {0} \cup ids]]
  BY <1>2, <1>3, <1>4, <1>5
<1>11. stack' \in [Tasks -> Seq(Frames(ids))]
  BY <1>1, <1>4, <1>5, ReturnShape
<1>12. TypeOK'
  BY <1>1, <1>7, <1>8, <1>9, <1>10, <1>11, ReturnRest DEF TypeOK
<1>13. ids = Ids \cup {Len(instances) + 1} /\ Len(instances) + 1 \notin {0} \cup Ids
  BY <1>4 DEF ids, i, Ids
<1>14. /\ x.of = s /\ x.home = c /\ x.uses = Top(t).got /\ x.disposals = 0
       /\ x.late <=> phase[c] # "open"
       /\ x.contended <=> \E u \in Tasks \ {t} :
                            ~Idle(u) /\ HomeOf[u] = HomeOf[t]
  BY DEF x
<1> QED
  BY <1>3, <1>7, <1>8, <1>12, <1>13, <1>14 DEF s, c

LEMMA FinalizeType ==
  ASSUME TypeOK, NEW c \in Containers, Finalize(c)
  PROVE  /\ TypeOK'
         /\ Len(exits[c]) \in Nat \ {0}
         /\ exits[c][Len(exits[c])] \in Ids
         /\ Ids' = Ids
         /\ \A j \in Ids :
              instances'[j] = IF j = exits[c][Len(exits[c])]
                              THEN [instances[j] EXCEPT !.disposals = @ + 1]
                              ELSE instances[j]
         /\ \A d \in Containers \ {c} : exits'[d] = exits[d]
         /\ Len(exits'[c]) = Len(exits[c]) - 1
         /\ \A k \in 1..(Len(exits[c]) - 1) : exits'[c][k] = exits[c][k]
<1> DEFINE n == Len(exits[c])
           i == exits[c][n]
           x == [instances[i] EXCEPT !.disposals = @ + 1]
<1>1. /\ exits[c] # <<>>
      /\ exits' = [exits EXCEPT ![c] = SubSeq(exits[c], 1, n - 1)]
      /\ instances' = [instances EXCEPT ![i] = x]
      /\ UNCHANGED <<graph, phase, cache, stack, lock, cpu, gets>>
  BY DEF Finalize
<1>2. exits[c] \in Seq(Ids) /\ n \in Nat \ {0}
  BY <1>1, EmptySeq DEF TypeOK
<1>3. i \in Ids
  BY <1>2, ElementOfSeq
<1>4. /\ SubSeq(exits[c], 1, n - 1) \in Seq(Ids)
      /\ Len(SubSeq(exits[c], 1, n - 1)) = n - 1
      /\ \A k \in 1..(n - 1) : SubSeq(exits[c], 1, n - 1)[k] = exits[c][k]
  BY <1>1, <1>2, PopSeq
<1>5. instances \in Seq(Instance(Ids)) /\ instances[i] \in Instance(Ids)
  BY <1>3, InstanceFacts DEF TypeOK
<1>6. x \in Instance(Ids)
  <2>1. \A y \in Instance(Ids) :
          [y EXCEPT !.disposals = @ + 1] \in Instance(Ids)
    BY DEF Instance
  <2> QED
    BY <1>5, <2>1
<1> HIDE DEF n, i, x
<1>7. /\ instances' \in Seq(Instance(Ids)) /\ Len(instances') = Len(instances)
      /\ \A j \in Ids : instances'[j] = IF j = i THEN x ELSE instances[j]
  BY <1>1, <1>3, <1>5, <1>6, ExceptSeq DEF Ids
<1>8. Ids' = Ids
  BY <1>7 DEF Ids
<1>9. exits' \in [Containers -> Seq(Ids)]
  BY <1>1, <1>4 DEF TypeOK
<1>10. TypeOK'
  BY <1>1, <1>7, <1>8, <1>9 DEF TypeOK
<1>11. ASSUME NEW j \in Ids
       PROVE  instances'[j] = IF j = i
                              THEN [instances[j] EXCEPT !.disposals = @ + 1]
                              ELSE instances[j]
  BY <1>7 DEF x
<1>12. /\ \A d \in Containers \ {c} : exits'[d] = exits[d]
       /\ Len(exits'[c]) = n - 1
       /\ \A k \in 1..(n - 1) : exits'[c][k] = exits[c][k]
  BY <1>1, <1>4 DEF TypeOK
<1> QED
  BY <1>2, <1>3, <1>8, <1>10, <1>11, <1>12 DEF n, i

(* The two ways a look-up ends. *)
LEMMA LookupCases ==
  ASSUME TypeOK, NEW t \in Tasks, Lookup(t)
  PROVE  LET s == Top(t).of IN
         /\ ~Idle(t) /\ (IsApp(s) => lock \in {t, None})
         /\ UNCHANGED <<graph, phase, cache, exits, instances, gets>>
         /\ \/ cache[Home(t, s)][s] \in Ids /\ Return(t, cache[Home(t, s)][s])
            \/ /\ cache[Home(t, s)][s] = 0
               /\ Replace(t, [Top(t) EXCEPT !.at = "parameters"])
               /\ [Top(t) EXCEPT !.at = "parameters"] \in Frames(Ids)
               /\ lock' = IF IsApp(s) THEN t ELSE lock
               /\ cpu' = t
<1>1. ~Idle(t)
  BY DEF Lookup, Runs
<1>2. /\ Top(t) \in Frames(Ids) /\ Top(t).of \in Services
      /\ Home(t, Top(t).of) \in Containers
  BY <1>1, TopFacts
<1>3. cache[Home(t, Top(t).of)][Top(t).of] \in {0} \cup Ids
  BY <1>2 DEF TypeOK
<1>4. [Top(t) EXCEPT !.at = "parameters"] \in Frames(Ids)
  BY <1>2 DEF Frames
<1> QED
  BY <1>1, <1>3, <1>4 DEF Lookup

LEMMA ParameterCases ==
  ASSUME TypeOK, NEW t \in Tasks, Parameter(t)
  PROVE  /\ ~Idle(t) /\ cpu' = t
         /\ UNCHANGED <<graph, phase, cache, exits, instances, lock, gets>>
         /\ \E d \in graph.needs[Top(t).of] \cap Services :
              stack' = [stack EXCEPT ![t] = Append(@, Frame(d))]
<1>1. ~Idle(t) /\ Missing(Top(t)) \subseteq graph.needs[Top(t).of]
  BY DEF Parameter, Runs, Missing
<1>2. graph.needs[Top(t).of] \subseteq Services
  BY <1>1, TopFacts, GraphFacts
<1> QED
  BY <1>1, <1>2 DEF Parameter

LEMMA TypeStep ==
  ASSUME TypeOK, [Next]_vars
  PROVE  TypeOK'
<1>1. ASSUME NEW t \in Tasks, Wait(t)
      PROVE  TypeOK'
  BY <1>1 DEF Wait, TypeOK, Ids, Instance, Frames
<1>2. ASSUME NEW t \in Tasks, Lookup(t)
      PROVE  TypeOK'
  <2>1. stack \in [Tasks -> Seq(Frames(Ids))]
    BY DEF TypeOK
  <2>2. /\ ~Idle(t) /\ UNCHANGED <<graph, phase, cache, exits, instances, gets>>
        /\ \/ \E i \in Ids : Return(t, i)
           \/ /\ \E f \in Frames(Ids) : Replace(t, f)
              /\ lock' \in {t, lock} /\ cpu' = t
    BY <1>2, LookupCases
  <2>3. CASE \E i \in Ids : Return(t, i)
    BY <2>1, <2>2, <2>3, ReturnShape, ReturnRest DEF TypeOK, Ids
  <2>4. CASE /\ \E f \in Frames(Ids) : Replace(t, f)
             /\ lock' \in {t, lock} /\ cpu' = t
    BY <2>1, <2>2, <2>4, ReplaceShape DEF TypeOK, Ids
  <2> QED
    BY <2>2, <2>3, <2>4
<1>3. ASSUME NEW t \in Tasks, Parameter(t)
      PROVE  TypeOK'
  <2>1. stack \in [Tasks -> Seq(Frames(Ids))]
    BY DEF TypeOK
  <2> QED
    BY <1>3, <2>1, ParameterCases, FrameType, PushShape DEF TypeOK, Ids
<1>4. ASSUME NEW t \in Tasks, FactoryAwaits(t)
      PROVE  TypeOK'
  <2>1. /\ ~Idle(t) /\ Replace(t, [Top(t) EXCEPT !.at = "awaiting"]) /\ cpu' = None
        /\ UNCHANGED <<graph, phase, cache, exits, instances, lock, gets>>
    BY <1>4 DEF FactoryAwaits, Runs
  <2>2. [Top(t) EXCEPT !.at = "awaiting"] \in Frames(Ids)
    BY <2>1, TopFacts DEF Frames
  <2>3. stack' \in [Tasks -> Seq(Frames(Ids))]
    BY <2>1, <2>2, ReplaceShape DEF TypeOK
  <2> QED
    BY <2>1, <2>3 DEF TypeOK, Ids
<1>5. ASSUME NEW t \in Tasks, ConstructRaises(t)
      PROVE  TypeOK'
  <2>1. stack' \in [Tasks -> Seq(Frames(Ids))]
    BY <1>5, EmptySeq DEF ConstructRaises, TypeOK
  <2> QED
    BY <1>5, <2>1 DEF ConstructRaises, TypeOK, Ids
<1>6. ASSUME NEW t \in Tasks, NEW s \in Services, Get(t, s)
      PROVE  TypeOK'
  <2>1. <<Frame(s)>> \in Seq(Frames(Ids))
    BY FrameType
  <2>2. stack' \in [Tasks -> Seq(Frames(Ids))]
    BY <1>6, <2>1 DEF Get, TypeOK
  <2>3. gets' \in 0..MaxGets
    BY <1>6, GraphAssumption DEF Get, TypeOK
  <2> QED
    BY <1>6, <2>2, <2>3 DEF Get, TypeOK, Ids
<1>7. ASSUME NEW c \in Containers, Close(c)
      PROVE  TypeOK'
  BY <1>7 DEF Close, TypeOK, Ids
<1>8. ASSUME NEW c \in Containers, Closed(c)
      PROVE  TypeOK'
  BY <1>8 DEF Closed, TypeOK, Ids
<1>9. CASE Finished \/ UNCHANGED vars
  BY <1>9 DEF Finished, vars, TypeOK, Ids
<1> QED
  BY <1>1, <1>2, <1>3, <1>4, <1>5, <1>6, <1>7, <1>8, <1>9, ConstructType,
     FinalizeType DEF Next, GetStep, CloseStep

----------------------------------------------------------------------------
(* The frames of a get. *)

(* A step leaves a frame where it was, perhaps with one more parameter; or *)
(* finds that its service is not cached; or pushes a new one.              *)
Kept(u, k) ==
  /\ k \in 1..Len(stack[u])
  /\ stack'[u][k].of = stack[u][k].of
  /\ stack'[u][k].at # "lookup" => stack[u][k].at # "lookup"

Missed(u, s) ==
  /\ ~Idle(u) /\ Top(u).of = s /\ Top(u).at = "lookup"
  /\ cache[Home(u, s)][s] = 0
  /\ IsApp(s) => lock \in {u, None}
  /\ lock' = IF IsApp(s) THEN u ELSE lock
  /\ UNCHANGED <<graph, phase, cache, exits, instances>>

Pushed(u, k) ==
  /\ k = Len(stack[u]) + 1
  /\ stack'[u][k].at = "lookup"
  /\ k > 1 => stack'[u][k].of \in graph.needs[Top(u).of] \cap Services

FrameStep ==
  \A u \in Tasks : \A k \in 1..Len(stack'[u]) :
    \/ Kept(u, k)
    \/ /\ k = Len(stack[u]) /\ k \in 1..Len(stack[u])
       /\ stack'[u][k].of = stack[u][k].of
       /\ Missed(u, stack[u][k].of)
    \/ Pushed(u, k)

LEMMA ReturnKeeps ==
  ASSUME NEW ids, stack \in [Tasks -> Seq(Frames(ids))],
         NEW t \in Tasks, ~Idle(t), NEW i \in ids, Return(t, i)
  PROVE  FrameStep
<1>1. /\ \A u \in Tasks \ {t} : stack'[u] = stack[u]
      /\ Len(stack'[t]) = Len(stack[t]) - 1
      /\ \A k \in 1..(Len(stack[t]) - 1) :
           /\ stack'[t][k].of = stack[t][k].of
           /\ stack'[t][k].at = stack[t][k].at
  BY ReturnShape
<1>2. Len(stack[t]) \in Nat
  BY LenProperties
<1> QED
  BY <1>1, <1>2 DEF FrameStep, Kept

LEMMA ReplaceKeeps ==
  ASSUME NEW ids, stack \in [Tasks -> Seq(Frames(ids))],
         NEW t \in Tasks, ~Idle(t), NEW f \in Frames(ids), Replace(t, f),
         f.of = Top(t).of, f.at # "lookup" => Top(t).at # "lookup"
  PROVE  FrameStep
<1>1. /\ \A u \in Tasks \ {t} : stack'[u] = stack[u]
      /\ Len(stack'[t]) = Len(stack[t])
      /\ \A k \in 1..Len(stack[t]) :
           stack'[t][k] = IF k = Len(stack[t]) THEN f ELSE stack[t][k]
  BY ReplaceShape
<1>2. Len(stack[t]) \in Nat
  BY LenProperties
<1> QED
  BY <1>1, <1>2 DEF FrameStep, Kept, Top

LEMMA FrameStepLemma ==
  ASSUME TypeOK, [Next]_vars
  PROVE  FrameStep
<1>1. /\ stack \in [Tasks -> Seq(Frames(Ids))]
      /\ \A u \in Tasks : Len(stack[u]) \in Nat
  BY LenProperties DEF TypeOK
<1>2. ASSUME UNCHANGED stack
      PROVE  FrameStep
  BY <1>2 DEF FrameStep, Kept
<1>3. ASSUME NEW t \in Tasks, Lookup(t)
      PROVE  FrameStep
  <2> DEFINE s == Top(t).of
             f == [Top(t) EXCEPT !.at = "parameters"]
  <2>1. /\ ~Idle(t) /\ (IsApp(s) => lock \in {t, None})
        /\ UNCHANGED <<graph, phase, cache, exits, instances, gets>>
        /\ \/ cache[Home(t, s)][s] \in Ids /\ Return(t, cache[Home(t, s)][s])
           \/ /\ cache[Home(t, s)][s] = 0
              /\ Replace(t, f) /\ f \in Frames(Ids)
              /\ lock' = IF IsApp(s) THEN t ELSE lock
    BY <1>3, LookupCases
  <2>2. CASE cache[Home(t, s)][s] \in Ids /\ Return(t, cache[Home(t, s)][s])
    BY <1>1, <2>1, <2>2, ReturnKeeps
  <2>3. CASE /\ cache[Home(t, s)][s] = 0
             /\ Replace(t, f) /\ f \in Frames(Ids)
             /\ lock' = IF IsApp(s) THEN t ELSE lock
    <3>1. /\ \A u \in Tasks \ {t} : stack'[u] = stack[u]
          /\ Len(stack'[t]) = Len(stack[t])
          /\ \A k \in 1..Len(stack[t]) :
               stack'[t][k] = IF k = Len(stack[t]) THEN f ELSE stack[t][k]
      BY <1>1, <2>1, <2>3, ReplaceShape
    <3>2. Top(t).at = "lookup" /\ Top(t) \in Frames(Ids)
      BY <1>3, <2>1, TopFacts DEF Lookup
    <3>3. f.of = s
      BY <3>2 DEF Frames
    <3>4. Missed(t, s)
      BY <2>1, <2>3, <3>2 DEF Missed
    <3> HIDE DEF f
    <3> QED
      BY <1>1, <3>1, <3>3, <3>4 DEF FrameStep, Kept, Top
  <2> QED
    BY <2>1, <2>2, <2>3
<1>4. ASSUME NEW t \in Tasks, Parameter(t)
      PROVE  FrameStep
  <2>1. PICK d \in graph.needs[Top(t).of] \cap Services :
          stack' = [stack EXCEPT ![t] = Append(@, Frame(d))]
    BY <1>4, ParameterCases
  <2>2. /\ \A u \in Tasks \ {t} : stack'[u] = stack[u]
        /\ Len(stack'[t]) = Len(stack[t]) + 1
        /\ stack'[t][Len(stack[t]) + 1] = Frame(d)
        /\ \A k \in 1..Len(stack[t]) : stack'[t][k] = stack[t][k]
    BY <1>1, <2>1, FrameType, PushShape
  <2>3. Frame(d).at = "lookup" /\ Frame(d).of = d
    BY DEF Frame
  <2>4. ASSUME NEW k \in 1..Len(stack'[t])
        PROVE  Kept(t, k) \/ Pushed(t, k)
    <3>1. CASE k \in 1..Len(stack[t])
      BY <2>2, <3>1 DEF Kept
    <3>2. CASE k = Len(stack[t]) + 1
      BY <2>1, <2>2, <2>3, <3>2 DEF Pushed
    <3> QED
      BY <1>1, <2>2, <3>1, <3>2
  <2>5. ASSUME NEW u \in Tasks \ {t}, NEW k \in 1..Len(stack'[u])
        PROVE  Kept(u, k)
    BY <2>2 DEF Kept
  <2> QED
    BY <2>4, <2>5 DEF FrameStep
<1>5. ASSUME NEW t \in Tasks, FactoryAwaits(t)
      PROVE  FrameStep
  <2> DEFINE f == [Top(t) EXCEPT !.at = "awaiting"]
  <2>1. ~Idle(t) /\ Replace(t, f) /\ Top(t).at = "parameters"
    BY <1>5 DEF FactoryAwaits, Runs
  <2>2. f \in Frames(Ids) /\ f.of = Top(t).of
    BY <2>1, TopFacts DEF Frames
  <2> HIDE DEF f
  <2> QED
    BY <1>1, <2>1, <2>2, ReplaceKeeps
<1>6. ASSUME NEW t \in Tasks, Construct(t)
      PROVE  FrameStep
  <2>1. ~Idle(t) /\ Return(t, Len(instances) + 1)
    BY <1>6 DEF Construct, ReadyToConstruct, Runs
  <2>2. /\ Ids \subseteq 1..(Len(instances) + 1)
        /\ Len(instances) + 1 \in 1..(Len(instances) + 1)
    BY InstanceFacts DEF Ids
  <2>3. stack \in [Tasks -> Seq(Frames(1..(Len(instances) + 1)))]
    BY <2>2, MoreIds
  <2> QED
    BY <2>1, <2>2, <2>3, ReturnKeeps
<1>7. ASSUME NEW t \in Tasks, ConstructRaises(t)
      PROVE  FrameStep
  <2>1. /\ \A u \in Tasks \ {t} : stack'[u] = stack[u]
        /\ stack'[t] = <<>>
    BY <1>1, <1>7 DEF ConstructRaises
  <2> QED
    BY <1>1, <2>1 DEF FrameStep, Kept
<1>8. ASSUME NEW t \in Tasks, NEW s \in Services, Get(t, s)
      PROVE  FrameStep
  <2>1. /\ \A u \in Tasks \ {t} : stack'[u] = stack[u]
        /\ stack[t] = <<>> /\ stack'[t] = <<Frame(s)>>
    BY <1>1, <1>8 DEF Get, Idle
  <2>2. Frame(s).at = "lookup"
    BY DEF Frame
  <2> QED
    BY <1>1, <2>1, <2>2 DEF FrameStep, Kept, Pushed
<1> QED
  BY <1>2, <1>3, <1>4, <1>5, <1>6, <1>7, <1>8
  DEF Next, GetStep, CloseStep, Wait, Close, Finalize, Closed, Finished, vars

LEMMA GraphKept ==
  ASSUME [Next]_vars
  PROVE  graph' = graph
BY DEF Next, GetStep, CloseStep, Wait, Lookup, Parameter, FactoryAwaits,
   Construct, ConstructRaises, Get, Close, Finalize, Closed, Finished, vars

LEMMA FrameTypes ==
  ASSUME TypeOK, NEW u \in Tasks
  PROVE  /\ Len(stack[u]) \in Nat
         /\ \A k \in 1..Len(stack[u]) :
              stack[u][k] \in Frames(Ids) /\ stack[u][k].of \in Services
<1>1. stack[u] \in Seq(Frames(Ids))
  BY DEF TypeOK
<1>2. \A k \in 1..Len(stack[u]) : stack[u][k] \in Frames(Ids)
  BY <1>1, ElementOfSeq
<1> QED
  BY <1>1, <1>2, LenProperties DEF Frames

LEMMA StackInvStep ==
  ASSUME TypeOK, StackInv, [Next]_vars
  PROVE  StackInv'
<1> SUFFICES ASSUME NEW u \in Tasks,
                    NEW k \in 1..Len(stack'[u]), NEW l \in 1..Len(stack'[u]),
                    k < l
             PROVE  /\ stack'[u][l].of < stack'[u][k].of
                    /\ IsApp(stack'[u][k].of) => IsApp(stack'[u][l].of)
  BY GraphKept DEF StackInv, IsApp
<1>1. Len(stack[u]) \in Nat /\ Len(stack'[u]) \in Nat
  BY FrameTypes, TypeStep
<1>2. FrameStep
  BY FrameStepLemma
<1>3. l \in 1..Len(stack[u]) \/ Pushed(u, l)
  BY <1>2 DEF FrameStep, Kept
<1>4. k \in 1..Len(stack[u]) /\ stack'[u][k].of = stack[u][k].of
  BY <1>1, <1>2, <1>3 DEF FrameStep, Kept, Pushed
<1>5. CASE l \in 1..Len(stack[u])
  <2>1. stack'[u][l].of = stack[u][l].of
    BY <1>1, <1>2, <1>5 DEF FrameStep, Kept, Pushed
  <2> QED
    BY <1>4, <1>5, <2>1 DEF StackInv
<1>6. CASE Pushed(u, l)
  <2> DEFINE n == Len(stack[u])
             d == stack'[u][l].of
  <2>1. n \in 1..n /\ k <= n /\ d \in graph.needs[Top(u).of] \cap Services
    BY <1>1, <1>4, <1>6 DEF Pushed
  <2>2. Top(u).of = stack[u][n].of /\ stack[u][n].of \in Services
    BY <2>1, FrameTypes DEF Top
  <2>3. d < stack[u][n].of /\ (IsApp(stack[u][n].of) => IsApp(d))
    BY <2>1, <2>2, GraphFacts
  <2>4. CASE k = n
    BY <1>4, <2>3, <2>4
  <2>5. CASE k < n
    <3>1. /\ stack[u][n].of < stack[u][k].of
          /\ IsApp(stack[u][k].of) => IsApp(stack[u][n].of)
      BY <1>4, <2>1, <2>5 DEF StackInv
    <3>2. d \in Nat /\ stack[u][n].of \in Nat /\ stack[u][k].of \in Nat
      BY <1>4, <2>1, <2>2, FrameTypes, GraphFacts
    <3> QED
      BY <1>4, <2>3, <3>1, <3>2
  <2> QED
    BY <1>1, <1>4, <2>1, <2>4, <2>5
<1> QED
  BY <1>3, <1>5, <1>6

(* A task comes to build a service by missing the cache for it. *)
LEMMA BuildingStep ==
  ASSUME TypeOK, [Next]_vars, NEW u \in Tasks, NEW s, Building(u, s)'
  PROVE  Building(u, s) \/ Missed(u, s)
<1>1. PICK k \in 1..Len(stack'[u]) :
        stack'[u][k].of = s /\ stack'[u][k].at # "lookup"
  BY DEF Building
<1>2. FrameStep
  BY FrameStepLemma
<1> QED
  BY <1>1, <1>2 DEF FrameStep, Kept, Pushed, Building

LEMMA BuildingType ==
  ASSUME TypeOK, NEW u \in Tasks, NEW s, Building(u, s)
  PROVE  s \in Services /\ ~Idle(u)
<1>1. PICK k \in 1..Len(stack[u]) : stack[u][k].of = s
  BY DEF Building
<1>2. Idle(u) => Len(stack[u]) = 0
  BY DEF Idle
<1> QED
  BY <1>1, <1>2, FrameTypes

(* What a task is building when one of its frames has returned: not the    *)
(* service of that frame; and nothing APP-scoped if it let the lock go.    *)
LEMMA ReturnBuilding ==
  ASSUME TypeOK, StackInv, NEW ids, stack \in [Tasks -> Seq(Frames(ids))],
         NEW t \in Tasks, ~Idle(t), NEW i \in ids, Return(t, i)
  PROVE  /\ \A s : s = Top(t).of => ~Building(t, s)'
         /\ \/ lock' = lock
            \/ /\ lock = t /\ lock' = None
               /\ graph' = graph => \A s : IsApp(s) => ~Building(t, s)'
<1> DEFINE n == Len(stack[t]) - 1
<1>1. Len(stack[t]) \in Nat \ {0} /\ n \in Nat
  BY TopFacts
<1>2. /\ Len(stack'[t]) = n
      /\ \A k \in 1..n : stack'[t][k].of = stack[t][k].of
  BY ReturnShape
<1>3. Len(Below(t)) = n /\ \A k \in 1..n : Below(t)[k] = stack[t][k]
  BY PopSeq DEF Below, Idle
<1>4. ASSUME NEW k \in 1..n
      PROVE  stack'[t][k].of \in Services /\ Top(t).of < stack'[t][k].of
  <2>1. Top(t).of < stack[t][k].of
    BY <1>1 DEF StackInv, Top
  <2> QED
    BY <1>1, <1>2, <2>1, FrameTypes
<1>5. ASSUME NEW s, s = Top(t).of
      PROVE  ~Building(t, s)'
  <2>1. s \in Nat
    BY <1>5, TopFacts, GraphFacts
  <2> QED
    BY <1>2, <1>4, <1>5, <2>1 DEF Building
<1>6. CASE lock = t /\ (n = 0 \/ ~IsApp(Below(t)[n].of))
  <2>1. lock' = None
    BY <1>3, <1>6 DEF Return
  <2>2. ASSUME NEW k \in 1..n
        PROVE  ~IsApp(stack[t][k].of)
    <3>1. ~IsApp(stack[t][n].of)
      BY <1>1, <1>3, <1>6
    <3>2. CASE k = n
      BY <3>1, <3>2
    <3>3. CASE k < n
      BY <1>1, <3>1, <3>3 DEF StackInv
    <3> QED
      BY <1>1, <3>2, <3>3
  <2>3. ASSUME graph' = graph, NEW s, IsApp(s), Building(t, s)'
        PROVE  FALSE
    BY <1>2, <2>2, <2>3 DEF Building
  <2> QED
    BY <1>5, <1>6, <2>1, <2>3
<1>7. CASE ~(lock = t /\ (n = 0 \/ ~IsApp(Below(t)[n].of)))
  BY <1>3, <1>5, <1>7 DEF Return
<1> QED
  BY <1>6, <1>7

LEMMA ReadyBuilds ==
  ASSUME TypeOK, NEW t \in Tasks, ReadyToConstruct(t)
  PROVE  ~Idle(t) /\ Building(t, Top(t).of)
<1>1. ~Idle(t) /\ Top(t).at # "lookup"
  BY DEF ReadyToConstruct, Runs
<1>2. Len(stack[t]) \in 1..Len(stack[t])
  BY <1>1, TopFacts
<1> QED
  BY <1>1, <1>2 DEF Building, Top

(* The new instance's id, seen from the frames it returns to. *)
LEMMA ConstructReturn ==
  ASSUME TypeOK, NEW t \in Tasks, Construct(t)
  PROVE  /\ ~Idle(t) /\ Return(t, Len(instances) + 1)
         /\ Len(instances) + 1 \in 1..(Len(instances) + 1)
         /\ stack \in [Tasks -> Seq(Frames(1..(Len(instances) + 1)))]
<1>1. ~Idle(t) /\ Return(t, Len(instances) + 1)
  BY DEF Construct, ReadyToConstruct, Runs
<1>2. /\ Ids \subseteq 1..(Len(instances) + 1)
      /\ Len(instances) + 1 \in 1..(Len(instances) + 1)
  BY InstanceFacts DEF Ids
<1> QED
  BY <1>1, <1>2, MoreIds

(* The service of the innermost frame is built no more, and nothing        *)
(* APP-scoped is if the lock was let go.                                   *)
LEMMA ConstructBuilding ==
  ASSUME TypeOK, StackInv, NEW t \in Tasks, Construct(t)
  PROVE  /\ \A s : s = Top(t).of => Building(t, s) /\ ~Building(t, s)'
         /\ \/ lock' = lock
            \/ /\ lock = t /\ lock' = None
               /\ \A s : IsApp(s) => ~Building(t, s)'
         /\ \A u \in Tasks \ {t} : stack'[u] = stack[u]
<1>1. ReadyToConstruct(t) /\ graph' = graph
  BY DEF Construct
<1> QED
  BY <1>1, ReadyBuilds, ConstructReturn, ReturnBuilding, ReturnShape

----------------------------------------------------------------------------
(* The lock. *)

LEMMA ClosedCache ==
  ASSUME TypeOK, NEW c \in Containers, Closed(c)
  PROVE  \A d \in Containers, s \in Services :
           \/ cache'[d][s] = cache[d][s]
           \/ d = c /\ cache'[d][s] = 0
<1>1. CASE cache' = cache
  BY <1>1
<1>2. CASE cache' = [cache EXCEPT ![c] = [s \in Services |-> 0]]
  BY <1>2 DEF TypeOK
<1> QED
  BY <1>1, <1>2 DEF Closed

LEMMA LockInvStep ==
  ASSUME TypeOK, StackInv, LockInv, [Next]_vars
  PROVE  LockInv'
<1> SUFFICES ASSUME NEW u \in Tasks, NEW s \in Services, IsApp(s),
                    Building(u, s)'
             PROVE  lock' = u /\ cache'[Root][s] = 0
  BY GraphKept DEF LockInv, IsApp
<1>1. CASE Missed(u, s)
  BY <1>1 DEF Missed, Home
<1>2. CASE Building(u, s)
  <2>1. lock = u /\ cache[Root][s] = 0
    BY <1>2 DEF LockInv
  <2>2. u # None
    BY GraphAssumption
  <2>3. ASSUME NEW t \in Tasks, Lookup(t)
        PROVE  lock' = u /\ cache'[Root][s] = 0
    <3> DEFINE r == Top(t).of
               i == cache[Home(t, r)][r]
    <3>1. /\ ~Idle(t) /\ (IsApp(r) => lock \in {t, None})
          /\ UNCHANGED <<graph, cache>>
          /\ \/ i \in Ids /\ Return(t, i)
             \/ lock' = IF IsApp(r) THEN t ELSE lock
      BY <2>3, LookupCases
    <3>2. CASE i \in Ids /\ Return(t, i)
      <4>1. stack \in [Tasks -> Seq(Frames(Ids))]
        BY DEF TypeOK
      <4>2. \/ lock' = lock
            \/ /\ lock = t /\ lock' = None
               /\ \A q : IsApp(q) => ~Building(t, q)'
        BY <3>1, <3>2, <4>1, ReturnBuilding
      <4> QED
        BY <2>1, <3>1, <4>2
    <3>3. CASE lock' = IF IsApp(r) THEN t ELSE lock
      BY <2>1, <2>2, <3>1, <3>3
    <3> QED
      BY <3>1, <3>2, <3>3
  <2>4. ASSUME NEW t \in Tasks, Construct(t)
        PROVE  lock' = u /\ cache'[Root][s] = 0
    <3>1. lock' = u
      BY <2>1, <2>4, ConstructBuilding
    <3>2. s # Top(t).of
      BY <2>1, <2>4, ConstructBuilding DEF LockInv
    <3>3. cache'[Root][s] = cache[Root][s]
      BY <2>4, <3>2 DEF Construct, TypeOK
    <3> QED
      BY <2>1, <3>1, <3>3
  <2>5. ASSUME NEW t \in Tasks, ConstructRaises(t)
        PROVE  lock' = u /\ cache'[Root][s] = 0
    <3>1. u # t
      BY <2>5 DEF ConstructRaises, Building, TypeOK
    <3> QED
      BY <2>1, <2>5, <3>1 DEF ConstructRaises
  <2>6. ASSUME NEW c \in Containers, Closed(c)
        PROVE  lock' = u /\ cache'[Root][s] = 0
    BY <2>1, <2>6, ClosedCache DEF Closed, Containers
  <2> QED
    BY <2>1, <2>3, <2>4, <2>5, <2>6
    DEF Next, GetStep, CloseStep, Wait, Parameter, FactoryAwaits, Get, Close,
        Finalize, Finished, vars
<1> QED
  BY <1>1, <1>2, BuildingStep

----------------------------------------------------------------------------
(* What is built once. *)

(* What a step leaves of the instances there are. *)
LEMMA InstancesStep ==
  ASSUME TypeOK, [Next]_vars
  PROVE  /\ Ids \subseteq Ids'
         /\ \A i \in Ids :
              /\ instances'[i].of = instances[i].of
              /\ instances'[i].home = instances[i].home
              /\ instances'[i].uses = instances[i].uses
              /\ instances'[i].late = instances[i].late
              /\ instances'[i].contended = instances[i].contended
              /\ instances'[i].disposals >= instances[i].disposals
<1>1. \A i \in Ids : instances[i] \in Instance(Ids)
  BY InstanceFacts
<1>2. CASE UNCHANGED instances
  BY <1>1, <1>2 DEF Ids, Instance
<1>3. ASSUME NEW t \in Tasks, Construct(t)
      PROVE  /\ Ids \subseteq Ids'
             /\ \A i \in Ids : instances'[i] = instances[i]
  BY <1>3, ConstructType
<1>4. ASSUME NEW c \in Containers, Finalize(c), NEW i \in Ids
      PROVE  /\ Ids' = Ids
             /\ instances'[i].of = instances[i].of
             /\ instances'[i].home = instances[i].home
             /\ instances'[i].uses = instances[i].uses
             /\ instances'[i].late = instances[i].late
             /\ instances'[i].contended = instances[i].contended
             /\ instances'[i].disposals >= instances[i].disposals
  <2>1. instances'[i] = IF i = exits[c][Len(exits[c])]
                        THEN [instances[i] EXCEPT !.disposals = @ + 1]
                        ELSE instances[i]
    BY <1>4, FinalizeType
  <2> QED
    BY <1>1, <1>4, <2>1, FinalizeType DEF Instance
<1>5. \/ UNCHANGED instances
      \/ \E t \in Tasks : Construct(t)
      \/ \E c \in Containers : Finalize(c)
  BY DEF Next, GetStep, CloseStep, Wait, Lookup, Parameter, FactoryAwaits,
     ConstructRaises, Get, Close, Closed, Finished, vars
<1>6. CASE \E t \in Tasks : Construct(t)
  BY <1>1, <1>3, <1>6 DEF Instance
<1>7. CASE \E c \in Containers : Finalize(c)
  BY <1>4, <1>7, FinalizeType
<1> QED
  BY <1>2, <1>5, <1>6, <1>7

(* The cache changes by a construction, or when a container is closed. *)
LEMMA CacheKept ==
  ASSUME TypeOK, [Next]_vars, NEW c \in Containers, phase[c] = "open",
         NEW s \in Services, cache'[c][s] # cache[c][s]
  PROVE  \E t \in Tasks : Construct(t) /\ Top(t).of = s /\ Home(t, s) = c
<1>1. ASSUME NEW t \in Tasks, Construct(t)
      PROVE  Top(t).of = s /\ Home(t, s) = c
  <2>1. ~Idle(t)
    BY <1>1, ConstructReturn
  <2> QED
    BY <1>1, <2>1, TopFacts DEF Construct, TypeOK
<1>2. ASSUME NEW d \in Containers, Closed(d)
      PROVE  FALSE
  BY <1>2, ClosedCache DEF Closed
<1> QED
  BY <1>1, <1>2
  DEF Next, GetStep, CloseStep, Wait, Lookup, Parameter, FactoryAwaits,
      ConstructRaises, Get, Close, Finalize, Finished, vars

LEMMA NewInstance ==
  ASSUME TypeOK, [Next]_vars, NEW i \in Ids', i \notin Ids
  PROVE  i = Len(instances) + 1 /\ \E t \in Tasks : Construct(t)
<1>1. CASE UNCHANGED instances
  BY <1>1 DEF Ids
<1>2. \/ UNCHANGED instances
      \/ \E t \in Tasks : Construct(t)
      \/ \E c \in Containers : Finalize(c)
  BY DEF Next, GetStep, CloseStep, Wait, Lookup, Parameter, FactoryAwaits,
     ConstructRaises, Get, Close, Closed, Finished, vars
<1> QED
  BY <1>1, <1>2, ConstructType, FinalizeType

LEMMA PhaseStep ==
  ASSUME TypeOK, [Next]_vars, NEW c \in Containers
  PROVE  /\ phase'[c] = "open" => phase[c] = "open"
         /\ phase[c] = "closed" => phase'[c] = "closed"
BY DEF Next, GetStep, CloseStep, Wait, Lookup, Parameter, FactoryAwaits,
   Construct, ConstructRaises, Get, Close, Finalize, Closed, Finished, vars, TypeOK

LEMMA CacheInvStep ==
  ASSUME TypeOK, StackInv, LockInv, CacheInv, [Next]_vars
  PROVE  CacheInv'
<1> SUFFICES
      ASSUME NEW i \in Ids', NEW s \in Services, NEW c \in Containers,
             instances'[i].of = s, instances'[i].home = c
      PROVE  /\ IsApp(s) => c = Root
             /\ phase'[c] = "open" =>
                  /\ IsApp(s) => cache'[Root][s] = i
                  /\ graph.life[s] = "scoped" /\ ~instances'[i].contended =>
                       /\ cache'[c][s] = i
                       /\ \A u \in Tasks : HomeOf[u] = c => ~Building(u, s)'
  BY GraphKept DEF CacheInv, IsApp
<1>1. 0 \notin Ids
  BY DEF Ids
<1>2. CASE i \in Ids
  <2>1. /\ instances[i].of = s /\ instances[i].home = c
        /\ instances'[i].contended = instances[i].contended
        /\ IsApp(s) => c = Root
    BY <1>2, InstancesStep DEF CacheInv
  <2>2. ASSUME phase'[c] = "open", IsApp(s)
        PROVE  cache'[Root][s] = i
    <3>1. c = Root /\ phase[c] = "open" /\ cache[Root][s] = i
      BY <1>2, <2>1, <2>2, PhaseStep DEF CacheInv
    <3>2. ASSUME NEW t \in Tasks, Construct(t), Top(t).of = s
          PROVE  FALSE
      BY <1>1, <1>2, <2>2, <3>1, <3>2, ConstructBuilding DEF LockInv
    <3> QED
      BY <3>1, <3>2, CacheKept
  <2>3. ASSUME phase'[c] = "open", graph.life[s] = "scoped",
               ~instances'[i].contended
        PROVE  /\ cache'[c][s] = i
               /\ \A u \in Tasks : HomeOf[u] = c => ~Building(u, s)'
    <3>1. /\ phase[c] = "open" /\ cache[c][s] = i
          /\ \A u \in Tasks : HomeOf[u] = c => ~Building(u, s)
      BY <1>2, <2>1, <2>3, PhaseStep DEF CacheInv
    <3>2. \A u \in Tasks : Home(u, s) = HomeOf[u]
      BY <2>3 DEF Home, IsApp, AppWide
    <3>3. ASSUME NEW t \in Tasks, Construct(t), Top(t).of = s, Home(t, s) = c
          PROVE  FALSE
      BY <3>1, <3>2, <3>3, ConstructBuilding
    <3>4. cache'[c][s] = i
      BY <3>1, <3>3, CacheKept
    <3>5. ASSUME NEW u \in Tasks, HomeOf[u] = c, Building(u, s)'
          PROVE  FALSE
      BY <1>1, <1>2, <3>1, <3>2, <3>5, BuildingStep DEF Missed
    <3> QED
      BY <3>4, <3>5
  <2> QED
    BY <2>1, <2>2, <2>3
<1>3. CASE i \notin Ids
  <2>1. PICK t \in Tasks : Construct(t) /\ i = Len(instances) + 1
    BY <1>3, NewInstance
  <2>2. /\ s = Top(t).of /\ c = Home(t, s)
        /\ instances'[i].contended <=> \E u \in Tasks \ {t} :
                                         ~Idle(u) /\ HomeOf[u] = HomeOf[t]
    BY <2>1, ConstructType
  <2>3. IsApp(s) => c = Root
    BY <2>2 DEF Home
  <2>4. Cached(s) => cache'[c][s] = i
    BY <2>1, <2>2 DEF Construct, TypeOK
  <2>5. IsApp(s) \/ graph.life[s] = "scoped" => Cached(s)
    BY DEF Cached, IsApp, AppWide
  <2>6. ASSUME graph.life[s] = "scoped", ~instances'[i].contended,
               NEW u \in Tasks, HomeOf[u] = c, Building(u, s)'
        PROVE  FALSE
    <3>1. HomeOf[t] = c
      BY <2>2, <2>6 DEF Home, IsApp, AppWide
    <3>2. u # t
      BY <2>1, <2>2, <2>6, ConstructBuilding
    <3>3. Building(u, s)
      BY <2>1, <2>6, <3>2, ConstructBuilding DEF Building
    <3> QED
      BY <2>2, <2>6, <3>1, <3>2, <3>3, BuildingType
  <2> QED
    BY <2>3, <2>4, <2>5, <2>6
<1> QED
  BY <1>2, <1>3

LEMMA OnceInvStep ==
  ASSUME TypeOK, StackInv, LockInv, CacheInv, OnceInv, [Next]_vars
  PROVE  OnceInv'
<1> DEFINE Twin(x, y) ==
             /\ x.of = y.of /\ x.home = y.home /\ ~x.late /\ ~y.late
             /\ \/ IsApp(x.of)
                \/ graph.life[x.of] = "scoped" /\ ~x.contended /\ ~y.contended
(* A new instance has no twin. *)
<1>1. ASSUME NEW i \in Ids', NEW j \in Ids, i \notin Ids,
             Twin(instances'[i], instances'[j])
      PROVE  FALSE
  <2> DEFINE s == instances'[i].of
             c == instances'[i].home
  <2>1. PICK t \in Tasks : Construct(t) /\ i = Len(instances) + 1
    BY <1>1, NewInstance
  <2>2. /\ s = Top(t).of /\ c = Home(t, s)
        /\ instances'[i].late <=> phase[c] # "open"
    BY <2>1, ConstructType
  <2>3. s \in Services /\ c \in Containers /\ Building(t, s)
    BY <2>1, <2>2, TopFacts, ConstructReturn, ConstructBuilding
  <2>4. /\ instances[j].of = s /\ instances[j].home = c
        /\ instances'[j].contended = instances[j].contended
    BY <1>1, InstancesStep
  <2>5. phase[c] = "open"
    BY <1>1, <2>2
  <2>6. CASE IsApp(s)
    <3>1. cache[Root][s] = j
      BY <2>3, <2>4, <2>5, <2>6 DEF CacheInv
    <3>2. cache[Root][s] = 0
      BY <2>3, <2>6 DEF LockInv
    <3> QED
      BY <3>1, <3>2 DEF Ids
  <2>7. CASE graph.life[s] = "scoped" /\ ~instances'[j].contended
    <3>1. HomeOf[t] = c
      BY <2>2, <2>7 DEF Home, IsApp, AppWide
    <3> QED
      BY <2>3, <2>4, <2>5, <2>7, <3>1 DEF CacheInv
  <2> QED
    BY <1>1, <2>6, <2>7
<1>2. ASSUME NEW i \in Ids, NEW j \in Ids, Twin(instances'[i], instances'[j])
      PROVE  i = j
  <2>1. Twin(instances[i], instances[j])
    BY <1>2, InstancesStep
  <2> QED
    BY <2>1 DEF OnceInv
<1>3. ASSUME NEW i \in Ids', NEW j \in Ids', Twin(instances'[i], instances'[j])
      PROVE  i = j
  <2>1. Twin(instances'[j], instances'[i])
    BY <1>3
  <2>2. i \notin Ids /\ j \notin Ids => i = j
    BY <1>3, NewInstance
  <2> HIDE DEF Twin
  <2> QED
    BY <1>1, <1>2, <1>3, <2>1, <2>2
<1> QED
  BY <1>3, GraphKept DEF OnceInv, IsApp

----------------------------------------------------------------------------
(* What is finalized. *)

LEMMA ExitTypes ==
  ASSUME TypeOK, NEW c \in Containers
  PROVE  /\ exits[c] \in Seq(Ids) /\ Len(exits[c]) \in Nat
         /\ \A k \in 1..Len(exits[c]) : exits[c][k] \in Ids
<1>1. exits[c] \in Seq(Ids)
  BY DEF TypeOK
<1> QED
  BY <1>1, LenProperties, ElementOfSeq

LEMMA IdOrder ==
  ASSUME TypeOK
  PROVE  \A i \in Ids : i \in Nat /\ i < Len(instances) + 1
BY InstanceFacts DEF Ids

LEMMA ConstructExits ==
  ASSUME TypeOK, NEW t \in Tasks, Construct(t), NEW c \in Containers
  PROVE  /\ phase' = phase
         /\ Len(exits'[c]) \in {Len(exits[c]), Len(exits[c]) + 1}
         /\ \A k \in 1..Len(exits[c]) : exits'[c][k] = exits[c][k]
         /\ Len(exits'[c]) = Len(exits[c]) + 1 <=>
              c = Home(t, Top(t).of) /\ Finalized(Top(t).of)
         /\ Len(exits'[c]) = Len(exits[c]) + 1 =>
              exits'[c][Len(exits[c]) + 1] = Len(instances) + 1
<1> DEFINE s == Top(t).of
           ids == 1..(Len(instances) + 1)
<1>1. /\ phase' = phase
      /\ exits' = IF Finalized(s)
                  THEN [exits EXCEPT ![Home(t, s)] = Append(@, Len(instances) + 1)]
                  ELSE exits
  BY DEF Construct
<1>2. exits \in [Containers -> Seq(ids)] /\ Len(instances) + 1 \in ids
  BY InstanceFacts, MoreIds DEF Ids
<1>3. /\ Len(exits[c]) \in Nat
      /\ Len(Append(exits[c], Len(instances) + 1)) = Len(exits[c]) + 1
      /\ Append(exits[c], Len(instances) + 1)[Len(exits[c]) + 1]
           = Len(instances) + 1
      /\ \A k \in 1..Len(exits[c]) :
           Append(exits[c], Len(instances) + 1)[k] = exits[c][k]
  BY <1>2, AppendProperties, LenProperties
<1>4. CASE Finalized(s) /\ c = Home(t, s)
  <2>1. exits'[c] = Append(exits[c], Len(instances) + 1)
    BY <1>1, <1>2, <1>4
  <2> QED
    BY <1>1, <1>3, <1>4, <2>1
<1>5. CASE ~(Finalized(s) /\ c = Home(t, s))
  <2>1. exits'[c] = exits[c]
    BY <1>1, <1>2, <1>5
  <2> QED
    BY <1>1, <1>3, <1>5, <2>1
<1> QED
  BY <1>4, <1>5

(* The steps that touch neither the exits nor the instances. *)
LEMMA ExitSteps ==
  ASSUME TypeOK, [Next]_vars
  PROVE  \/ /\ UNCHANGED <<exits, instances>>
            /\ \A c \in Containers : phase'[c] = "closed" =>
                 phase[c] = "closed" \/ exits[c] = <<>>
         \/ \E t \in Tasks : Construct(t)
         \/ \E c \in Containers : Finalize(c)
BY DEF Next, GetStep, CloseStep, Wait, Lookup, Parameter, FactoryAwaits,
   ConstructRaises, Get, Close, Closed, Finished, vars, TypeOK

LEMMA ExitInvStep ==
  ASSUME TypeOK, ExitInv, [Next]_vars
  PROVE  ExitInv'
<1> SUFFICES
      ASSUME NEW c \in Containers, NEW k \in 1..Len(exits'[c])
      PROVE  LET x == instances'[exits'[c][k]] IN
             /\ x.home = c /\ x.disposals = 0 /\ graph.life[x.of] # "hosted"
             /\ phase'[c] = "closed" => x.late
             /\ \A l \in 1..Len(exits'[c]) : k < l => exits'[c][k] < exits'[c][l]
  BY GraphKept DEF ExitInv
<1>1. Len(exits[c]) \in Nat /\ \A l \in 1..Len(exits[c]) : exits[c][l] \in Ids
  BY ExitTypes
<1>2. CASE /\ UNCHANGED <<exits, instances>>
           /\ phase'[c] = "closed" => phase[c] = "closed" \/ exits[c] = <<>>
  <2>1. exits[c] # <<>>
    BY <1>2
  <2> QED
    BY <1>2, <2>1 DEF ExitInv
<1>3. ASSUME NEW t \in Tasks, Construct(t)
      PROVE  LET x == instances'[exits'[c][k]] IN
             /\ x.home = c /\ x.disposals = 0 /\ graph.life[x.of] # "hosted"
             /\ phase'[c] = "closed" => x.late
             /\ \A l \in 1..Len(exits'[c]) : k < l => exits'[c][k] < exits'[c][l]
  <2> DEFINE n == Len(exits[c])
             i == exits'[c][k]
             x == instances'[i]
  <2>1. /\ phase' = phase
        /\ Len(exits'[c]) \in {n, n + 1}
        /\ \A l \in 1..n : exits'[c][l] = exits[c][l]
        /\ Len(exits'[c]) = n + 1 =>
             /\ c = Home(t, Top(t).of) /\ Finalized(Top(t).of)
             /\ exits'[c][n + 1] = Len(instances) + 1
    BY <1>3, ConstructExits
  <2>2. CASE k \in 1..n
    <3>1. i \in Ids /\ x = instances[i] /\ i = exits[c][k]
      BY <1>1, <1>3, <2>1, <2>2, ConstructType
    <3>2. /\ x.home = c /\ x.disposals = 0 /\ graph.life[x.of] # "hosted"
          /\ phase'[c] = "closed" => x.late
      BY <2>1, <2>2, <3>1 DEF ExitInv
    <3>3. ASSUME NEW l \in 1..Len(exits'[c]), k < l
          PROVE  i < exits'[c][l]
      <4>1. CASE l \in 1..n
        BY <2>1, <2>2, <3>1, <3>3, <4>1 DEF ExitInv
      <4>2. CASE l = n + 1
        BY <2>1, <3>1, <4>2, IdOrder
      <4> QED
        BY <1>1, <2>1, <4>1, <4>2
    <3> QED
      BY <3>2, <3>3
  <2>3. CASE k = n + 1
    <3>1. /\ Len(exits'[c]) = n + 1
          /\ c = Home(t, Top(t).of) /\ Finalized(Top(t).of)
          /\ i = Len(instances) + 1
      BY <1>1, <2>1, <2>3
    <3>2. /\ x.of = Top(t).of /\ x.home = c /\ x.disposals = 0
          /\ x.late <=> phase[c] # "open"
      BY <1>3, <3>1, ConstructType
    <3>3. graph.life[x.of] # "hosted"
      BY <3>1, <3>2 DEF Finalized
    <3>4. \A l \in 1..Len(exits'[c]) : ~(k < l)
      BY <1>1, <2>3, <3>1
    <3> QED
      BY <2>1, <3>2, <3>3, <3>4
  <2> QED
    BY <1>1, <2>1, <2>2, <2>3
<1>4. ASSUME NEW d \in Containers, Finalize(d)
      PROVE  LET x == instances'[exits'[c][k]] IN
             /\ x.home = c /\ x.disposals = 0 /\ graph.life[x.of] # "hosted"
             /\ phase'[c] = "closed" => x.late
             /\ \A l \in 1..Len(exits'[c]) : k < l => exits'[c][k] < exits'[c][l]
  <2> DEFINE last == exits[d][Len(exits[d])]
             i == exits'[c][k]
  <2>1. phase' = phase
    BY <1>4 DEF Finalize
  <2>2. Len(exits[d]) \in Nat \ {0} /\ last \in Ids
    BY <1>4, FinalizeType
  <2>3. \A j \in Ids \ {last} : instances'[j] = instances[j]
    BY <1>4, FinalizeType
  <2>4. /\ k \in 1..Len(exits[c]) /\ i = exits[c][k]
        /\ \A l \in 1..Len(exits'[c]) :
             l \in 1..Len(exits[c]) /\ exits'[c][l] = exits[c][l]
        /\ c = d => k < Len(exits[d])
    BY <1>1, <1>4, <2>2, FinalizeType
  <2>5. i # last
    <3>1. CASE c = d
      BY <1>1, <2>2, <2>4, <3>1 DEF ExitInv, Ids
    <3>2. CASE c # d
      BY <2>2, <2>4, <3>2 DEF ExitInv
    <3> QED
      BY <3>1, <3>2
  <2>6. instances'[i] = instances[i]
    BY <1>1, <2>3, <2>4, <2>5
  <2> HIDE DEF i, last
  <2>7. /\ instances[i].home = c /\ instances[i].disposals = 0
        /\ graph.life[instances[i].of] # "hosted"
        /\ phase'[c] = "closed" => instances[i].late
    BY <2>1, <2>4 DEF ExitInv
  <2>8. \A l \in 1..Len(exits'[c]) : k < l => exits'[c][k] < exits'[c][l]
    BY <2>4 DEF ExitInv, i
  <2> QED
    BY <2>6, <2>7, <2>8 DEF i
<1> QED
  BY <1>2, <1>3, <1>4, ExitSteps

LEMMA DisposalInvStep ==
  ASSUME TypeOK, ExitInv, DisposalInv, [Next]_vars
  PROVE  DisposalInv'
<1> SUFFICES
      ASSUME NEW i \in Ids'
      PROVE  LET x == instances'[i] IN
             /\ x.disposals <= 1
             /\ \A j \in x.uses : j < i
             /\ graph.life[x.of] # "hosted" /\ x.disposals = 0 =>
                  \E k \in 1..Len(exits'[x.home]) : exits'[x.home][k] = i
  BY GraphKept DEF DisposalInv
<1>1. CASE UNCHANGED <<exits, instances>>
  BY <1>1 DEF DisposalInv, Ids
<1>2. ASSUME NEW t \in Tasks, Construct(t)
      PROVE  LET x == instances'[i] IN
             /\ x.disposals <= 1
             /\ \A j \in x.uses : j < i
             /\ graph.life[x.of] # "hosted" /\ x.disposals = 0 =>
                  \E k \in 1..Len(exits'[x.home]) : exits'[x.home][k] = i
  <2>1. CASE i \in Ids
    <3> DEFINE h == instances[i].home
    <3>1. instances'[i] = instances[i] /\ h \in Containers
      BY <1>2, <2>1, ConstructType, InstanceFacts DEF Instance
    <3>2. Len(exits[h]) \in Nat
      BY <3>1, ExitTypes
    <3>3. \A k \in 1..Len(exits[h]) :
            k \in 1..Len(exits'[h]) /\ exits'[h][k] = exits[h][k]
      BY <1>2, <3>1, <3>2, ConstructExits
    <3> HIDE DEF h
    <3> QED
      BY <2>1, <3>1, <3>3 DEF DisposalInv, h
  <2>2. CASE i = Len(instances) + 1
    <3> DEFINE s == Top(t).of
               h == Home(t, s)
    <3>1. /\ instances'[i].of = s /\ instances'[i].home = h
          /\ instances'[i].uses \subseteq Ids /\ instances'[i].disposals = 0
      BY <1>2, <2>2, ConstructType
    <3>2. \A j \in instances'[i].uses : j < i
      BY <2>2, <3>1, IdOrder
    <3>3. h \in Containers
      BY <1>2, ConstructReturn, TopFacts
    <3>4. Len(exits[h]) \in Nat
      BY <3>3, ExitTypes
    <3>5. ASSUME graph.life[s] # "hosted"
          PROVE  \E k \in 1..Len(exits'[h]) : exits'[h][k] = i
      <4>1. Finalized(s)
        BY <3>5 DEF Finalized
      <4>2. /\ Len(exits'[h]) = Len(exits[h]) + 1
            /\ exits'[h][Len(exits[h]) + 1] = Len(instances) + 1
        BY <1>2, <3>3, <4>1, ConstructExits
      <4> QED
        BY <2>2, <3>4, <4>2
    <3> HIDE DEF s, h
    <3> QED
      BY <3>1, <3>2, <3>5
  <2> QED
    BY <1>2, <2>1, <2>2, ConstructType
<1>3. ASSUME NEW d \in Containers, Finalize(d)
      PROVE  LET x == instances'[i] IN
             /\ x.disposals <= 1
             /\ \A j \in x.uses : j < i
             /\ graph.life[x.of] # "hosted" /\ x.disposals = 0 =>
                  \E k \in 1..Len(exits'[x.home]) : exits'[x.home][k] = i
  <2> DEFINE n == Len(exits[d])
             last == exits[d][n]
             h == instances[i].home
  <2>1. n \in Nat \ {0} /\ n \in 1..n /\ i \in Ids
    BY <1>3, FinalizeType
  <2>2. instances[i] \in Instance(Ids)
    BY <2>1, InstanceFacts
  <2>3. CASE i = last
    <3>1. instances[i].disposals = 0
      BY <2>1, <2>3 DEF ExitInv
    <3>2. instances'[i] = [instances[i] EXCEPT !.disposals = @ + 1]
      BY <1>3, <2>1, <2>3, FinalizeType
    <3>3. instances'[i].disposals = 1 /\ instances'[i].uses = instances[i].uses
      BY <2>2, <3>1, <3>2 DEF Instance
    <3> QED
      BY <2>1, <3>3 DEF DisposalInv
  <2>4. CASE i # last
    <3>1. instances'[i] = instances[i] /\ h \in Containers
      BY <1>3, <2>1, <2>2, <2>4, FinalizeType DEF Instance
    <3>2. ASSUME NEW k \in 1..Len(exits[h]), exits[h][k] = i
          PROVE  k \in 1..Len(exits'[h]) /\ exits'[h][k] = i
      <4>1. CASE h = d
        BY <1>3, <2>1, <2>4, <3>2, <4>1, FinalizeType
      <4>2. CASE h # d
        BY <1>3, <3>1, <3>2, <4>2, FinalizeType
      <4> QED
        BY <4>1, <4>2
    <3> HIDE DEF h
    <3> QED
      BY <2>1, <3>1, <3>2 DEF DisposalInv, h
  <2> QED
    BY <2>3, <2>4
<1> QED
  BY <1>1, <1>2, <1>3, ExitSteps

----------------------------------------------------------------------------
(* The theorems. *)

LEMMA InitInv == Init => Inv
<1> SUFFICES ASSUME Init
             PROVE  Inv
  OBVIOUS
<1>1. Len(instances) = 0 /\ Ids = {}
  BY EmptySeq DEF Init, Ids
<1>2. \A t \in Tasks : stack[t] = <<>> /\ Len(stack[t]) = 0
  BY EmptySeq DEF Init
<1>3. \A c \in Containers : exits[c] = <<>> /\ Len(exits[c]) = 0
  BY EmptySeq DEF Init
<1>4. TypeOK
  <2>1. 0 \in 0..MaxGets
    BY GraphAssumption
  <2> QED
    BY <2>1, EmptySeq DEF Init, TypeOK
<1>5. StackInv /\ LockInv
  BY <1>2 DEF StackInv, LockInv, Building
<1>6. CacheInv /\ OnceInv /\ ExitInv /\ DisposalInv
  BY <1>1, <1>3 DEF CacheInv, OnceInv, ExitInv, DisposalInv
<1> QED
  BY <1>4, <1>5, <1>6 DEF Inv

LEMMA Invariance == Spec => []Inv
<1>1. Init => Inv
  BY InitInv
<1>2. Inv /\ [Next]_vars => Inv'
  BY TypeStep, StackInvStep, LockInvStep, CacheInvStep, OnceInvStep,
     ExitInvStep, DisposalInvStep DEF Inv
<1> QED
  BY <1>1, <1>2, PTL DEF Spec

LEMMA AtMostOne ==
  ASSUME NEW S, \A x, y \in S : x = y
  PROVE  Cardinality(S) <= 1
<1>1. CASE S = {}
  BY <1>1, FS_EmptySet
<1>2. CASE \E x \in S : S = {x}
  BY <1>2, FS_Singleton
<1> QED
  BY <1>1, <1>2

(* The variables keep their types: every instance in a cache, on a stack   *)
(* of exits or among the parameters of a get has been constructed.         *)
THEOREM Typing == Spec => []TypeOK
<1>1. Inv => TypeOK
  BY DEF Inv
<1> QED
  BY <1>1, Invariance, PTL

(* However many tasks and scopes ask for a singleton, in whatever order    *)
(* they come to the lock, it is constructed once until the container       *)
(* begins to close.                                                        *)
THEOREM SingletonsBuiltOnce == Spec => []SingletonOnce
<1>1. Inv => SingletonOnce
  <2> SUFFICES ASSUME Inv, NEW s \in Services, IsApp(s)
               PROVE  Cardinality(Made(s, Root)) <= 1
    BY DEF SingletonOnce
  <2>1. \A i, j \in Made(s, Root) : i = j
    BY DEF Inv, OnceInv, Made
  <2> QED
    BY <2>1, AtMostOne
<1> QED
  BY <1>1, Invariance, PTL

(* A scoped service is constructed once in its scope by the gets no other  *)
(* get of the scope overlaps.                                              *)
THEOREM ScopedBuiltOnce == Spec => []ScopedOnce
<1>1. Inv => ScopedOnce
  <2> SUFFICES ASSUME Inv, NEW c \in Scopes, NEW s \in Services,
                      graph.life[s] = "scoped"
               PROVE  Cardinality({i \in Made(s, c) : ~instances[i].contended}) <= 1
    BY DEF ScopedOnce
  <2>1. \A i, j \in {k \in Made(s, c) : ~instances[k].contended} : i = j
    BY DEF Inv, OnceInv, Made
  <2> QED
    BY <2>1, AtMostOne
<1> QED
  BY <1>1, Invariance, PTL

(* A container disposes of each instance it has built in time, and of none *)
(* twice.                                                                  *)
THEOREM DisposedExactlyOnce == Spec => []DisposedOnce
<1>1. Inv => DisposedOnce
  <2> SUFFICES ASSUME Inv, NEW i \in Ids
               PROVE  LET x == instances[i] IN
                      /\ x.disposals <= 1
                      /\ /\ phase[x.home] = "closed" /\ ~x.late
                         /\ graph.life[x.of] # "hosted"
                         => x.disposals = 1
    BY DEF DisposedOnce
  <2> DEFINE x == instances[i]
  <2>1. x \in Instance(Ids) /\ x.disposals \in Nat /\ x.home \in Containers
    BY InstanceFacts DEF Inv, Instance
  <2>2. x.disposals <= 1
    BY DEF Inv, DisposalInv
  <2>3. ASSUME phase[x.home] = "closed", ~x.late, graph.life[x.of] # "hosted",
               x.disposals = 0
        PROVE  FALSE
    <3>1. PICK k \in 1..Len(exits[x.home]) : exits[x.home][k] = i
      BY <2>3 DEF Inv, DisposalInv
    <3> QED
      BY <2>1, <2>3, <3>1 DEF Inv, ExitInv
  <2> HIDE DEF x
  <2> QED
    BY <2>1, <2>2, <2>3 DEF x
<1> QED
  BY <1>1, Invariance, PTL

(* An instance is disposed of after those of its container built on it:    *)
(* they are younger, and the youngest goes first.                          *)
THEOREM DependentsDisposedFirst == Spec => DependentsFirst
<1> DEFINE Step ==
      \A i \in Ids : instances'[i].disposals > instances[i].disposals =>
        \A j \in Ids :
          /\ i \in instances[j].uses
          /\ instances[j].home = instances[i].home
          /\ graph.life[instances[j].of] # "hosted"
          => instances[j].disposals > 0
<1>1. ASSUME Inv, [Next]_vars
      PROVE  [Step]_vars
  <2> SUFFICES
        ASSUME NEW i \in Ids, instances'[i].disposals > instances[i].disposals,
               NEW j \in Ids, i \in instances[j].uses,
               instances[j].home = instances[i].home,
               graph.life[instances[j].of] # "hosted"
        PROVE  instances[j].disposals > 0
    OBVIOUS
  <2>1. /\ TypeOK
        /\ instances[i] \in Instance(Ids) /\ instances[j] \in Instance(Ids)
        /\ instances[i].disposals \in Nat /\ instances[j].disposals \in Nat
    BY <1>1, InstanceFacts DEF Inv, Instance
  <2>2. PICK c \in Containers : Finalize(c)
    <3>1. instances'[i] # instances[i]
      BY <2>1
    <3> QED
      BY <1>1, <2>1, <3>1, ExitSteps, ConstructType
  <2> DEFINE n == Len(exits[c])
  <2>3. n \in Nat \ {0} /\ n \in 1..n /\ i = exits[c][n]
    <3>1. /\ n \in Nat \ {0}
          /\ i # exits[c][n] => instances'[i] = instances[i]
      BY <2>1, <2>2, FinalizeType
    <3>2. instances'[i] # instances[i]
      BY <2>1
    <3> QED
      BY <3>1, <3>2
  <2>4. instances[i].home = c
    BY <1>1, <2>3 DEF Inv, ExitInv
  <2>5. ASSUME instances[j].disposals = 0
        PROVE  FALSE
    <3>1. PICK k \in 1..n : exits[c][k] = j
      BY <1>1, <2>4, <2>5 DEF Inv, DisposalInv
    <3>2. i < j
      BY <1>1 DEF Inv, DisposalInv
    <3>3. j <= i
      BY <1>1, <2>3, <3>1 DEF Inv, ExitInv, Ids
    <3> QED
      BY <3>2, <3>3 DEF Ids
  <2> QED
    BY <2>1, <2>5
<1> QED
  BY <1>1, Invariance, PTL DEF Spec, DependentsFirst
=============================================================================
