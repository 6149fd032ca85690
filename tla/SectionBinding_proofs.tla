------------------------ MODULE SectionBinding_proofs ------------------------
(***************************************************************************)
(* Proofs about SectionBinding, for every configuration, every set of      *)
(* models and every depth of nesting: what the coercion returns agrees     *)
(* with what the section should come to, and from that the three           *)
(* invariants of the bootstrap.                                            *)
(*                                                                         *)
(* The argument follows the data.  Values, Coerced and Agreeing are        *)
(* functions of a depth; one induction shows that the coercion makes       *)
(* nothing deeper (CoercedFits), a second one that it comes to what it     *)
(* should (CoercionRight).  One level of the second rests on two facts     *)
(* about sequences: a dict that is assigned item after item keeps the last *)
(* value of each key (AssignAllFacts), and the order of an index dict      *)
(* exists and puts the item with n - 1 smaller ones at place n             *)
(* (RankedSorted).                                                         *)
(***************************************************************************)
EXTENDS SectionBinding, TLAPS, SequenceTheorems, FiniteSetTheorems

(* SetInduction, and the largest number of a set. *)
Routes == INSTANCE RouteInjection_proofs

----------------------------------------------------------------------------
(* The recursive functions are what their definitions say.  One proof for  *)
(* each of the four: no lemma can take the body as a parameter.            *)

ValuesBy(n, below) ==
  IF n = 0 THEN {} ELSE Scalars \cup Lists(below) \cup Dicts(below)

CoercedBy(n, below) ==
  [model \in Models |-> [v \in Values[n] |-> CoerceData(below, v, model)]]

AgreeingBy(n, below) ==
  {t \in Values[n] \X Values[n] \X Models :
     DataAgrees(below, t[1], t[2], t[3])}

MadeBy(items, n, below) ==
  IF n = 0 THEN <<>> ELSE Put(below, items[n].key, items[n].value)

LEMMA DepthNat == Depth \in Nat /\ Depth > 1
BY BindingAssumption

LEMMA ValuesBase == \A x, y : ValuesBy(0, x) = ValuesBy(0, y)
BY DEF ValuesBy

LEMMA ValuesExist ==
  \A m \in Nat : \E h : h = [n \in 0..m |-> ValuesBy(n, h[n - 1])]
<1> DEFINE S == {m \in Nat :
                   \E h : h = [n \in 0..m |-> ValuesBy(n, h[n - 1])]}
<1>1. 0 \in S
  <2> DEFINE h == [n \in 0..0 |-> ValuesBy(0, 0)]
  <2>1. \A n \in 0..0 : ValuesBy(n, h[n - 1]) = h[n]
    <3>1. ValuesBy(0, h[0 - 1]) = ValuesBy(0, 0)
      BY ValuesBase
    <3> HIDE DEF h
    <3>2. h[0] = ValuesBy(0, 0)
      BY DEF h
    <3> QED
      BY <3>1, <3>2
  <2>2. h = [n \in 0..0 |-> h[n]]
    OBVIOUS
  <2> HIDE DEF h
  <2>3. h = [n \in 0..0 |-> ValuesBy(n, h[n - 1])]
    BY <2>1, <2>2
  <2> QED
    BY <2>3
<1>2. ASSUME NEW m \in Nat, m \in S PROVE m + 1 \in S
  <2>1. PICK h : h = [n \in 0..m |-> ValuesBy(n, h[n - 1])]
    BY <1>2
  <2> DEFINE k == [n \in 0..(m + 1) |->
                     IF n = m + 1 THEN ValuesBy(m + 1, h[m]) ELSE h[n]]
  <2>2. \A n \in 0..m : k[n] = h[n]
    OBVIOUS
  <2>3. k[m + 1] = ValuesBy(m + 1, h[m])
    OBVIOUS
  <2>4. k = [n \in 0..(m + 1) |-> k[n]]
    OBVIOUS
  <2> HIDE DEF k
  <2>5. ASSUME NEW n \in 0..(m + 1) PROVE k[n] = ValuesBy(n, k[n - 1])
    <3>1. CASE n = m + 1
      <4>1. k[n - 1] = h[m]
        BY <2>2, <3>1
      <4> QED
        BY <2>3, <3>1, <4>1
    <3>2. CASE n \in 0..m /\ n # 0
      <4>1. n - 1 \in 0..m /\ k[n] = h[n] /\ k[n - 1] = h[n - 1]
        BY <2>2, <3>2
      <4>2. h[n] = ValuesBy(n, h[n - 1])
        BY <2>1, <3>2
      <4> QED
        BY <4>1, <4>2
    <3>3. CASE n = 0
      <4>1. k[0] = h[0] /\ h[0] = ValuesBy(0, h[0 - 1])
        BY <2>1, <2>2
      <4>2. ValuesBy(0, h[0 - 1]) = ValuesBy(0, k[0 - 1])
        BY ValuesBase
      <4> QED
        BY <3>3, <4>1, <4>2
    <3> QED
      BY <3>1, <3>2, <3>3
  <2>6. k = [n \in 0..(m + 1) |-> ValuesBy(n, k[n - 1])]
    BY <2>4, <2>5
  <2> QED
    BY <2>6
<1> HIDE DEF S
<1>3. Nat \subseteq S
  BY <1>1, <1>2, Routes!SetInduction
<1> QED
  BY <1>3 DEF S

LEMMA ValuesAt ==
  \A n \in 0..Depth : Values[n] = ValuesBy(n, Values[n - 1])
<1> DEFINE Is(h) == h = [n \in 0..Depth |-> ValuesBy(n, h[n - 1])]
<1>1. \E h : Is(h)
  BY ValuesExist, DepthNat
<1>2. Values = CHOOSE h : Is(h)
  BY DEF Values, ValuesBy
<1>3. Is(Values)
  BY <1>1, <1>2
<1> QED
  BY <1>3

LEMMA NoValues == Values[0] = {}
<1>1. 0 \in 0..Depth
  BY DepthNat
<1>2. Values[0] = ValuesBy(0, Values[0 - 1])
  BY <1>1, ValuesAt
<1> QED
  BY <1>2 DEF ValuesBy

LEMMA MoreValues ==
  ASSUME NEW n \in 1..Depth
  PROVE  Values[n] = Scalars \cup Lists(Values[n - 1]) \cup Dicts(Values[n - 1])
<1>1. n \in 0..Depth /\ n # 0
  BY DepthNat
<1>2. Values[n] = ValuesBy(n, Values[n - 1])
  BY <1>1, ValuesAt
<1> QED
  BY <1>1, <1>2 DEF ValuesBy

LEMMA CoercedBase == \A x, y : CoercedBy(0, x) = CoercedBy(0, y)
BY NoValues DEF CoercedBy

LEMMA CoercedExist ==
  \A m \in Nat : \E h : h = [n \in 0..m |-> CoercedBy(n, h[n - 1])]
<1> DEFINE S == {m \in Nat :
                   \E h : h = [n \in 0..m |-> CoercedBy(n, h[n - 1])]}
<1>1. 0 \in S
  <2> DEFINE h == [n \in 0..0 |-> CoercedBy(0, 0)]
  <2>1. \A n \in 0..0 : CoercedBy(n, h[n - 1]) = h[n]
    <3>1. CoercedBy(0, h[0 - 1]) = CoercedBy(0, 0)
      BY CoercedBase
    <3> HIDE DEF h
    <3>2. h[0] = CoercedBy(0, 0)
      BY DEF h
    <3> QED
      BY <3>1, <3>2
  <2>2. h = [n \in 0..0 |-> h[n]]
    OBVIOUS
  <2> HIDE DEF h
  <2>3. h = [n \in 0..0 |-> CoercedBy(n, h[n - 1])]
    BY <2>1, <2>2
  <2> QED
    BY <2>3
<1>2. ASSUME NEW m \in Nat, m \in S PROVE m + 1 \in S
  <2>1. PICK h : h = [n \in 0..m |-> CoercedBy(n, h[n - 1])]
    BY <1>2
  <2> DEFINE k == [n \in 0..(m + 1) |->
                     IF n = m + 1 THEN CoercedBy(m + 1, h[m]) ELSE h[n]]
  <2>2. \A n \in 0..m : k[n] = h[n]
    OBVIOUS
  <2>3. k[m + 1] = CoercedBy(m + 1, h[m])
    OBVIOUS
  <2>4. k = [n \in 0..(m + 1) |-> k[n]]
    OBVIOUS
  <2> HIDE DEF k
  <2>5. ASSUME NEW n \in 0..(m + 1) PROVE k[n] = CoercedBy(n, k[n - 1])
    <3>1. CASE n = m + 1
      <4>1. k[n - 1] = h[m]
        BY <2>2, <3>1
      <4> QED
        BY <2>3, <3>1, <4>1
    <3>2. CASE n \in 0..m /\ n # 0
      <4>1. n - 1 \in 0..m /\ k[n] = h[n] /\ k[n - 1] = h[n - 1]
        BY <2>2, <3>2
      <4>2. h[n] = CoercedBy(n, h[n - 1])
        BY <2>1, <3>2
      <4> QED
        BY <4>1, <4>2
    <3>3. CASE n = 0
      <4>1. k[0] = h[0] /\ h[0] = CoercedBy(0, h[0 - 1])
        BY <2>1, <2>2
      <4>2. CoercedBy(0, h[0 - 1]) = CoercedBy(0, k[0 - 1])
        BY CoercedBase
      <4> QED
        BY <3>3, <4>1, <4>2
    <3> QED
      BY <3>1, <3>2, <3>3
  <2>6. k = [n \in 0..(m + 1) |-> CoercedBy(n, k[n - 1])]
    BY <2>4, <2>5
  <2> QED
    BY <2>6
<1> HIDE DEF S
<1>3. Nat \subseteq S
  BY <1>1, <1>2, Routes!SetInduction
<1> QED
  BY <1>3 DEF S

LEMMA CoercedAt ==
  \A n \in 0..Depth : Coerced[n] = CoercedBy(n, Coerced[n - 1])
<1> DEFINE Is(h) == h = [n \in 0..Depth |-> CoercedBy(n, h[n - 1])]
<1>1. \E h : Is(h)
  BY CoercedExist, DepthNat
<1>2. Coerced = CHOOSE h : Is(h)
  BY DEF Coerced, CoercedBy
<1>3. Is(Coerced)
  BY <1>1, <1>2
<1> QED
  BY <1>3

LEMMA AgreeingBase == \A x, y : AgreeingBy(0, x) = AgreeingBy(0, y)
BY NoValues DEF AgreeingBy

LEMMA AgreeingExist ==
  \A m \in Nat : \E h : h = [n \in 0..m |-> AgreeingBy(n, h[n - 1])]
<1> DEFINE S == {m \in Nat :
                   \E h : h = [n \in 0..m |-> AgreeingBy(n, h[n - 1])]}
<1>1. 0 \in S
  <2> DEFINE h == [n \in 0..0 |-> AgreeingBy(0, 0)]
  <2>1. \A n \in 0..0 : AgreeingBy(n, h[n - 1]) = h[n]
    <3>1. AgreeingBy(0, h[0 - 1]) = AgreeingBy(0, 0)
      BY AgreeingBase
    <3> HIDE DEF h
    <3>2. h[0] = AgreeingBy(0, 0)
      BY DEF h
    <3> QED
      BY <3>1, <3>2
  <2>2. h = [n \in 0..0 |-> h[n]]
    OBVIOUS
  <2> HIDE DEF h
  <2>3. h = [n \in 0..0 |-> AgreeingBy(n, h[n - 1])]
    BY <2>1, <2>2
  <2> QED
    BY <2>3
<1>2. ASSUME NEW m \in Nat, m \in S PROVE m + 1 \in S
  <2>1. PICK h : h = [n \in 0..m |-> AgreeingBy(n, h[n - 1])]
    BY <1>2
  <2> DEFINE k == [n \in 0..(m + 1) |->
                     IF n = m + 1 THEN AgreeingBy(m + 1, h[m]) ELSE h[n]]
  <2>2. \A n \in 0..m : k[n] = h[n]
    OBVIOUS
  <2>3. k[m + 1] = AgreeingBy(m + 1, h[m])
    OBVIOUS
  <2>4. k = [n \in 0..(m + 1) |-> k[n]]
    OBVIOUS
  <2> HIDE DEF k
  <2>5. ASSUME NEW n \in 0..(m + 1) PROVE k[n] = AgreeingBy(n, k[n - 1])
    <3>1. CASE n = m + 1
      <4>1. k[n - 1] = h[m]
        BY <2>2, <3>1
      <4> QED
        BY <2>3, <3>1, <4>1
    <3>2. CASE n \in 0..m /\ n # 0
      <4>1. n - 1 \in 0..m /\ k[n] = h[n] /\ k[n - 1] = h[n - 1]
        BY <2>2, <3>2
      <4>2. h[n] = AgreeingBy(n, h[n - 1])
        BY <2>1, <3>2
      <4> QED
        BY <4>1, <4>2
    <3>3. CASE n = 0
      <4>1. k[0] = h[0] /\ h[0] = AgreeingBy(0, h[0 - 1])
        BY <2>1, <2>2
      <4>2. AgreeingBy(0, h[0 - 1]) = AgreeingBy(0, k[0 - 1])
        BY AgreeingBase
      <4> QED
        BY <3>3, <4>1, <4>2
    <3> QED
      BY <3>1, <3>2, <3>3
  <2>6. k = [n \in 0..(m + 1) |-> AgreeingBy(n, k[n - 1])]
    BY <2>4, <2>5
  <2> QED
    BY <2>6
<1> HIDE DEF S
<1>3. Nat \subseteq S
  BY <1>1, <1>2, Routes!SetInduction
<1> QED
  BY <1>3 DEF S

LEMMA AgreeingAt ==
  \A n \in 0..Depth : Agreeing[n] = AgreeingBy(n, Agreeing[n - 1])
<1> DEFINE Is(h) == h = [n \in 0..Depth |-> AgreeingBy(n, h[n - 1])]
<1>1. \E h : Is(h)
  BY AgreeingExist, DepthNat
<1>2. Agreeing = CHOOSE h : Is(h)
  BY DEF Agreeing, AgreeingBy
<1>3. Is(Agreeing)
  BY <1>1, <1>2
<1> QED
  BY <1>3

LEMMA MadeBase ==
  ASSUME NEW items
  PROVE  \A x, y : MadeBy(items, 0, x) = MadeBy(items, 0, y)
BY DEF MadeBy

LEMMA MadeExist ==
  ASSUME NEW items
  PROVE  \A m \in Nat : \E h : h = [n \in 0..m |-> MadeBy(items, n, h[n - 1])]
<1> DEFINE S == {m \in Nat :
                   \E h : h = [n \in 0..m |-> MadeBy(items, n, h[n - 1])]}
<1>1. 0 \in S
  <2> DEFINE h == [n \in 0..0 |-> MadeBy(items, 0, 0)]
  <2>1. \A n \in 0..0 : MadeBy(items, n, h[n - 1]) = h[n]
    <3>1. MadeBy(items, 0, h[0 - 1]) = MadeBy(items, 0, 0)
      BY MadeBase
    <3> HIDE DEF h
    <3>2. h[0] = MadeBy(items, 0, 0)
      BY DEF h
    <3> QED
      BY <3>1, <3>2
  <2>2. h = [n \in 0..0 |-> h[n]]
    OBVIOUS
  <2> HIDE DEF h
  <2>3. h = [n \in 0..0 |-> MadeBy(items, n, h[n - 1])]
    BY <2>1, <2>2
  <2> QED
    BY <2>3
<1>2. ASSUME NEW m \in Nat, m \in S PROVE m + 1 \in S
  <2>1. PICK h : h = [n \in 0..m |-> MadeBy(items, n, h[n - 1])]
    BY <1>2
  <2> DEFINE k == [n \in 0..(m + 1) |->
                     IF n = m + 1 THEN MadeBy(items, m + 1, h[m]) ELSE h[n]]
  <2>2. \A n \in 0..m : k[n] = h[n]
    OBVIOUS
  <2>3. k[m + 1] = MadeBy(items, m + 1, h[m])
    OBVIOUS
  <2>4. k = [n \in 0..(m + 1) |-> k[n]]
    OBVIOUS
  <2> HIDE DEF k
  <2>5. ASSUME NEW n \in 0..(m + 1) PROVE k[n] = MadeBy(items, n, k[n - 1])
    <3>1. CASE n = m + 1
      <4>1. k[n - 1] = h[m]
        BY <2>2, <3>1
      <4> QED
        BY <2>3, <3>1, <4>1
    <3>2. CASE n \in 0..m /\ n # 0
      <4>1. n - 1 \in 0..m /\ k[n] = h[n] /\ k[n - 1] = h[n - 1]
        BY <2>2, <3>2
      <4>2. h[n] = MadeBy(items, n, h[n - 1])
        BY <2>1, <3>2
      <4> QED
        BY <4>1, <4>2
    <3>3. CASE n = 0
      <4>1. k[0] = h[0] /\ h[0] = MadeBy(items, 0, h[0 - 1])
        BY <2>1, <2>2
      <4>2. MadeBy(items, 0, h[0 - 1]) = MadeBy(items, 0, k[0 - 1])
        BY MadeBase
      <4> QED
        BY <3>3, <4>1, <4>2
    <3> QED
      BY <3>1, <3>2, <3>3
  <2>6. k = [n \in 0..(m + 1) |-> MadeBy(items, n, k[n - 1])]
    BY <2>4, <2>5
  <2> QED
    BY <2>6
<1> HIDE DEF S
<1>3. Nat \subseteq S
  BY <1>1, <1>2, Routes!SetInduction
<1> QED
  BY <1>3 DEF S

LEMMA AssignAllAt ==
  ASSUME NEW items, Len(items) \in Nat
  PROVE  \E h : /\ \A n \in 0..Len(items) : h[n] = MadeBy(items, n, h[n - 1])
               /\ AssignAll(items) = h[Len(items)]
<1> DEFINE Is(h) == h = [n \in 0..Len(items) |-> MadeBy(items, n, h[n - 1])]
           f == CHOOSE h : Is(h)
<1>1. \E h : Is(h)
  BY MadeExist
<1>2. AssignAll(items) = f[Len(items)]
  BY DEF AssignAll, MadeBy
<1>3. Is(f)
  BY <1>1
<1> HIDE DEF f
<1> QED
  BY <1>2, <1>3

----------------------------------------------------------------------------
(* Values *)

DistinctKeys(items) ==
  \A i, j \in DOMAIN items : i # j => items[i].key # items[j].key

LEMMA ValueShape ==
  ASSUME NEW n \in 0..Depth, NEW v \in Values[n]
  PROVE  /\ n > 0 /\ n - 1 \in 0..Depth
         /\ v.tag \in {"scalar", "list", "dict"}
         /\ v.tag = "list" =>
              v.items \in Seq(Values[n - 1]) /\ v = List(v.items)
         /\ v.tag = "dict" =>
              /\ v.items \in Seq(Items(Values[n - 1])) /\ v = Dict(v.items)
              /\ DistinctKeys(v.items)
         /\ v.tag # "failure" /\ v # Failed
<1>1. n # 0
  BY NoValues
<1>2. n > 0 /\ n - 1 \in 0..Depth
  BY <1>1, DepthNat
<1>3. v \in Scalars \cup Lists(Values[n - 1]) \cup Dicts(Values[n - 1])
  BY <1>1, ValuesAt DEF ValuesBy
<1>4. Failed.tag = "failure"
  BY DEF Failed, Failure, Value
<1>5. CASE v \in Scalars
  BY <1>2, <1>4, <1>5 DEF Scalars, Generated, Scalar, Value
<1>6. CASE v \in Lists(Values[n - 1])
  BY <1>2, <1>4, <1>6 DEF Lists, List, Value
<1>7. CASE v \in Dicts(Values[n - 1])
  <2>1. v \in [tag : {"dict"}, val : {""}, items : Seq(Items(Values[n - 1]))]
        /\ DistinctKeys(v.items)
    BY <1>7 DEF Dicts, DistinctKeys
  <2> QED
    BY <1>2, <1>4, <2>1 DEF Dict, Value
<1> QED
  BY <1>3, <1>5, <1>6, <1>7

LEMMA GeneratedMade ==
  ASSUME NEW n \in 1..Depth
  PROVE  Generated \in Values[n]
<1>1. Values[n] = Scalars \cup Lists(Values[n - 1]) \cup Dicts(Values[n - 1])
  BY MoreValues
<1> QED
  BY <1>1 DEF Scalars

LEMMA ListMade ==
  ASSUME NEW n \in 1..Depth, NEW s \in Seq(Values[n - 1])
  PROVE  List(s) \in Values[n]
<1>1. Values[n] = Scalars \cup Lists(Values[n - 1]) \cup Dicts(Values[n - 1])
  BY MoreValues
<1>2. List(s) \in Lists(Values[n - 1])
  BY DEF Lists, List, Value
<1> QED
  BY <1>1, <1>2

LEMMA DictMade ==
  ASSUME NEW n \in 1..Depth, NEW s \in Seq(Items(Values[n - 1])),
         DistinctKeys(s)
  PROVE  Dict(s) \in Values[n]
<1>1. Values[n] = Scalars \cup Lists(Values[n - 1]) \cup Dicts(Values[n - 1])
  BY MoreValues
<1>2. Dict(s) \in Dicts(Values[n - 1])
  BY DEF Dicts, Dict, Value, DistinctKeys
<1> QED
  BY <1>1, <1>2

(* What can be said can also be said deeper down. *)
LEMMA ValuesGrow ==
  \A n \in 1..Depth : Values[n - 1] \subseteq Values[n]
<1> DEFINE S == {n \in Nat : n + 1 \in 1..Depth => Values[n] \subseteq Values[n + 1]}
<1>1. 0 \in S
  BY NoValues
<1>2. ASSUME NEW n \in Nat, n \in S PROVE n + 1 \in S
  <2> SUFFICES ASSUME n + 2 \in 1..Depth PROVE Values[n + 1] \subseteq Values[n + 2]
    OBVIOUS
  <2>1. Values[n] \subseteq Values[n + 1]
    BY <1>2, DepthNat
  <2>2. /\ Values[n + 1] = Scalars \cup Lists(Values[n]) \cup Dicts(Values[n])
        /\ Values[n + 2] =
             Scalars \cup Lists(Values[n + 1]) \cup Dicts(Values[n + 1])
    <3>1. n + 1 \in 0..Depth /\ n + 2 \in 0..Depth /\ n + 1 # 0 /\ n + 2 # 0
          /\ (n + 1) - 1 = n /\ (n + 2) - 1 = n + 1
      BY DepthNat
    <3> QED
      BY <3>1, ValuesAt DEF ValuesBy
  <2>3. Seq(Values[n]) \subseteq Seq(Values[n + 1])
    BY <2>1
  <2>4. Seq(Items(Values[n])) \subseteq Seq(Items(Values[n + 1]))
    <3>1. Items(Values[n]) \subseteq Items(Values[n + 1])
      BY <2>1 DEF Items
    <3> QED
      BY <3>1
  <2>5. Lists(Values[n]) \subseteq Lists(Values[n + 1])
    BY <2>3 DEF Lists
  <2>6. Dicts(Values[n]) \subseteq Dicts(Values[n + 1])
    BY <2>4 DEF Dicts
  <2> QED
    BY <2>2, <2>5, <2>6
<1> HIDE DEF S
<1>3. Nat \subseteq S
  BY <1>1, <1>2, Routes!SetInduction
<1>4. ASSUME NEW n \in 1..Depth PROVE Values[n - 1] \subseteq Values[n]
  <2>1. n - 1 \in Nat /\ (n - 1) + 1 = n
    BY DepthNat
  <2> QED
    BY <1>3, <2>1 DEF S
<1> QED
  BY <1>4

----------------------------------------------------------------------------
(* Assigning items to a dict *)

(* t is s with the item in it. *)
PutInto(s, item, t) ==
  /\ DistinctKeys(t)
  /\ \E i \in DOMAIN t : t[i] = item
  /\ \A i \in DOMAIN t :
       t[i] = item \/ (t[i].key # item.key /\ i \in DOMAIN s /\ t[i] = s[i])
  /\ \A i \in DOMAIN s : i \in DOMAIN t /\ t[i].key = s[i].key

LEMMA PutFacts ==
  ASSUME NEW V, NEW s \in Seq(Items(V)), DistinctKeys(s),
         NEW item \in Items(V)
  PROVE  /\ Put(s, item.key, item.value) \in Seq(Items(V))
         /\ PutInto(s, item, Put(s, item.key, item.value))
<1> DEFINE t == Put(s, item.key, item.value)
<1>1. Item(item.key, item.value) = item /\ item.key \in Keys /\ item.value \in V
  BY DEF Item, Items
<1>2. CASE \E i \in DOMAIN s : s[i].key = item.key
  <2>1. t = [i \in DOMAIN s |-> IF s[i].key = item.key THEN item ELSE s[i]]
    BY <1>1, <1>2 DEF Put
  <2>2. DOMAIN t = DOMAIN s
    BY <2>1
  <2>3. \A i \in DOMAIN s : t[i] = IF s[i].key = item.key THEN item ELSE s[i]
    BY <2>1
  <2>4. t \in Seq(Items(V))
    <3>1. DOMAIN s = 1..Len(s) /\ Len(s) \in Nat
      OBVIOUS
    <3>2. \A i \in 1..Len(s) : t[i] \in Items(V)
      BY <2>3, <3>1
    <3>3. t = [i \in 1..Len(s) |-> t[i]]
      BY <2>1, <3>1
    <3> HIDE DEF t
    <3> QED
      BY <3>1, <3>2, <3>3
  <2> HIDE DEF t
  <2>5. \A i \in DOMAIN s : t[i].key = s[i].key
    BY <2>3
  <2>6. DistinctKeys(t)
    BY <2>2, <2>5 DEF DistinctKeys
  <2>7. \E i \in DOMAIN t : t[i] = item
    BY <1>2, <2>2, <2>3
  <2> QED
    BY <2>2, <2>3, <2>4, <2>5, <2>6, <2>7 DEF t, PutInto
<1>3. CASE \A i \in DOMAIN s : s[i].key # item.key
  <2>1. t = Append(s, item)
    BY <1>1, <1>3 DEF Put
  <2>2. /\ t \in Seq(Items(V)) /\ DOMAIN s = 1..Len(s) /\ Len(s) \in Nat
        /\ DOMAIN t = 1..(Len(s) + 1)
        /\ t[Len(s) + 1] = item
        /\ \A i \in 1..Len(s) : t[i] = s[i]
    BY <2>1
  <2> HIDE DEF t
  <2>3. DistinctKeys(t)
    BY <1>3, <2>2 DEF DistinctKeys
  <2>4. \A i \in DOMAIN t :
          t[i] = item \/ (t[i].key # item.key /\ i \in DOMAIN s /\ t[i] = s[i])
    BY <1>3, <2>2
  <2>5. Len(s) + 1 \in DOMAIN t
    BY <2>2
  <2> QED
    BY <2>2, <2>3, <2>4, <2>5 DEF t, PutInto
<1> QED
  BY <1>2, <1>3

(* s is what the first n items come to: each key has its last value. *)
AssignedTo(s, items, n) ==
  /\ DistinctKeys(s)
  /\ \A i \in DOMAIN s : \E k \in 1..n :
       /\ s[i] = items[k]
       /\ \A j \in 1..n : j > k => items[j].key # items[k].key
  /\ \A k \in 1..n : \E i \in DOMAIN s : s[i].key = items[k].key

LEMMA PutAssigned ==
  ASSUME NEW V, NEW items \in Seq(Items(V)), NEW n \in Nat,
         n + 1 \in DOMAIN items,
         NEW s \in Seq(Items(V)), AssignedTo(s, items, n)
  PROVE  LET t == Put(s, items[n + 1].key, items[n + 1].value) IN
         t \in Seq(Items(V)) /\ AssignedTo(t, items, n + 1)
<1> DEFINE item == items[n + 1]
           t == Put(s, item.key, item.value)
<1>1. item \in Items(V)
  OBVIOUS
<1>2. t \in Seq(Items(V)) /\ PutInto(s, item, t)
  <2>1. DistinctKeys(s)
    BY DEF AssignedTo
  <2> QED
    BY <1>1, <2>1, PutFacts
<1> HIDE DEF t
<1>3. ASSUME NEW i \in DOMAIN t
      PROVE  \E k \in 1..(n + 1) :
               /\ t[i] = items[k]
               /\ \A j \in 1..(n + 1) : j > k => items[j].key # items[k].key
  <2>1. CASE t[i] = item
    BY <2>1
  <2>2. CASE t[i].key # item.key /\ i \in DOMAIN s /\ t[i] = s[i]
    <3>1. PICK k \in 1..n :
            /\ s[i] = items[k]
            /\ \A j \in 1..n : j > k => items[j].key # items[k].key
      BY <2>2 DEF AssignedTo
    <3>2. \A j \in 1..(n + 1) : j > k => items[j].key # items[k].key
      BY <2>2, <3>1
    <3> QED
      BY <2>2, <3>1, <3>2
  <2> QED
    BY <1>2, <2>1, <2>2 DEF PutInto
<1>4. ASSUME NEW k \in 1..(n + 1)
      PROVE  \E i \in DOMAIN t : t[i].key = items[k].key
  <2>1. CASE k = n + 1
    BY <1>2, <2>1 DEF PutInto
  <2>2. CASE k \in 1..n
    <3>1. PICK i \in DOMAIN s : s[i].key = items[k].key
      BY <2>2 DEF AssignedTo
    <3> QED
      BY <1>2, <3>1 DEF PutInto
  <2> QED
    BY <2>1, <2>2
<1> QED
  BY <1>2, <1>3, <1>4 DEF AssignedTo, PutInto, t

LEMMA AssignAllFacts ==
  ASSUME NEW V, NEW items \in Seq(Items(V))
  PROVE  /\ AssignAll(items) \in Seq(Items(V))
         /\ AssignedTo(AssignAll(items), items, Len(items))
<1>1. Len(items) \in Nat /\ DOMAIN items = 1..Len(items)
  OBVIOUS
<1>2. PICK h : /\ \A n \in 0..Len(items) : h[n] = MadeBy(items, n, h[n - 1])
               /\ AssignAll(items) = h[Len(items)]
  BY <1>1, AssignAllAt
<1> DEFINE S == {n \in Nat : n <= Len(items) =>
                   h[n] \in Seq(Items(V)) /\ AssignedTo(h[n], items, n)}
<1>3. 0 \in S
  <2>1. h[0] = <<>>
    BY <1>1, <1>2 DEF MadeBy
  <2>2. <<>> \in Seq(Items(V)) /\ DOMAIN <<>> = {} /\ 1..0 = {}
    OBVIOUS
  <2>3. AssignedTo(<<>>, items, 0)
    BY <2>2 DEF AssignedTo, DistinctKeys
  <2> QED
    BY <2>1, <2>2, <2>3
<1>4. ASSUME NEW n \in Nat, n \in S PROVE n + 1 \in S
  <2> SUFFICES ASSUME n + 1 <= Len(items)
               PROVE  /\ h[n + 1] \in Seq(Items(V))
                      /\ AssignedTo(h[n + 1], items, n + 1)
    OBVIOUS
  <2>1. h[n] \in Seq(Items(V)) /\ AssignedTo(h[n], items, n)
    BY <1>1, <1>4
  <2>2. n + 1 \in 0..Len(items) /\ n + 1 # 0 /\ (n + 1) - 1 = n
        /\ n + 1 \in DOMAIN items
    BY <1>1
  <2>3. h[n + 1] = Put(h[n], items[n + 1].key, items[n + 1].value)
    BY <1>2, <2>2 DEF MadeBy
  <2> QED
    BY <2>1, <2>2, <2>3, PutAssigned
<1> HIDE DEF S
<1>5. Nat \subseteq S
  BY <1>3, <1>4, Routes!SetInduction
<1>6. Len(items) \in S
  BY <1>1, <1>5
<1> QED
  BY <1>1, <1>2, <1>6 DEF S

----------------------------------------------------------------------------
(* Sorting an index dict *)

Numbered(items) ==
  \A i \in DOMAIN items : items[i].key.word \in DOMAIN Numeral

LEMMA BeforeOrder ==
  ASSUME NEW S, NEW items \in Seq(S), Numbered(items),
         NEW i \in DOMAIN items, NEW j \in DOMAIN items, NEW k \in DOMAIN items
  PROVE  /\ ~Before(items, i, i)
         /\ Before(items, i, j) /\ Before(items, j, k) => Before(items, i, k)
         /\ i # j => Before(items, i, j) \/ Before(items, j, i)
<1>1. i \in Nat /\ j \in Nat /\ k \in Nat
  OBVIOUS
<1>2. \A n \in DOMAIN items : Numeral[items[n].key.word] \in Nat
  BY BindingAssumption DEF Numbered
<1>3. /\ Numeral[items[i].key.word] \in Nat
      /\ Numeral[items[j].key.word] \in Nat
      /\ Numeral[items[k].key.word] \in Nat
  BY <1>2
<1> QED
  BY <1>1, <1>3 DEF Before

(* An order of the first n items. *)
Orders(order, items, n) ==
  /\ order \in [1..n -> 1..n]
  /\ \A i, j \in 1..n : i < j => Before(items, order[i], order[j])

(* The next item finds its place among them. *)
LEMMA NextPlace ==
  ASSUME NEW S, NEW items \in Seq(S), Numbered(items), NEW n \in Nat,
         n + 1 \in DOMAIN items, NEW order, Orders(order, items, n)
  PROVE  \E p \in 0..n :
           /\ \A i \in 1..n : i <= p => Before(items, order[i], n + 1)
           /\ \A i \in 1..n : i > p => Before(items, n + 1, order[i])
<1> DEFINE A == {i \in 1..n : Before(items, order[i], n + 1)}
<1>1. \A i \in 1..n : order[i] \in 1..n /\ order[i] \in DOMAIN items
                        /\ order[i] # n + 1
  BY DEF Orders
<1>2. ASSUME NEW i \in 1..n, ~Before(items, order[i], n + 1)
      PROVE  Before(items, n + 1, order[i])
  BY <1>1, <1>2, BeforeOrder
<1>3. CASE A = {}
  <2>1. 0 \in 0..n
    OBVIOUS
  <2>2. \A i \in 1..n : ~(i <= 0) /\ Before(items, n + 1, order[i])
    BY <1>2, <1>3
  <2> QED
    BY <2>1, <2>2
<1>4. CASE A # {}
  <2>1. A \in SUBSET (1..n)
    OBVIOUS
  <2>2. PICK p \in A : \A i \in A : i <= p
    <3> HIDE DEF A
    <3> QED
      BY <1>4, <2>1, Routes!LargestPlace
  <2>3. p \in 1..n /\ Before(items, order[p], n + 1) /\ p \in 0..n
    BY <2>2
  <2>4. ASSUME NEW i \in 1..n, i <= p PROVE Before(items, order[i], n + 1)
    <3>1. CASE i = p
      BY <2>3, <3>1
    <3>2. CASE i < p
      <4>1. Before(items, order[i], order[p])
        BY <2>3, <3>2 DEF Orders
      <4>2. order[i] \in DOMAIN items /\ order[p] \in DOMAIN items
        BY <1>1, <2>3
      <4> QED
        BY <2>3, <4>1, <4>2, BeforeOrder
    <3> QED
      BY <2>3, <2>4, <3>1, <3>2
  <2>5. ASSUME NEW i \in 1..n, i > p PROVE Before(items, n + 1, order[i])
    <3>1. i \notin A
      BY <2>2, <2>3, <2>5
    <3> QED
      BY <1>2, <3>1
  <2> QED
    BY <2>3, <2>4, <2>5
<1> QED
  BY <1>3, <1>4

LEMMA OrderExists ==
  ASSUME NEW S, NEW items \in Seq(S), Numbered(items)
  PROVE  \E order : Orders(order, items, Len(items))
<1> DEFINE T == {n \in Nat : n <= Len(items) =>
                               \E order : Orders(order, items, n)}
<1>1. 0 \in T
  <2> DEFINE order == [i \in 1..0 |-> i]
  <2>1. 1..0 = {}
    OBVIOUS
  <2>2. order \in [1..0 -> 1..0]
    OBVIOUS
  <2>3. Orders(order, items, 0)
    BY <2>1, <2>2 DEF Orders
  <2> QED
    BY <2>3
<1>2. ASSUME NEW n \in Nat, n \in T PROVE n + 1 \in T
  <2> SUFFICES ASSUME n + 1 <= Len(items)
               PROVE  \E order : Orders(order, items, n + 1)
    OBVIOUS
  <2>1. n <= Len(items) /\ n + 1 \in DOMAIN items
        /\ 1..n \subseteq DOMAIN items
    OBVIOUS
  <2>2. PICK order : Orders(order, items, n)
    BY <1>2, <2>1
  <2>3. PICK p \in 0..n :
          /\ \A i \in 1..n : i <= p => Before(items, order[i], n + 1)
          /\ \A i \in 1..n : i > p => Before(items, n + 1, order[i])
    BY <2>1, <2>2, NextPlace
  <2> DEFINE next == [i \in 1..(n + 1) |->
                        IF i <= p THEN order[i]
                        ELSE IF i = p + 1 THEN n + 1 ELSE order[i - 1]]
  <2>4. ASSUME NEW i \in 1..(n + 1)
        PROVE  \/ i <= p /\ i \in 1..n /\ next[i] = order[i]
               \/ i = p + 1 /\ next[i] = n + 1
               \/ i > p + 1 /\ i - 1 \in 1..n /\ i - 1 > p
                  /\ next[i] = order[i - 1]
    OBVIOUS
  <2>5. \A i \in 1..n : order[i] \in 1..n
    BY <2>2 DEF Orders
  <2>6. next \in [1..(n + 1) -> 1..(n + 1)]
    <3>1. \A i \in 1..(n + 1) : next[i] \in 1..(n + 1)
      <4> HIDE DEF next
      <4> QED
        BY <2>4, <2>5
    <3>2. next = [i \in 1..(n + 1) |-> next[i]]
      OBVIOUS
    <3> HIDE DEF next
    <3> QED
      BY <3>1, <3>2
  <2> HIDE DEF next
  <2>7. ASSUME NEW i \in 1..(n + 1), NEW j \in 1..(n + 1), i < j
        PROVE  Before(items, next[i], next[j])
    <3>1. \A k, l \in 1..n : k < l => Before(items, order[k], order[l])
      BY <2>2 DEF Orders
    <3>2. CASE i <= p /\ i \in 1..n /\ next[i] = order[i]
      <4>1. CASE j <= p /\ j \in 1..n /\ next[j] = order[j]
        BY <2>7, <3>1, <3>2, <4>1
      <4>2. CASE j = p + 1 /\ next[j] = n + 1
        BY <2>3, <3>2, <4>2
      <4>3. CASE /\ j > p + 1 /\ j - 1 \in 1..n /\ j - 1 > p
                 /\ next[j] = order[j - 1]
        <5>1. i < j - 1
          BY <3>2, <4>3
        <5> QED
          BY <3>1, <3>2, <4>3, <5>1
      <4> QED
        BY <2>4, <4>1, <4>2, <4>3
    <3>3. CASE i = p + 1 /\ next[i] = n + 1
      <4>1. j > p + 1
        BY <2>7, <3>3
      <4>2. j - 1 \in 1..n /\ j - 1 > p /\ next[j] = order[j - 1]
        BY <2>4, <4>1
      <4> QED
        BY <2>3, <3>3, <4>2
    <3>4. CASE /\ i > p + 1 /\ i - 1 \in 1..n /\ i - 1 > p
               /\ next[i] = order[i - 1]
      <4>1. j > p + 1
        BY <2>7, <3>4
      <4>2. j - 1 \in 1..n /\ next[j] = order[j - 1] /\ i - 1 < j - 1
        BY <2>4, <2>7, <4>1
      <4> QED
        BY <3>1, <3>4, <4>2
    <3> QED
      BY <2>4, <3>2, <3>3, <3>4
  <2>8. Orders(next, items, n + 1)
    BY <2>6, <2>7 DEF Orders
  <2> QED
    BY <2>8
<1> HIDE DEF T
<1>3. Nat \subseteq T
  BY <1>1, <1>2, Routes!SetInduction
<1>4. Len(items) \in Nat
  OBVIOUS
<1> QED
  BY <1>3, <1>4 DEF T

LEMMA SortedFacts ==
  ASSUME NEW S, NEW items \in Seq(S), Numbered(items)
  PROVE  Orders(Sorted(items), items, Len(items))
<1> DEFINE Is(order) ==
      \A n, k \in DOMAIN items : n < k => Before(items, order[n], order[k])
<1>1. DOMAIN items = 1..Len(items)
  OBVIOUS
<1>2. PICK order : Orders(order, items, Len(items))
  BY OrderExists
<1>3. order \in [DOMAIN items -> DOMAIN items] /\ Is(order)
  BY <1>1, <1>2 DEF Orders
<1>4. Sorted(items) \in [DOMAIN items -> DOMAIN items] /\ Is(Sorted(items))
  <2>1. Sorted(items) = CHOOSE o \in [DOMAIN items -> DOMAIN items] : Is(o)
    BY DEF Sorted
  <2> HIDE DEF Is
  <2> QED
    BY <1>3, <2>1
<1> QED
  BY <1>1, <1>4 DEF Orders


(* Every item has its place in the order, and n - 1 come before the n-th. *)
LEMMA SortedCounts ==
  ASSUME NEW S, NEW items \in Seq(S), Numbered(items)
  PROVE  LET order == Sorted(items) IN
         /\ \A i \in DOMAIN items : \E n \in DOMAIN items : order[n] = i
         /\ \A n \in DOMAIN items :
              /\ order[n] \in DOMAIN items
              /\ Cardinality({j \in DOMAIN items : Before(items, j, order[n])})
                   = n - 1
<1> DEFINE N == Len(items)
           order == Sorted(items)
           Smaller(n) == {j \in 1..N : Before(items, j, order[n])}
<1>1. N \in Nat /\ DOMAIN items = 1..N
  OBVIOUS
<1>2. /\ order \in [1..N -> 1..N]
      /\ \A i, j \in 1..N : i < j => Before(items, order[i], order[j])
  BY SortedFacts DEF Orders
<1> HIDE DEF N, order
<1>3. \A i, j \in 1..N : i # j => order[i] # order[j]
  <2> SUFFICES ASSUME NEW i \in 1..N, NEW j \in 1..N, i # j
               PROVE  order[i] # order[j]
    OBVIOUS
  <2>1. order[i] \in DOMAIN items /\ order[j] \in DOMAIN items
    BY <1>1, <1>2
  <2>2. CASE i < j
    <3>1. Before(items, order[i], order[j])
      BY <1>2, <2>2
    <3> QED
      BY <2>1, <3>1, BeforeOrder
  <2>3. CASE j < i
    <3>1. Before(items, order[j], order[i])
      BY <1>2, <2>3
    <3> QED
      BY <2>1, <3>1, BeforeOrder
  <2> QED
    BY <1>1, <2>2, <2>3
<1>4. order \in Surjection(1..N, 1..N)
  <2>1. order \in Injection(1..N, 1..N)
    BY <1>2, <1>3 DEF Injection, IsInjective
  <2>2. IsFiniteSet(1..N)
    BY <1>1, FS_Interval
  <2> QED
    BY <2>1, <2>2, FS_Injection
<1>5. \A i \in 1..N : \E n \in 1..N : order[n] = i
  BY <1>4 DEF Surjection
<1>6. ASSUME NEW n \in 1..N PROVE Cardinality(Smaller(n)) = n - 1
  <2> DEFINE f == [i \in 1..(n - 1) |-> order[i]]
  <2>1. ASSUME NEW i \in 1..(n - 1) PROVE order[i] \in Smaller(n)
    BY <1>1, <1>2, <2>1
  <2>2. ASSUME NEW j \in Smaller(n)
        PROVE  \E i \in 1..(n - 1) : order[i] = j
    <3>1. PICK i \in 1..N : order[i] = j
      BY <1>5
    <3>2. order[i] \in DOMAIN items /\ order[n] \in DOMAIN items
          /\ Before(items, order[i], order[n])
      BY <1>1, <1>2, <3>1
    <3>3. ~(n < i)
      <4> SUFFICES ASSUME n < i PROVE FALSE
        OBVIOUS
      <4>1. Before(items, order[n], order[i])
        BY <1>2
      <4> QED
        BY <3>2, <4>1, BeforeOrder
    <3>4. i # n
      BY <3>2, BeforeOrder
    <3> QED
      BY <1>1, <3>1, <3>3, <3>4
  <2> HIDE DEF Smaller
  <2>3. f \in [1..(n - 1) -> Smaller(n)]
    BY <2>1
  <2>4. \A i, j \in 1..(n - 1) : f[i] = f[j] => i = j
    <3>1. \A i \in 1..(n - 1) : i \in 1..N /\ f[i] = order[i]
      BY <1>1
    <3> HIDE DEF f
    <3> QED
      BY <1>3, <3>1
  <2>5. \A j \in Smaller(n) : \E i \in 1..(n - 1) : f[i] = j
    BY <2>2
  <2> HIDE DEF f
  <2>6. f \in Bijection(1..(n - 1), Smaller(n))
    BY <2>3, <2>4, <2>5 DEF Bijection, Injection, Surjection, IsInjective
  <2>7. ExistsBijection(1..(n - 1), Smaller(n))
    BY <2>6 DEF ExistsBijection
  <2>8. IsFiniteSet(1..(n - 1)) /\ Cardinality(1..(n - 1)) = n - 1
    BY <1>1, FS_Interval
  <2> QED
    BY <2>7, <2>8, FS_Bijection
<1> QED
  BY <1>1, <1>2, <1>5, <1>6 DEF order

LEMMA RankedSorted ==
  ASSUME NEW S, NEW v, v.items \in Seq(S), Numbered(v.items),
         NEW n \in DOMAIN v.items
  PROVE  /\ Sorted(v.items)[n] \in DOMAIN v.items
         /\ Ranked(v, n) = v.items[Sorted(v.items)[n]].value
<1> DEFINE items == v.items
           order == Sorted(items)
           Smaller(i) == {j \in DOMAIN items : Before(items, j, i)}
           Is(i) == Cardinality(Smaller(i)) = n - 1
           c == CHOOSE i \in DOMAIN items : Is(i)
<1>1. /\ \A i \in DOMAIN items : \E k \in DOMAIN items : order[k] = i
      /\ \A k \in DOMAIN items :
           order[k] \in DOMAIN items /\ Cardinality(Smaller(order[k])) = k - 1
  BY SortedCounts
<1>2. Ranked(v, n) = items[c].value
  BY DEF Ranked, At, Before
<1>3. order[n] \in DOMAIN items /\ Is(order[n])
  BY <1>1
<1>4. c \in DOMAIN items /\ Is(c)
  <2> HIDE DEF Is
  <2> QED
    BY <1>3
<1> HIDE DEF c, Smaller, order
<1>5. PICK k \in DOMAIN items : order[k] = c
  BY <1>1, <1>4
<1>6. Cardinality(Smaller(c)) = k - 1
  BY <1>1, <1>5
<1>7. k - 1 = n - 1 /\ k \in Nat /\ n \in Nat
  BY <1>4, <1>6
<1>8. k = n
  BY <1>7
<1> QED
  BY <1>2, <1>3, <1>5, <1>8 DEF order

----------------------------------------------------------------------------
(* What coercion does to a field *)

LEMMA ItemParts ==
  ASSUME NEW V, NEW item \in Items(V)
  PROVE  /\ item.key \in Keys /\ item.value \in V
         /\ item = Item(item.key, item.value)
BY DEF Items, Item

LEMMA ItemMade ==
  ASSUME NEW V, NEW key \in Keys, NEW value \in V
  PROVE  Item(key, value) \in Items(V)
BY DEF Items, Item

LEMMA KeyAndValue ==
  ASSUME NEW key, NEW value
  PROVE  Item(key, value).key = key /\ Item(key, value).value = value
BY DEF Item

LEMMA Contents ==
  ASSUME NEW s
  PROVE  /\ List(s).items = s /\ List(s).tag = "list"
         /\ Dict(s).items = s /\ Dict(s).tag = "dict"
BY DEF List, Dict, Value

Indexed(v) ==
  /\ v.tag = "dict" /\ v.items # <<>>
  /\ \A key \in KeysOf(v) : IsIndexKey(key)

LEMMA ListedFacts ==
  ASSUME NEW n \in 0..Depth, NEW v \in Values[n]
  PROVE  \/ ~Indexed(v) /\ IndexedToList(v) = v
         \/ Indexed(v) /\ IndexedToList(v) = Failed
         \/ \E s \in Seq(Values[n - 1]) :
              /\ Indexed(v) /\ IndexedToList(v) = List(s)
              /\ Len(s) = Len(v.items) /\ DOMAIN s = DOMAIN v.items
              /\ \A i \in DOMAIN s : s[i] = Ranked(v, i)
<1>1. CASE ~Indexed(v)
  BY <1>1 DEF Indexed, IndexedToList
<1>2. CASE Indexed(v) /\ \E key \in KeysOf(v) : key.word \in OddDigits
  BY <1>2 DEF Indexed, IndexedToList
<1>3. CASE Indexed(v) /\ ~\E key \in KeysOf(v) : key.word \in OddDigits
  <2> DEFINE order == Sorted(v.items)
             s == [i \in DOMAIN v.items |-> v.items[order[i]].value]
  <2>1. v.items \in Seq(Items(Values[n - 1]))
    BY <1>3, ValueShape DEF Indexed
  <2>2. IndexedToList(v) = List(s)
    BY <1>3 DEF Indexed, IndexedToList
  <2>3. Numbered(v.items)
    BY <1>3 DEF Indexed, Numbered, IsIndexKey, KeysOf
  <2>4. \A i \in DOMAIN v.items :
          /\ order[i] \in DOMAIN v.items
          /\ Ranked(v, i) = v.items[order[i]].value
    BY <2>1, <2>3, RankedSorted
  <2> HIDE DEF order
  <2>5. \A i \in DOMAIN v.items : v.items[order[i]].value \in Values[n - 1]
    <3>1. \A i \in DOMAIN v.items : v.items[i] \in Items(Values[n - 1])
      BY <2>1
    <3> QED
      BY <2>4, <3>1, ItemParts
  <2>6. DOMAIN v.items = 1..Len(v.items) /\ Len(v.items) \in Nat
    BY <2>1
  <2>7. s \in Seq(Values[n - 1]) /\ Len(s) = Len(v.items)
        /\ DOMAIN s = DOMAIN v.items
    BY <2>5, <2>6
  <2>8. \A i \in DOMAIN s : s[i] = Ranked(v, i)
    BY <2>4
  <2> QED
    BY <1>3, <2>2, <2>7, <2>8
<1> QED
  BY <1>1, <1>2, <1>3

(* An annotation names a model in one of three ways. *)
LEMMA OneModel ==
  ASSUME NEW a
  PROVE  /\ BaseModelOf(a) # NoModel =>
              /\ ArgumentModel(a, "list", 1) = NoModel
              /\ ArgumentModel(a, "dict", 2) = NoModel
         /\ ArgumentModel(a, "list", 1) # NoModel =>
              ArgumentModel(a, "dict", 2) = NoModel
BY DEF BaseModelOf, ArgumentModel

Elements(nested, items, m) == [i \in DOMAIN items |-> nested[m][items[i]]]

Entries(nested, items, m) ==
  [i \in DOMAIN items |-> Item(items[i].key, nested[m][items[i].value])]

(* The arms of CoerceField, each with all of its conditions. *)
FieldArms(nested, v, a, result) ==
  LET m == BaseModelOf(a)
      k == ArgumentModel(a, "list", 1)
      l == ArgumentModel(a, "dict", 2)
      listed == IndexedToList(v)
  IN  \/ m # NoModel /\ v.tag = "dict" /\ result = nested[m][v]
      \/ k # NoModel /\ m = NoModel /\ listed.tag = "failure" /\ result = Failed
      \/ /\ k # NoModel /\ m = NoModel /\ listed.tag = "list"
         /\ \/ result = Failed
            \/ /\ result = List(Elements(nested, listed.items, k))
               /\ \A i \in DOMAIN listed.items :
                    nested[k][listed.items[i]] # Failed
      \/ /\ l # NoModel /\ m = NoModel /\ k = NoModel /\ v.tag = "dict"
         /\ \/ result = Failed
            \/ /\ result = Dict(Entries(nested, v.items, l))
               /\ \A i \in DOMAIN v.items : nested[l][v.items[i].value] # Failed
      \/ /\ result = v
         /\ m # NoModel \/ l # NoModel => v.tag # "dict"
         /\ k # NoModel => listed.tag \notin {"failure", "list"}

LEMMA FieldCases ==
  ASSUME NEW v, NEW a, NEW nested
  PROVE  FieldArms(nested, v, a, CoerceField(nested, v, a))
<1> DEFINE m == BaseModelOf(a)
           k == ArgumentModel(a, "list", 1)
           l == ArgumentModel(a, "dict", 2)
           listed == IndexedToList(v)
           elements == Elements(nested, listed.items, k)
           entries == Entries(nested, v.items, l)
           field == CoerceField(nested, v, a)
<1>1. field = CASE m # NoModel /\ v.tag = "dict" -> nested[m][v]
                [] k # NoModel /\ listed.tag = "failure" -> Failed
                [] k # NoModel /\ listed.tag = "list" ->
                     Unless(elements, List(elements))
                [] l # NoModel /\ v.tag = "dict" ->
                     Unless(ValuesOf(entries), Dict(entries))
                [] OTHER -> v
  BY DEF CoerceField, Elements, Entries
<1>2. /\ m # NoModel => k = NoModel /\ l = NoModel
      /\ k # NoModel => l = NoModel
  BY OneModel
<1>3. \/ Unless(elements, List(elements)) = Failed
      \/ /\ Unless(elements, List(elements)) = List(elements)
         /\ \A i \in DOMAIN listed.items : nested[k][listed.items[i]] # Failed
  BY DEF Unless, Elements
<1>4. \/ Unless(ValuesOf(entries), Dict(entries)) = Failed
      \/ /\ Unless(ValuesOf(entries), Dict(entries)) = Dict(entries)
         /\ \A i \in DOMAIN v.items : nested[l][v.items[i].value] # Failed
  <2>1. DOMAIN ValuesOf(entries) = DOMAIN v.items
        /\ \A i \in DOMAIN v.items :
             ValuesOf(entries)[i] = nested[l][v.items[i].value]
    BY DEF ValuesOf, Entries, Item
  <2> QED
    BY <2>1 DEF Unless
<1> HIDE DEF m, k, l, listed, elements, entries, field
<1>5. CASE m # NoModel /\ v.tag = "dict"
  <2>1. field = nested[m][v]
    BY <1>1, <1>2, <1>5
  <2> QED
    BY <1>5, <2>1 DEF FieldArms, field, m
<1>6. CASE k # NoModel /\ listed.tag = "failure"
  <2>1. field = Failed
    BY <1>1, <1>2, <1>6
  <2> QED
    BY <1>2, <1>6, <2>1 DEF FieldArms, field, m, k, listed
<1>7. CASE k # NoModel /\ listed.tag = "list"
  <2>1. field = Unless(elements, List(elements))
    BY <1>1, <1>2, <1>7
  <2> QED
    BY <1>2, <1>3, <1>7, <2>1 DEF FieldArms, field, m, k, listed, elements
<1>8. CASE l # NoModel /\ v.tag = "dict"
  <2>1. field = Unless(ValuesOf(entries), Dict(entries))
    BY <1>1, <1>2, <1>8
  <2> QED
    BY <1>2, <1>4, <1>8, <2>1 DEF FieldArms, field, m, k, l, entries
<1>9. CASE /\ m # NoModel \/ l # NoModel => v.tag # "dict"
           /\ k # NoModel => listed.tag \notin {"failure", "list"}
  <2>1. field = v
    BY <1>1, <1>9
  <2> QED
    BY <1>9, <2>1 DEF FieldArms, field, m, k, l, listed
<1> QED
  BY <1>5, <1>6, <1>7, <1>8, <1>9

(* Nothing gets deeper. *)
Fits(nested, n) ==
  \A k \in 0..n : \A m \in Models : \A v \in Values[k] :
    nested[m][v] \in Values[k] \cup {Failed}

LEMMA FieldFits ==
  ASSUME NEW n \in 0..Depth, NEW nested, Fits(nested, n),
         NEW k \in 0..n, NEW v \in Values[k],
         NEW a, ModelsIn(a) \subseteq Models \cup {NoModel}
  PROVE  CoerceField(nested, v, a) \in Values[k] \cup {Failed}
<1> DEFINE field == CoerceField(nested, v, a)
           m == BaseModelOf(a)
           itemModel == ArgumentModel(a, "list", 1)
           valueModel == ArgumentModel(a, "dict", 2)
           listed == IndexedToList(v)
<1>1. {m, itemModel, valueModel} \subseteq Models \cup {NoModel}
  BY DEF ModelsIn
<1>2. /\ k > 0 /\ k \in 0..Depth /\ k \in 1..Depth
      /\ k - 1 \in 0..n /\ k - 1 \in 0..Depth
  <2>1. k \in 0..Depth
    BY DepthNat
  <2> QED
    BY <2>1, DepthNat, ValueShape
<1>3. FieldArms(nested, v, a, field)
  BY FieldCases
<1>4. \A l \in Models, w \in Values[k - 1] :
        nested[l][w] \in Values[k - 1] \cup {Failed}
  BY <1>2 DEF Fits
<1> HIDE DEF field
<1>5. CASE m # NoModel /\ v.tag = "dict" /\ field = nested[m][v]
  BY <1>1, <1>5 DEF Fits, field
<1>6. CASE field = Failed \/ field = v
  BY <1>6 DEF field
<1>7. CASE /\ itemModel # NoModel /\ listed.tag = "list"
           /\ field = List(Elements(nested, listed.items, itemModel))
           /\ \A i \in DOMAIN listed.items :
                nested[itemModel][listed.items[i]] # Failed
  <2>1. listed.items \in Seq(Values[k - 1])
    <3>1. CASE listed = v
      BY <1>2, <1>7, <3>1, ValueShape
    <3>2. CASE listed = Failed
      BY <1>7, <3>2 DEF Failed, Failure, Value
    <3>3. CASE \E s \in Seq(Values[k - 1]) : listed = List(s)
      <4>1. PICK s \in Seq(Values[k - 1]) : listed = List(s)
        BY <3>3
      <4>2. listed.items = s
        BY <4>1, Contents
      <4> QED
        BY <4>2
    <3> QED
      BY <1>2, <3>1, <3>2, <3>3, ListedFacts
  <2> DEFINE s == Elements(nested, listed.items, itemModel)
  <2> HIDE DEF itemModel, listed
  <2>2. s \in Seq(Values[k - 1])
    <3>1. itemModel \in Models
      BY <1>1, <1>7
    <3>2. \A i \in DOMAIN listed.items :
            nested[itemModel][listed.items[i]] \in Values[k - 1]
      BY <1>4, <1>7, <2>1, <3>1
    <3> QED
      BY <2>1, <3>2 DEF Elements
  <2> QED
    BY <1>2, <1>7, <2>2, ListMade DEF field
<1>8. CASE /\ valueModel # NoModel /\ v.tag = "dict"
           /\ field = Dict(Entries(nested, v.items, valueModel))
           /\ \A i \in DOMAIN v.items :
                nested[valueModel][v.items[i].value] # Failed
  <2>1. v.items \in Seq(Items(Values[k - 1])) /\ DistinctKeys(v.items)
    BY <1>2, <1>8, ValueShape
  <2> DEFINE s == Entries(nested, v.items, valueModel)
  <2> HIDE DEF valueModel
  <2>2. s \in Seq(Items(Values[k - 1])) /\ DistinctKeys(s)
    <3>1. valueModel \in Models
      BY <1>1, <1>8
    <3>2. \A i \in DOMAIN v.items :
            /\ v.items[i].key \in Keys
            /\ nested[valueModel][v.items[i].value] \in Values[k - 1]
      <4>1. \A i \in DOMAIN v.items : v.items[i] \in Items(Values[k - 1])
        BY <2>1
      <4>2. \A i \in DOMAIN v.items :
              v.items[i].key \in Keys /\ v.items[i].value \in Values[k - 1]
        BY <4>1, ItemParts
      <4> QED
        BY <1>4, <1>8, <3>1, <4>2
    <3>3. DOMAIN v.items = 1..Len(v.items) /\ Len(v.items) \in Nat
      BY <2>1
    <3>4. DOMAIN s = DOMAIN v.items
          /\ \A i \in DOMAIN s :
               s[i] = Item(v.items[i].key, nested[valueModel][v.items[i].value])
      BY DEF Entries
    <3>5. \A i \in DOMAIN s :
            s[i] \in Items(Values[k - 1]) /\ s[i].key = v.items[i].key
      <4> HIDE DEF s
      <4> QED
        BY <3>2, <3>4, ItemMade, KeyAndValue
    <3>6. s \in Seq(Items(Values[k - 1]))
      <4>1. s = [i \in 1..Len(v.items) |-> s[i]]
        BY <3>3 DEF Entries
      <4> HIDE DEF s
      <4> QED
        BY <3>3, <3>4, <3>5, <4>1
    <3> HIDE DEF s
    <3> QED
      BY <2>1, <3>4, <3>5, <3>6 DEF DistinctKeys
  <2> QED
    BY <1>2, <1>8, <2>2, DictMade DEF field
<1> QED
  BY <1>3, <1>5, <1>6, <1>7, <1>8 DEF FieldArms

----------------------------------------------------------------------------
(* What coercion does to the data of a model *)

LEMMA ValuesBelow ==
  \A n \in 0..Depth : \A k \in 0..n : Values[k] \subseteq Values[n]
<1> DEFINE S == {n \in Nat : n \in 0..Depth =>
                               \A k \in 0..n : Values[k] \subseteq Values[n]}
<1>1. 0 \in S
  OBVIOUS
<1>2. ASSUME NEW n \in Nat, n \in S PROVE n + 1 \in S
  <2> SUFFICES ASSUME n + 1 \in 0..Depth, NEW k \in 0..(n + 1)
               PROVE  Values[k] \subseteq Values[n + 1]
    OBVIOUS
  <2>1. n \in 0..Depth /\ n + 1 \in 1..Depth /\ (n + 1) - 1 = n
    BY DepthNat
  <2>2. Values[n] \subseteq Values[n + 1]
    BY <2>1, ValuesGrow
  <2>3. CASE k \in 0..n
    BY <1>2, <2>1, <2>2, <2>3
  <2>4. CASE k = n + 1
    BY <2>4
  <2> QED
    BY <2>3, <2>4
<1> HIDE DEF S
<1>3. Nat \subseteq S
  BY <1>1, <1>2, Routes!SetInduction
<1>4. 0..Depth \subseteq Nat
  BY DepthNat
<1> QED
  BY <1>3, <1>4 DEF S

BoundItems(nested, items, model) ==
  [i \in DOMAIN items |-> CoerceItem(nested, items[i], model)]

LEMMA ItemCases ==
  ASSUME NEW nested, NEW item, NEW model
  PROVE  /\ IsField(item.key, model) =>
              /\ CoerceItem(nested, item, model).key = FieldKey(item.key.word)
              /\ CoerceItem(nested, item, model).value =
                   CoerceField(nested, item.value, Fields[model][item.key.word])
              /\ item.key.word \in DOMAIN Fields[model]
         /\ ~IsField(item.key, model) => CoerceItem(nested, item, model) = item
BY KeyAndValue DEF CoerceItem, IsField

LEMMA DataCases ==
  ASSUME NEW nested, NEW v, NEW model
  PROVE  LET data == CoerceData(nested, v, model) IN
         \/ v.tag # "dict" /\ data = v
         \/ v.tag = "dict" /\ data = Failed
         \/ /\ v.tag = "dict"
            /\ data = Dict(AssignAll(BoundItems(nested, v.items, model)))
            /\ \A i \in DOMAIN v.items :
                 CoerceItem(nested, v.items[i], model).value # Failed
<1> DEFINE items == BoundItems(nested, v.items, model)
           data == CoerceData(nested, v, model)
<1>1. data = IF v.tag # "dict" THEN v
             ELSE Unless(ValuesOf(items), Dict(AssignAll(items)))
  BY DEF CoerceData, BoundItems
<1>2. DOMAIN ValuesOf(items) = DOMAIN v.items
      /\ \A i \in DOMAIN v.items :
           ValuesOf(items)[i] = CoerceItem(nested, v.items[i], model).value
  BY DEF ValuesOf, BoundItems
<1>3. \/ Unless(ValuesOf(items), Dict(AssignAll(items))) = Failed
      \/ /\ Unless(ValuesOf(items), Dict(AssignAll(items)))
              = Dict(AssignAll(items))
         /\ \A i \in DOMAIN v.items :
              CoerceItem(nested, v.items[i], model).value # Failed
  BY <1>2 DEF Unless
<1> QED
  BY <1>1, <1>3

LEMMA FieldWords ==
  ASSUME NEW m \in Models, NEW f \in DOMAIN Fields[m]
  PROVE  /\ f \in STRING /\ FieldKey(f) \in Keys /\ IsField(FieldKey(f), m)
         /\ FieldKey(f).word = f
         /\ ModelsIn(Fields[m][f]) \subseteq Models \cup {NoModel}
<1>1. f \in STRING /\ ModelsIn(Fields[m][f]) \subseteq Models \cup {NoModel}
  BY BindingAssumption
<1> QED
  BY <1>1 DEF FieldKey, Keys, IsField

LEMMA ItemsFit ==
  ASSUME NEW n \in 0..Depth, NEW nested, Fits(nested, n), NEW k \in 0..n,
         NEW items \in Seq(Items(Values[k])), NEW model \in Models,
         \A i \in DOMAIN items :
           CoerceItem(nested, items[i], model).value # Failed
  PROVE  BoundItems(nested, items, model) \in Seq(Items(Values[k]))
<1>1. ASSUME NEW i \in DOMAIN items
      PROVE  CoerceItem(nested, items[i], model) \in Items(Values[k])
  <2>1. items[i] \in Items(Values[k])
    OBVIOUS
  <2>2. CASE ~IsField(items[i].key, model)
    BY <2>1, <2>2, ItemCases
  <2>3. CASE IsField(items[i].key, model)
    <3> DEFINE f == items[i].key.word
               b == CoerceItem(nested, items[i], model)
    <3>1. f \in DOMAIN Fields[model] /\ b.key = FieldKey(f)
          /\ b.value = CoerceField(nested, items[i].value, Fields[model][f])
      BY <2>3, ItemCases
    <3>2. b.key \in Keys /\ ModelsIn(Fields[model][f]) \subseteq Models \cup {NoModel}
      BY <3>1, FieldWords
    <3>3. items[i].value \in Values[k]
      BY <2>1, ItemParts
    <3>4. CoerceField(nested, items[i].value, Fields[model][f])
            \in Values[k] \cup {Failed}
      BY <3>2, <3>3, FieldFits
    <3>5. b.value \in Values[k]
      BY <3>1, <3>4
    <3>6. b = Item(b.key, b.value)
      BY <2>3, KeyAndValue DEF CoerceItem
    <3> QED
      BY <3>2, <3>5, <3>6, ItemMade
  <2> QED
    BY <2>2, <2>3
<1>2. DOMAIN items = 1..Len(items) /\ Len(items) \in Nat
  OBVIOUS
<1> QED
  BY <1>1, <1>2 DEF BoundItems

LEMMA DataFits ==
  ASSUME NEW n \in 1..Depth, NEW nested, Fits(nested, n - 1),
         NEW k \in 0..n, NEW v \in Values[k], NEW model \in Models
  PROVE  CoerceData(nested, v, model) \in Values[k] \cup {Failed}
<1>1. k \in 1..Depth /\ k - 1 \in 0..(n - 1) /\ n - 1 \in 0..Depth /\ k \in 0..Depth
  <2>1. k \in 0..Depth
    BY DepthNat
  <2> QED
    BY <2>1, DepthNat, ValueShape
<1> DEFINE items == BoundItems(nested, v.items, model)
           data == CoerceData(nested, v, model)
<1>2. CASE data = v \/ data = Failed
  BY <1>2
<1>3. CASE /\ v.tag = "dict" /\ data = Dict(AssignAll(items))
           /\ \A i \in DOMAIN v.items :
                CoerceItem(nested, v.items[i], model).value # Failed
  <2>1. v.items \in Seq(Items(Values[k - 1]))
    BY <1>1, <1>3, ValueShape
  <2>2. items \in Seq(Items(Values[k - 1]))
    BY <1>1, <1>3, <2>1, ItemsFit
  <2> HIDE DEF items
  <2>3. /\ AssignAll(items) \in Seq(Items(Values[k - 1]))
        /\ DistinctKeys(AssignAll(items))
    BY <2>2, AssignAllFacts DEF AssignedTo
  <2> QED
    BY <1>1, <1>3, <2>3, DictMade
<1> QED
  BY <1>2, <1>3, DataCases

LEMMA CoercedIs ==
  ASSUME NEW n \in 0..Depth, NEW m \in Models, NEW v \in Values[n]
  PROVE  Coerced[n][m][v] = CoerceData(Coerced[n - 1], v, m)
<1>1. Coerced[n] = CoercedBy(n, Coerced[n - 1])
  BY CoercedAt
<1> QED
  BY <1>1 DEF CoercedBy

(* What a section comes to nests no deeper than the section. *)
LEMMA CoercedFits == \A n \in 0..Depth : Fits(Coerced[n], n)
<1> DEFINE S == {n \in Nat : n \in 0..Depth => Fits(Coerced[n], n)}
<1>1. 0 \in S
  BY NoValues DEF Fits
<1>2. ASSUME NEW n \in Nat, n \in S PROVE n + 1 \in S
  <2> SUFFICES ASSUME n + 1 \in 0..Depth PROVE Fits(Coerced[n + 1], n + 1)
    OBVIOUS
  <2>1. n \in 0..Depth /\ n + 1 \in 1..Depth /\ (n + 1) - 1 = n
    BY DepthNat
  <2>2. Fits(Coerced[n], n)
    BY <1>2, <2>1
  <2>3. ASSUME NEW k \in 0..(n + 1), NEW m \in Models, NEW v \in Values[k]
        PROVE  Coerced[n + 1][m][v] \in Values[k] \cup {Failed}
    <3>1. v \in Values[n + 1]
      BY ValuesBelow
    <3>2. Coerced[n + 1][m][v] = CoerceData(Coerced[n], v, m)
      BY <2>1, <3>1, CoercedIs
    <3> QED
      BY <2>1, <2>2, <3>2, DataFits
  <2> QED
    BY <2>3 DEF Fits
<1> HIDE DEF S
<1>3. Nat \subseteq S
  BY <1>1, <1>2, Routes!SetInduction
<1>4. 0..Depth \subseteq Nat
  BY DepthNat
<1> QED
  BY <1>3, <1>4 DEF S

----------------------------------------------------------------------------
(* Coercion comes to what it should *)

Right(nested, good, n) ==
  \A m \in Models : \A v \in Values[n] :
    nested[m][v] = Failed \/ <<v, nested[m][v], m>> \in good

LEMMA FieldRight ==
  ASSUME NEW n \in 0..Depth, NEW nested, NEW good, Right(nested, good, n),
         NEW v \in Values[n],
         NEW a, ModelsIn(a) \subseteq Models \cup {NoModel},
         CoerceField(nested, v, a) # Failed
  PROVE  FieldAgrees(good, v, CoerceField(nested, v, a), a)
<1> DEFINE field == CoerceField(nested, v, a)
           m == BaseModelOf(a)
           k == ArgumentModel(a, "list", 1)
           l == ArgumentModel(a, "dict", 2)
           listed == IndexedToList(v)
<1>1. {m, k, l} \subseteq Models \cup {NoModel}
  BY DEF ModelsIn
<1>2. /\ m # NoModel => k = NoModel /\ l = NoModel
      /\ k # NoModel => l = NoModel
  BY OneModel
<1>3. FieldArms(nested, v, a, field)
  BY FieldCases
<1>4. field # Failed
  OBVIOUS
<1>5. n > 0 /\ n - 1 \in 0..Depth /\ n \in 1..Depth
      /\ Values[n - 1] \subseteq Values[n]
  <2>1. n > 0 /\ n - 1 \in 0..Depth /\ n \in 1..Depth
    BY DepthNat, ValueShape
  <2> QED
    BY <2>1, ValuesGrow
<1>6. FieldAgrees(good, v, field, a) =
        CASE m # NoModel /\ v.tag = "dict" -> <<v, field, m>> \in good
          [] k # NoModel /\ (Indexed(v) \/ v.tag = "list") ->
               /\ field.tag = "list" /\ Len(field.items) = Len(v.items)
               /\ \A i \in DOMAIN field.items :
                    <<IF Indexed(v) THEN Ranked(v, i) ELSE v.items[i],
                      field.items[i], k>> \in good
          [] l # NoModel /\ v.tag = "dict" ->
               /\ field.tag = "dict"
               /\ Len(field.items) = Len(v.items)
               /\ \A i \in DOMAIN field.items :
                    /\ At(field, i).key = At(v, i).key
                    /\ <<At(v, i).value, At(field, i).value, l>> \in good
          [] OTHER -> field = v
  BY DEF FieldAgrees, Indexed
<1>7. Indexed(v) => v.tag = "dict"
  BY DEF Indexed
<1> HIDE DEF field, m, k, l
<1>8. CASE m # NoModel /\ v.tag = "dict" /\ field = nested[m][v]
  <2>1. <<v, field, m>> \in good
    BY <1>1, <1>4, <1>8 DEF Right
  <2>2. FieldAgrees(good, v, field, a) = (<<v, field, m>> \in good)
    BY <1>2, <1>6, <1>8
  <2> QED
    BY <2>1, <2>2 DEF field
<1>9. CASE /\ k # NoModel /\ m = NoModel /\ listed.tag = "list"
           /\ field = List(Elements(nested, listed.items, k))
           /\ \A i \in DOMAIN listed.items : nested[k][listed.items[i]] # Failed
  <2>1. /\ Indexed(v) \/ v.tag = "list"
        /\ listed.items \in Seq(Values[n - 1])
        /\ Len(listed.items) = Len(v.items)
        /\ \A i \in DOMAIN listed.items :
             listed.items[i] = IF Indexed(v) THEN Ranked(v, i) ELSE v.items[i]
    <3>1. CASE ~Indexed(v) /\ listed = v
      BY <1>9, <3>1, ValueShape
    <3>2. CASE listed = Failed
      BY <1>9, <3>2 DEF Failed, Failure, Value
    <3>3. CASE \E s \in Seq(Values[n - 1]) :
                 /\ Indexed(v) /\ listed = List(s)
                 /\ Len(s) = Len(v.items) /\ DOMAIN s = DOMAIN v.items
                 /\ \A i \in DOMAIN s : s[i] = Ranked(v, i)
      <4>1. PICK s \in Seq(Values[n - 1]) :
              /\ Indexed(v) /\ listed = List(s)
              /\ Len(s) = Len(v.items)
              /\ \A i \in DOMAIN s : s[i] = Ranked(v, i)
        BY <3>3
      <4>2. listed.items = s
        BY <4>1, Contents
      <4> QED
        BY <4>1, <4>2
    <3> QED
      BY <3>1, <3>2, <3>3, ListedFacts
  <2> DEFINE s == Elements(nested, listed.items, k)
  <2>2. field.items = s /\ field.tag = "list"
    BY <1>9, Contents
  <2> HIDE DEF listed
  <2>3. DOMAIN s = DOMAIN listed.items
        /\ \A i \in DOMAIN s : s[i] = nested[k][listed.items[i]]
    BY DEF Elements
  <2>4. Len(s) = Len(listed.items)
    BY <2>1 DEF Elements
  <2> HIDE DEF s
  <2>5. ASSUME NEW i \in DOMAIN s
        PROVE  <<listed.items[i], s[i], k>> \in good
    <3>1. listed.items[i] \in Values[n]
      BY <1>5, <2>1, <2>3
    <3> QED
      BY <1>1, <1>9, <2>3, <3>1 DEF Right
  <2>6. \A i \in DOMAIN field.items :
          <<IF Indexed(v) THEN Ranked(v, i) ELSE v.items[i],
            field.items[i], k>> \in good
    BY <2>1, <2>2, <2>3, <2>5
  <2>7. FieldAgrees(good, v, field, a) =
          (/\ field.tag = "list" /\ Len(field.items) = Len(v.items)
           /\ \A i \in DOMAIN field.items :
                <<IF Indexed(v) THEN Ranked(v, i) ELSE v.items[i],
                  field.items[i], k>> \in good)
    BY <1>2, <1>6, <1>9, <2>1
  <2>8. field.tag = "list" /\ Len(field.items) = Len(v.items)
    BY <2>1, <2>2, <2>4
  <2> QED
    BY <2>6, <2>7, <2>8 DEF field
<1>10. CASE /\ l # NoModel /\ m = NoModel /\ k = NoModel /\ v.tag = "dict"
            /\ field = Dict(Entries(nested, v.items, l))
            /\ \A i \in DOMAIN v.items : nested[l][v.items[i].value] # Failed
  <2> DEFINE s == Entries(nested, v.items, l)
  <2>1. v.items \in Seq(Items(Values[n - 1]))
    BY <1>10, ValueShape
  <2>2. field.items = s /\ field.tag = "dict"
    BY <1>10, Contents
  <2>3. DOMAIN s = DOMAIN v.items
        /\ \A i \in DOMAIN s :
             s[i] = Item(v.items[i].key, nested[l][v.items[i].value])
    BY DEF Entries
  <2>4. Len(s) = Len(v.items)
    BY <2>1 DEF Entries
  <2> HIDE DEF s
  <2>5. ASSUME NEW i \in DOMAIN s
        PROVE  /\ s[i].key = v.items[i].key
               /\ <<v.items[i].value, s[i].value, l>> \in good
    <3>1. v.items[i] \in Items(Values[n - 1])
      BY <2>1, <2>3
    <3>2. v.items[i].value \in Values[n]
      BY <1>5, <3>1, ItemParts
    <3>3. s[i].key = v.items[i].key /\ s[i].value = nested[l][v.items[i].value]
      BY <2>3, KeyAndValue
    <3>4. nested[l][v.items[i].value] # Failed /\ l \in Models
      BY <1>1, <1>10, <2>3
    <3> QED
      BY <3>2, <3>3, <3>4 DEF Right
  <2>6. FieldAgrees(good, v, field, a) =
          (/\ field.tag = "dict"
           /\ Len(field.items) = Len(v.items)
           /\ \A i \in DOMAIN field.items :
                /\ At(field, i).key = At(v, i).key
                /\ <<At(v, i).value, At(field, i).value, l>> \in good)
    BY <1>2, <1>6, <1>10
  <2>7. \A i \in DOMAIN field.items :
          /\ At(field, i).key = At(v, i).key
          /\ <<At(v, i).value, At(field, i).value, l>> \in good
    BY <2>2, <2>5 DEF At
  <2>8. field.tag = "dict" /\ Len(field.items) = Len(v.items)
    BY <2>2, <2>4
  <2> QED
    BY <2>6, <2>7, <2>8 DEF field
<1>11. CASE /\ field = v
            /\ m # NoModel \/ l # NoModel => v.tag # "dict"
            /\ k # NoModel => listed.tag \notin {"failure", "list"}
  <2>1. ~(m # NoModel /\ v.tag = "dict") /\ ~(l # NoModel /\ v.tag = "dict")
    BY <1>11
  <2>2. ~(k # NoModel /\ (Indexed(v) \/ v.tag = "list"))
    <3>1. ~Indexed(v) /\ v.tag = "list" => listed.tag = "list"
      BY ListedFacts
    <3>2. Indexed(v) => listed.tag \in {"failure", "list"}
      BY ListedFacts, Contents DEF Failed, Failure, Value
    <3> QED
      BY <1>7, <1>11, <3>1, <3>2
  <2>3. FieldAgrees(good, v, field, a) = (field = v)
    BY <1>6, <2>1, <2>2
  <2> QED
    BY <1>11, <2>3 DEF field
<1> QED
  BY <1>3, <1>4, <1>8, <1>9, <1>10, <1>11 DEF FieldArms, field, m, k, l

(* Every field has the value of its last spelling. *)
LEMMA LastSpelling ==
  ASSUME NEW k \in 0..Depth, NEW nested, NEW good, Right(nested, good, k),
         NEW items \in Seq(Items(Values[k])), NEW model \in Models,
         NEW s, AssignedTo(s, BoundItems(nested, items, model), Len(items)),
         \A i \in DOMAIN items :
           CoerceItem(nested, items[i], model).value # Failed,
         NEW f \in DOMAIN Fields[model]
  PROVE  LET at == Spellings(Dict(items), model, f) IN
         IF at = {} THEN FieldKey(f) \notin KeysOf(Dict(s))
         ELSE \E i \in DOMAIN s :
                /\ s[i].key = FieldKey(f)
                /\ FieldAgrees(good,
                     items[CHOOSE c \in at : \A j \in at : j <= c].value,
                     s[i].value, Fields[model][f])
<1> DEFINE N == Len(items)
           bound == BoundItems(nested, items, model)
           at == Spellings(Dict(items), model, f)
<1>1. N \in Nat /\ DOMAIN items = 1..N
  OBVIOUS
<1>2. at = {i \in 1..N : IsField(items[i].key, model) /\ items[i].key.word = f}
  BY <1>1, Contents DEF Spellings, At
<1>3. IsField(FieldKey(f), model) /\ FieldKey(f).word = f
  BY FieldWords
<1>4. \A i \in 1..N : bound[i] = CoerceItem(nested, items[i], model)
  BY <1>1 DEF BoundItems
<1>5. \A i \in 1..N : bound[i].key = FieldKey(f) <=> i \in at
  <2> SUFFICES ASSUME NEW i \in 1..N
               PROVE  bound[i].key = FieldKey(f) <=> i \in at
    OBVIOUS
  <2>1. CASE IsField(items[i].key, model)
    <3>1. bound[i].key = FieldKey(items[i].key.word)
          /\ items[i].key.word \in DOMAIN Fields[model]
      BY <1>4, <2>1, ItemCases
    <3>2. bound[i].key.word = items[i].key.word
      BY <3>1, FieldWords
    <3> QED
      BY <1>2, <1>3, <2>1, <3>1, <3>2
  <2>2. CASE ~IsField(items[i].key, model)
    <3>1. bound[i] = items[i]
      BY <1>4, <2>2, ItemCases
    <3> QED
      BY <1>2, <1>3, <2>2, <3>1
  <2> QED
    BY <2>1, <2>2
<1> HIDE DEF at, bound
<1>6. CASE at = {}
  <2>1. ASSUME NEW i \in DOMAIN s PROVE s[i].key # FieldKey(f)
    <3>1. PICK c \in 1..N : s[i] = bound[c]
      BY DEF AssignedTo, bound
    <3> QED
      BY <1>5, <1>6, <3>1
  <2>2. FieldKey(f) \notin KeysOf(Dict(s))
    BY <2>1, Contents DEF KeysOf
  <2> QED
    BY <1>6, <2>2 DEF at
<1>7. CASE at # {}
  <2> DEFINE Is(c) == \A j \in at : j <= c
             last == CHOOSE c \in at : Is(c)
  <2>1. at \in SUBSET (1..N)
    BY <1>2
  <2>2. \E c \in at : Is(c)
    BY <1>1, <1>7, <2>1, Routes!LargestPlace
  <2>3. last \in at /\ Is(last)
    <3> HIDE DEF Is
    <3> QED
      BY <2>2
  <2> HIDE DEF last
  <2>4. last \in 1..N /\ bound[last].key = FieldKey(f)
    BY <1>5, <2>1, <2>3
  <2>5. PICK i \in DOMAIN s : s[i].key = bound[last].key
    BY <2>4 DEF AssignedTo, bound
  <2>6. PICK c \in 1..N :
          s[i] = bound[c] /\ \A j \in 1..N : j > c => bound[j].key # bound[c].key
    BY DEF AssignedTo, bound
  <2>7. c = last
    <3>1. c \in at
      BY <1>5, <2>4, <2>5, <2>6
    <3>2. c <= last
      BY <2>3, <3>1
    <3>3. ~(last > c)
      BY <2>4, <2>5, <2>6
    <3> QED
      BY <1>1, <2>4, <3>2, <3>3
  <2>8. IsField(items[last].key, model) /\ items[last].key.word = f
    BY <1>2, <2>3
  <2>9. /\ s[i].value = CoerceField(nested, items[last].value, Fields[model][f])
        /\ s[i].value # Failed
    <3>1. s[i] = CoerceItem(nested, items[last], model)
      BY <1>4, <2>4, <2>6, <2>7
    <3>2. CoerceItem(nested, items[last], model).value # Failed
      BY <1>1, <2>4
    <3>3. CoerceItem(nested, items[last], model).value =
            CoerceField(nested, items[last].value, Fields[model][f])
      BY <2>8, ItemCases
    <3> QED
      BY <3>1, <3>2, <3>3
  <2>10. items[last].value \in Values[k]
    <3>1. items[last] \in Items(Values[k])
      BY <1>1, <2>4
    <3> QED
      BY <3>1, ItemParts
  <2>11. ModelsIn(Fields[model][f]) \subseteq Models \cup {NoModel}
    BY FieldWords
  <2>12. FieldAgrees(good, items[last].value, s[i].value, Fields[model][f])
    BY <2>9, <2>10, <2>11, FieldRight
  <2>13. \E j \in DOMAIN s :
           /\ s[j].key = FieldKey(f)
           /\ FieldAgrees(good, items[last].value, s[j].value, Fields[model][f])
    BY <2>4, <2>5, <2>12
  <2> QED
    BY <1>7, <2>13 DEF at, last
<1> QED
  BY <1>6, <1>7

(* The items of no field. *)
Others(items, model) ==
  {items[i] : i \in {k \in DOMAIN items : ~IsField(items[k].key, model)}}

(* Every other item is passed on. *)
LEMMA OthersKept ==
  ASSUME NEW S, NEW items \in Seq(S), NEW nested, NEW model \in Models,
         DistinctKeys(items),
         NEW s, AssignedTo(s, BoundItems(nested, items, model), Len(items))
  PROVE  Others(items, model) = Others(s, model)
<1> DEFINE N == Len(items)
           bound == BoundItems(nested, items, model)
<1>1. N \in Nat /\ DOMAIN items = 1..N
  OBVIOUS
<1>2. \A i \in 1..N : bound[i] = CoerceItem(nested, items[i], model)
  BY <1>1 DEF BoundItems
<1>3. \A i \in 1..N :
        /\ IsField(items[i].key, model) => IsField(bound[i].key, model)
        /\ ~IsField(items[i].key, model) => bound[i] = items[i]
  BY <1>2, ItemCases, FieldWords
<1> HIDE DEF bound
<1>4. ASSUME NEW i \in DOMAIN items, ~IsField(items[i].key, model)
      PROVE  \E j \in DOMAIN s :
               ~IsField(s[j].key, model) /\ s[j] = items[i]
  <2>1. bound[i] = items[i]
    BY <1>1, <1>3, <1>4
  <2>2. PICK j \in DOMAIN s : s[j].key = bound[i].key
    BY <1>1 DEF AssignedTo, bound
  <2>3. PICK k \in 1..N : s[j] = bound[k]
    BY DEF AssignedTo, bound
  <2>4. ~IsField(items[k].key, model)
    BY <1>3, <1>4, <2>1, <2>2, <2>3
  <2>5. bound[k] = items[k]
    BY <1>3, <2>4
  <2>6. items[k].key = items[i].key
    BY <2>1, <2>2, <2>3, <2>5
  <2>7. k = i
    BY <1>1, <2>6 DEF DistinctKeys
  <2> QED
    BY <1>4, <2>1, <2>3, <2>7
<1>5. ASSUME NEW j \in DOMAIN s, ~IsField(s[j].key, model)
      PROVE  \E i \in DOMAIN items :
               ~IsField(items[i].key, model) /\ s[j] = items[i]
  <2>1. PICK k \in 1..N : s[j] = bound[k]
    BY DEF AssignedTo, bound
  <2>2. ~IsField(items[k].key, model)
    BY <1>3, <1>5, <2>1
  <2> QED
    BY <1>1, <1>3, <2>1, <2>2
<1> QED
  BY <1>4, <1>5 DEF Others

LEMMA DataRight ==
  ASSUME NEW n \in 1..Depth, NEW nested, NEW good, Right(nested, good, n - 1),
         Fits(nested, n - 1), NEW v \in Values[n], NEW model \in Models,
         CoerceData(nested, v, model) # Failed
  PROVE  DataAgrees(good, v, CoerceData(nested, v, model), model)
<1> DEFINE data == CoerceData(nested, v, model)
           items == v.items
           bound == BoundItems(nested, items, model)
           s == AssignAll(bound)
<1>1. n \in 0..Depth /\ n - 1 \in 0..Depth /\ n - 1 \in 0..(n - 1)
  BY DepthNat
<1>2. CASE v.tag # "dict" /\ data = v
  BY <1>2 DEF DataAgrees
<1>3. CASE /\ v.tag = "dict" /\ data = Dict(s)
           /\ \A i \in DOMAIN items :
                CoerceItem(nested, items[i], model).value # Failed
  <2>1. /\ items \in Seq(Items(Values[n - 1])) /\ DistinctKeys(items)
        /\ v = Dict(items)
    BY <1>1, <1>3, ValueShape
  <2> HIDE DEF items
  <2>2. bound \in Seq(Items(Values[n - 1])) /\ Len(bound) = Len(items)
    <3>1. bound \in Seq(Items(Values[n - 1]))
      BY <1>1, <1>3, <2>1, ItemsFit
    <3>2. DOMAIN bound = DOMAIN items
      BY DEF BoundItems
    <3> HIDE DEF bound
    <3> QED
      BY <2>1, <3>1, <3>2
  <2>3. AssignedTo(s, bound, Len(items))
    <3> HIDE DEF bound
    <3> QED
      BY <2>2, AssignAllFacts
  <2> HIDE DEF s
  <2>4. ASSUME NEW f \in DOMAIN Fields[model]
        PROVE  LET at == Spellings(v, model, f) IN
               IF at = {} THEN FieldKey(f) \notin KeysOf(data)
               ELSE \E i \in DOMAIN data.items :
                      /\ At(data, i).key = FieldKey(f)
                      /\ FieldAgrees(good,
                           At(v, CHOOSE k \in at : \A j \in at : j <= k).value,
                           At(data, i).value, Fields[model][f])
    <3> DEFINE at == Spellings(v, model, f)
               last == CHOOSE k \in at : \A j \in at : j <= k
    <3>1. IF at = {} THEN FieldKey(f) \notin KeysOf(Dict(s))
          ELSE \E i \in DOMAIN s :
                 /\ s[i].key = FieldKey(f)
                 /\ FieldAgrees(good, items[last].value, s[i].value,
                                Fields[model][f])
      BY <1>1, <1>3, <2>1, <2>3, LastSpelling
    <3>2. data = Dict(s) /\ data.items = s /\ v.items = items
      BY <1>3, Contents DEF items
    <3> HIDE DEF data, at, last
    <3>3. IF at = {} THEN FieldKey(f) \notin KeysOf(data)
          ELSE \E i \in DOMAIN data.items :
                 /\ At(data, i).key = FieldKey(f)
                 /\ FieldAgrees(good, At(v, last).value, At(data, i).value,
                                Fields[model][f])
      BY <3>1, <3>2 DEF At
    <3> QED
      BY <3>3 DEF at, last
  <2>5. {At(v, i) : i \in {k \in DOMAIN v.items :
                             ~IsField(At(v, k).key, model)}}
        = {At(data, i) : i \in {k \in DOMAIN data.items :
                                  ~IsField(At(data, k).key, model)}}
    <3>1. Others(items, model) = Others(s, model)
      BY <2>1, <2>3, OthersKept
    <3>2. data.items = s /\ v.items = items
      BY <1>3, Contents DEF items
    <3> HIDE DEF data
    <3> QED
      BY <3>1, <3>2 DEF At, Others
  <2>6. data.tag = "dict"
    BY <1>3, Contents
  <2> HIDE DEF data
  <2>7. DataAgrees(good, v, data, model)
    BY <1>3, <2>4, <2>5, <2>6 DEF DataAgrees
  <2> QED
    BY <2>7 DEF data
<1> QED
  BY <1>2, <1>3, DataCases

(* At every depth. *)
LEMMA CoercionRight == \A n \in 0..Depth : Right(Coerced[n], Agreeing[n], n)
<1> DEFINE S == {n \in Nat : n \in 0..Depth => Right(Coerced[n], Agreeing[n], n)}
<1>1. 0 \in S
  BY NoValues DEF Right
<1>2. ASSUME NEW n \in Nat, n \in S PROVE n + 1 \in S
  <2> SUFFICES ASSUME n + 1 \in 0..Depth
               PROVE  Right(Coerced[n + 1], Agreeing[n + 1], n + 1)
    OBVIOUS
  <2>1. n \in 0..Depth /\ n + 1 \in 1..Depth /\ (n + 1) - 1 = n
    BY DepthNat
  <2>2. Right(Coerced[n], Agreeing[n], n) /\ Fits(Coerced[n], n)
    BY <1>2, <2>1, CoercedFits
  <2>3. ASSUME NEW m \in Models, NEW v \in Values[n + 1],
               Coerced[n + 1][m][v] # Failed
        PROVE  <<v, Coerced[n + 1][m][v], m>> \in Agreeing[n + 1]
    <3> DEFINE data == Coerced[n + 1][m][v]
    <3>1. data = CoerceData(Coerced[n], v, m)
      BY <2>1, CoercedIs
    <3>2. DataAgrees(Agreeing[n], v, data, m)
      BY <2>1, <2>2, <2>3, <3>1, DataRight
    <3>3. data \in Values[n + 1]
      <4>1. n + 1 \in 0..(n + 1) /\ Fits(Coerced[n + 1], n + 1)
        BY <2>1, CoercedFits
      <4> QED
        BY <2>3, <4>1 DEF Fits
    <3>4. Agreeing[n + 1] = AgreeingBy(n + 1, Agreeing[n])
      BY <2>1, AgreeingAt
    <3> HIDE DEF data
    <3>5. <<v, data, m>> \in AgreeingBy(n + 1, Agreeing[n])
      BY <3>2, <3>3 DEF AgreeingBy
    <3> QED
      BY <3>4, <3>5 DEF data
  <2> QED
    BY <2>3 DEF Right
<1> HIDE DEF S
<1>3. Nat \subseteq S
  BY <1>1, <1>2, Routes!SetInduction
<1>4. 0..Depth \subseteq Nat
  BY DepthNat
<1> QED
  BY <1>3, <1>4 DEF S

(* What coerce_section_data_for_model returns for a section of any depth,  *)
(* and any of the models, is what the section should come to: the last     *)
(* spelling of every field, index dicts as lists in the order of their     *)
(* numbers, everything else unchanged, at every level                      *)
(* (section_coercion.py:45-127).                                           *)
THEOREM CoercionAgrees ==
  ASSUME NEW v \in Values[Depth], NEW m \in Models, Coerce(v, m) # Failed
  PROVE  Agrees(v, Coerce(v, m), m)
<1>1. Depth \in 0..Depth
  BY DepthNat
<1>2. Right(Coerced[Depth], Agreeing[Depth], Depth)
  BY <1>1, CoercionRight
<1> QED
  BY <1>2 DEF Right, Coerce, Agrees

----------------------------------------------------------------------------
(* Models that name no other model *)

LEMMA PlainField ==
  ASSUME NEW nested, NEW raw, NEW a, ModelsIn(a) = {NoModel}
  PROVE  CoerceField(nested, raw, a) = raw
<1>1. /\ BaseModelOf(a) = NoModel
      /\ ArgumentModel(a, "list", 1) = NoModel
      /\ ArgumentModel(a, "dict", 2) = NoModel
  BY DEF ModelsIn
<1>2. FieldArms(nested, raw, a, CoerceField(nested, raw, a))
  BY FieldCases
<1> HIDE DEF NoModel
<1> QED
  BY <1>1, <1>2 DEF FieldArms

LEMMA PlainAgrees ==
  ASSUME NEW good, NEW raw, NEW bound, NEW a, ModelsIn(a) = {NoModel},
         FieldAgrees(good, raw, bound, a)
  PROVE  bound = raw
<1>1. /\ BaseModelOf(a) = NoModel
      /\ ArgumentModel(a, "list", 1) = NoModel
      /\ ArgumentModel(a, "dict", 2) = NoModel
  BY DEF ModelsIn
<1> QED
  BY <1>1 DEF FieldAgrees

LEMMA DataMade ==
  ASSUME NEW n \in 0..Depth, NEW v \in Values[n], NEW nested, NEW model,
         v.tag = "dict" =>
           \A i \in DOMAIN v.items : IsField(v.items[i].key, model) =>
             CoerceField(nested, v.items[i].value,
                         Fields[model][v.items[i].key.word]) # Failed
  PROVE  CoerceData(nested, v, model) # Failed
<1>1. v # Failed /\ n - 1 \in 0..Depth
  BY ValueShape
<1>2. CASE v.tag # "dict"
  BY <1>1, <1>2 DEF CoerceData
<1>3. CASE v.tag = "dict"
  <2> DEFINE items == BoundItems(nested, v.items, model)
  <2>1. v.items \in Seq(Items(Values[n - 1]))
    BY <1>3, ValueShape
  <2>2. ASSUME NEW i \in DOMAIN v.items
        PROVE  CoerceItem(nested, v.items[i], model).value # Failed
    <3>1. CASE IsField(v.items[i].key, model)
      BY <1>3, <3>1, ItemCases
    <3>2. CASE ~IsField(v.items[i].key, model)
      <4>1. v.items[i] \in Items(Values[n - 1])
        BY <2>1
      <4>2. v.items[i].value \in Values[n - 1]
        BY <4>1, ItemParts
      <4>3. v.items[i].value # Failed
        BY <1>1, <4>2, ValueShape
      <4> QED
        BY <3>2, <4>3, ItemCases
    <3> QED
      BY <3>1, <3>2
  <2>3. CoerceData(nested, v, model) =
          Unless(ValuesOf(items), Dict(AssignAll(items)))
    BY <1>3 DEF CoerceData, BoundItems
  <2>4. \A i \in DOMAIN ValuesOf(items) : ValuesOf(items)[i] # Failed
    BY <2>2 DEF ValuesOf, BoundItems
  <2>5. Unless(ValuesOf(items), Dict(AssignAll(items))) = Dict(AssignAll(items))
    BY <2>4 DEF Unless
  <2>6. Dict(AssignAll(items)) # Failed
    BY DEF Dict, Failed, Failure, Value
  <2> QED
    BY <2>3, <2>5, <2>6
<1> QED
  BY <1>2, <1>3

PlainModel(m) == \A f \in DOMAIN Fields[m] : ModelsIn(Fields[m][f]) = {NoModel}

LEMMA PlainMade ==
  ASSUME NEW n \in 0..Depth, NEW m \in Models, PlainModel(m), NEW v \in Values[n]
  PROVE  Coerced[n][m][v] # Failed
<1>1. n - 1 \in 0..Depth
  BY ValueShape
<1>2. ASSUME v.tag = "dict",
             NEW i \in DOMAIN v.items, IsField(v.items[i].key, m)
      PROVE  CoerceField(Coerced[n - 1], v.items[i].value,
                         Fields[m][v.items[i].key.word]) # Failed
  <2>1. v.items \in Seq(Items(Values[n - 1]))
    BY <1>2, ValueShape
  <2>2. v.items[i] \in Items(Values[n - 1])
    BY <2>1
  <2>3. v.items[i].value \in Values[n - 1]
    BY <2>2, ItemParts
  <2>4. v.items[i].value # Failed
    BY <1>1, <2>3, ValueShape
  <2>5. ModelsIn(Fields[m][v.items[i].key.word]) = {NoModel}
    BY <1>2 DEF IsField, PlainModel
  <2> QED
    BY <2>4, <2>5, PlainField
<1>3. CoerceData(Coerced[n - 1], v, m) # Failed
  BY <1>2, DataMade
<1> QED
  BY <1>3, CoercedIs

LEMMA HostModels ==
  /\ {"ServiceConfig", "ServerConfig", "HostConfig"} \subseteq Models
  /\ PlainModel("ServiceConfig") /\ PlainModel("ServerConfig")
  /\ "instance_id" \in DOMAIN Fields["ServiceConfig"]
  /\ DOMAIN Fields["HostConfig"] = {"server", "shutdown_timeout_seconds"}
  /\ BaseModelOf(Fields["HostConfig"]["server"]) = "ServerConfig"
  /\ ModelsIn(Fields["HostConfig"]["shutdown_timeout_seconds"]) = {NoModel}
BY BindingAssumption DEF PlainModel

(* A [host] section always comes to something. *)
LEMMA HostMade ==
  ASSUME NEW v \in Values[Depth]
  PROVE  Coerce(v, "HostConfig") # Failed
<1>1. Depth \in 0..Depth /\ Depth - 1 \in 0..Depth
  BY DepthNat
<1> DEFINE nested == Coerced[Depth - 1]
           fields == Fields["HostConfig"]
<1>2. ASSUME v.tag = "dict",
             NEW i \in DOMAIN v.items, IsField(v.items[i].key, "HostConfig")
      PROVE  CoerceField(nested, v.items[i].value,
                         fields[v.items[i].key.word]) # Failed
  <2> DEFINE w == v.items[i].value
             f == v.items[i].key.word
  <2>1. v.items \in Seq(Items(Values[Depth - 1]))
    BY <1>1, <1>2, ValueShape
  <2>2. v.items[i] \in Items(Values[Depth - 1])
    BY <2>1
  <2>3. w \in Values[Depth - 1]
    BY <2>2, ItemParts
  <2>4. w # Failed
    BY <1>1, <2>3, ValueShape
  <2>5. f \in {"server", "shutdown_timeout_seconds"}
    BY <1>2, HostModels DEF IsField
  <2> HIDE DEF w, f, nested
  <2>6. CASE f = "shutdown_timeout_seconds"
    <3>1. CoerceField(nested, w, fields[f]) = w
      BY <2>6, HostModels, PlainField
    <3> QED
      BY <2>4, <3>1 DEF w, f
  <2>7. CASE f = "server"
    <3>1. BaseModelOf(fields[f]) = "ServerConfig" /\ "ServerConfig" # NoModel
      BY <2>7, HostModels DEF NoModel
    <3>2. FieldArms(nested, w, fields[f], CoerceField(nested, w, fields[f]))
      BY FieldCases
    <3>3. \/ CoerceField(nested, w, fields[f]) = nested["ServerConfig"][w]
          \/ CoerceField(nested, w, fields[f]) = w
      <4> HIDE DEF fields
      <4> QED
        BY <3>1, <3>2 DEF FieldArms
    <3>4. nested["ServerConfig"][w] # Failed
      BY <1>1, <2>3, HostModels, PlainMade DEF nested
    <3> QED
      BY <2>4, <3>3, <3>4 DEF w, f
  <2> QED
    BY <2>5, <2>6, <2>7 DEF w, f
<1>3. CoerceData(nested, v, "HostConfig") # Failed
  BY <1>1, <1>2, DataMade
<1>4. "HostConfig" \in Models
  BY HostModels
<1> QED
  BY <1>1, <1>3, <1>4, CoercedIs DEF Coerce

(* A bound value, and how it agrees with the raw one. *)
LEMMA AgreesIs ==
  ASSUME NEW raw, NEW bound, NEW m, Agrees(raw, bound, m)
  PROVE  /\ raw \in Values[Depth] /\ bound \in Values[Depth] /\ m \in Models
         /\ DataAgrees(Agreeing[Depth - 1], raw, bound, m)
<1>1. Depth \in 0..Depth
  BY DepthNat
<1>2. <<raw, bound, m>> \in AgreeingBy(Depth, Agreeing[Depth - 1])
  BY <1>1, AgreeingAt DEF Agrees
<1> QED
  BY <1>2 DEF AgreeingBy

----------------------------------------------------------------------------
(* The bootstrap *)

LEMMA WithGenerated ==
  ASSUME NEW section \in Values[Depth], section.tag = "dict"
  PROVE  LET w == WithInstanceId(section)
             name == FieldKey("instance_id")
         IN  /\ w \in Values[Depth] /\ w.tag = "dict"
             /\ \E p \in DOMAIN w.items :
                  /\ w.items[p] = Item(name, Generated)
                  /\ \A j \in DOMAIN w.items : j > p =>
                       /\ p \in DOMAIN section.items
                       /\ j \in DOMAIN section.items
                       /\ section.items[p].key = name
                       /\ section.items[j].key = w.items[j].key
<1> DEFINE V == Values[Depth - 1]
           name == FieldKey("instance_id")
           item == Item(name, Generated)
           s == section.items
           t == Put(s, item.key, item.value)
<1>1. Depth \in 0..Depth /\ Depth \in 1..Depth /\ Depth - 1 \in 1..Depth
  BY DepthNat
<1>2. s \in Seq(Items(V)) /\ DistinctKeys(s)
  BY <1>1, ValueShape
<1>3. item \in Items(V)
  <2>1. Generated \in V
    BY <1>1, GeneratedMade
  <2>2. name \in Keys
    BY HostModels, FieldWords
  <2> QED
    BY <2>1, <2>2, ItemMade
<1>4. WithInstanceId(section) = Dict(t)
  BY KeyAndValue DEF WithInstanceId
<1> HIDE DEF s, V
<1>5. t \in Seq(Items(V)) /\ PutInto(s, item, t)
  <2> HIDE DEF item
  <2> QED
    BY <1>2, <1>3, PutFacts
<1>6. item.key = name
  BY KeyAndValue
<1> HIDE DEF t, item, name
<1>7. DistinctKeys(t)
  BY <1>5 DEF PutInto
<1>8. Dict(t) \in Values[Depth]
  BY <1>1, <1>5, <1>7, DictMade DEF V
<1>9. PICK p \in DOMAIN t : t[p] = item
  BY <1>5 DEF PutInto
<1>10. ASSUME NEW j \in DOMAIN t, j > p
       PROVE  /\ p \in DOMAIN s /\ j \in DOMAIN s
              /\ s[p].key = name /\ s[j].key = t[j].key
  <2>1. p \in Nat /\ j \in Nat /\ p >= 1
    BY <1>5
  <2>2. t[j].key # t[p].key
    BY <1>7, <1>10, <2>1 DEF DistinctKeys
  <2>3. j \in DOMAIN s
    BY <1>5, <1>9, <2>2 DEF PutInto
  <2>4. p \in DOMAIN s
    BY <1>2, <1>10, <2>1, <2>3
  <2>5. t[p].key = s[p].key /\ t[j].key = s[j].key
    BY <1>5, <2>3, <2>4 DEF PutInto
  <2> QED
    BY <1>6, <1>9, <2>3, <2>4, <2>5
<1>11. /\ Dict(t).tag = "dict" /\ Dict(t).items = t
       /\ WithInstanceId(section) = Dict(t)
  BY <1>4, Contents
<1> QED
  BY <1>8, <1>9, <1>10, <1>11 DEF item, name, s

LEMMA LastOf ==
  ASSUME NEW S, NEW items \in Seq(S), NEW at \in SUBSET DOMAIN items, at # {}
  PROVE  LET last == CHOOSE k \in at : \A j \in at : j <= k IN
         last \in at /\ \A j \in at : j <= last
<1> DEFINE Is(c) == \A j \in at : j <= c
<1>1. \E c \in at : Is(c)
  <2>1. Len(items) \in Nat /\ at \in SUBSET (1..Len(items))
    OBVIOUS
  <2> QED
    BY <2>1, Routes!LargestPlace
<1> HIDE DEF Is
<1>2. LET last == CHOOSE k \in at : Is(k) IN last \in at /\ Is(last)
  BY <1>1
<1> QED
  BY <1>2 DEF Is

(* What a dict is bound to for a field without a model of its own. *)
LEMMA PlainBound ==
  ASSUME NEW raw, raw.tag = "dict", NEW bound, NEW m, Agrees(raw, bound, m),
         NEW f \in DOMAIN Fields[m], ModelsIn(Fields[m][f]) = {NoModel}
  PROVE  LET at == Spellings(raw, m, f) IN
         /\ at = {} => FieldKey(f) \notin KeysOf(bound)
         /\ at # {} =>
              \E last \in at :
                /\ \A j \in at : j <= last
                /\ \E i \in DOMAIN bound.items :
                     At(bound, i) = Item(FieldKey(f), At(raw, last).value)
<1> DEFINE at == Spellings(raw, m, f)
           last == CHOOSE k \in at : \A j \in at : j <= k
           good == Agreeing[Depth - 1]
<1>1. /\ raw \in Values[Depth] /\ bound \in Values[Depth]
      /\ DataAgrees(good, raw, bound, m)
  BY AgreesIs
<1>2. /\ bound.tag = "dict"
      /\ IF at = {} THEN FieldKey(f) \notin KeysOf(bound)
         ELSE \E i \in DOMAIN bound.items :
                /\ At(bound, i).key = FieldKey(f)
                /\ FieldAgrees(good, At(raw, last).value, At(bound, i).value,
                               Fields[m][f])
  <2> HIDE DEF good
  <2> QED
    BY <1>1 DEF DataAgrees
<1>3. CASE at = {}
  BY <1>2, <1>3
<1>4. CASE at # {}
  <2>1. Depth \in 0..Depth
    BY DepthNat
  <2>2. /\ raw.items \in Seq(Items(Values[Depth - 1]))
        /\ bound.items \in Seq(Items(Values[Depth - 1]))
    BY <1>1, <1>2, <2>1, ValueShape
  <2>3. at \in SUBSET DOMAIN raw.items
    BY DEF Spellings
  <2> HIDE DEF at
  <2>4. last \in at /\ \A j \in at : j <= last
    BY <1>4, <2>2, <2>3, LastOf
  <2> HIDE DEF last, good
  <2>5. PICK i \in DOMAIN bound.items :
          /\ At(bound, i).key = FieldKey(f)
          /\ FieldAgrees(good, At(raw, last).value, At(bound, i).value,
                         Fields[m][f])
    BY <1>2, <1>4
  <2>6. At(bound, i).value = At(raw, last).value
    BY <2>5, PlainAgrees
  <2>7. bound.items[i] \in Items(Values[Depth - 1])
    BY <2>2
  <2>8. At(bound, i) = Item(At(bound, i).key, At(bound, i).value)
    BY <2>7, ItemParts DEF At
  <2> QED
    BY <1>4, <2>4, <2>5, <2>6, <2>8 DEF at
<1> QED
  BY <1>3, <1>4

(* The section, and the item that says the generated id, if it is the last *)
(* of its spellings; the later one if it is not.                           *)
LEMMA GeneratedBound ==
  ASSUME NEW section \in Values[Depth], section.tag = "dict", NEW bound,
         bound = Coerce(WithInstanceId(section), "ServiceConfig")
  PROVE  \/ \E i \in DOMAIN bound.items :
              At(bound, i) = Item(FieldKey("instance_id"), Generated)
         \/ \E i, j \in DOMAIN section.items :
              /\ i < j
              /\ At(section, i).key = FieldKey("instance_id")
              /\ At(section, j).key.word = "instance_id"
<1> DEFINE w == WithInstanceId(section)
           f == "instance_id"
           m == "ServiceConfig"
           name == FieldKey(f)
           at == Spellings(w, m, f)
<1>1. w \in Values[Depth] /\ w.tag = "dict"
  BY WithGenerated
<1>2. PICK p \in DOMAIN w.items :
        /\ w.items[p] = Item(name, Generated)
        /\ \A j \in DOMAIN w.items : j > p =>
             /\ p \in DOMAIN section.items /\ j \in DOMAIN section.items
             /\ section.items[p].key = name
             /\ section.items[j].key = w.items[j].key
  BY WithGenerated
<1> HIDE DEF w
<1>3. m \in Models /\ f \in DOMAIN Fields[m] /\ ModelsIn(Fields[m][f]) = {NoModel}
  BY HostModels DEF PlainModel
<1>4. Depth \in 0..Depth
  BY DepthNat
<1>5. Agrees(w, bound, m)
  <2>1. bound # Failed
    BY <1>1, <1>4, HostModels, PlainMade DEF Coerce, w
  <2> QED
    BY <1>1, <1>3, <2>1, CoercionAgrees DEF w
<1>6. p \in at
  BY <1>2, <1>3, FieldWords, KeyAndValue DEF Spellings, At
<1>7. PICK last \in at :
        /\ \A j \in at : j <= last
        /\ \E i \in DOMAIN bound.items :
             At(bound, i) = Item(name, At(w, last).value)
  <2> HIDE DEF m, f
  <2> QED
    BY <1>1, <1>3, <1>5, <1>6, PlainBound
<1>8. last \in DOMAIN w.items /\ w.items[last].key.word = f
  BY DEF Spellings, At
<1>9. w.items \in Seq(Items(Values[Depth - 1]))
  BY <1>1, <1>4, ValueShape
<1>10. CASE last = p
  <2>1. At(w, last).value = Generated
    BY <1>2, <1>10, KeyAndValue DEF At
  <2> QED
    BY <1>7, <2>1
<1>11. CASE last # p
  <2>1. p \in Nat /\ last \in Nat
    BY <1>8, <1>9
  <2>2. last > p
    BY <1>6, <1>7, <1>11, <2>1
  <2> QED
    BY <1>2, <1>8, <2>1, <2>2 DEF At
<1> QED
  BY <1>10, <1>11

LEMMA FirstOf ==
  ASSUME NEW S, NEW items \in Seq(S), NEW at \in SUBSET DOMAIN items, at # {}
  PROVE  LET first == CHOOSE k \in at : \A j \in at : k <= j IN
         first \in at /\ \A j \in at : first <= j
<1> DEFINE n == Len(items) + 1
           mirrored == {n - k : k \in at}
           Is(c) == \A j \in at : c <= j
<1>1. n \in Nat /\ at \in SUBSET (1..Len(items)) /\ Len(items) \in Nat
  OBVIOUS
<1>2. mirrored \in SUBSET (1..Len(items)) /\ mirrored # {}
  BY <1>1
<1>3. PICK c \in mirrored : \A j \in mirrored : j <= c
  <2> HIDE DEF mirrored, n
  <2> QED
    BY <1>1, <1>2, Routes!LargestPlace
<1>4. \E k \in at : Is(k)
  <2>1. PICK k \in at : c = n - k
    BY <1>3
  <2>2. ASSUME NEW j \in at PROVE k <= j
    <3>1. n - j <= c
      BY <1>3
    <3>2. j \in Nat /\ k \in Nat
      BY <1>1
    <3> QED
      BY <1>1, <2>1, <3>1, <3>2
  <2> QED
    BY <2>2
<1> HIDE DEF Is
<1>5. LET first == CHOOSE k \in at : Is(k) IN first \in at /\ Is(first)
  BY <1>4
<1> QED
  BY <1>5 DEF Is

(* A [host] section, with any number of spellings of the timeout. *)
LEMMA HostBound ==
  ASSUME NEW v \in Values[Depth], v.tag = "dict", NEW read,
         read = ReadField(v, "HostConfig", "shutdown_timeout_seconds")
  PROVE  LET whole == Coerce(v, "HostConfig")
             name  == FieldKey("shutdown_timeout_seconds")
             at    == Spellings(v, "HostConfig", name.word)
         IN  /\ at = {} => read = Missing /\ name \notin KeysOf(whole)
             /\ at # {} =>
                  \E first, last \in at :
                    /\ \A j \in at : first <= j /\ j <= last
                    /\ read = At(v, first).value
                    /\ \E i \in DOMAIN whole.items :
                         At(whole, i) = Item(name, At(v, last).value)
<1> DEFINE m == "HostConfig"
           f == "shutdown_timeout_seconds"
           whole == Coerce(v, m)
           name == FieldKey(f)
           at == Spellings(v, m, f)
           spelled == {i \in DOMAIN v.items :
                         v.items[i].key.text /\ v.items[i].key.word = f}
           first == CHOOSE i \in at : \A j \in at : i <= j
<1>1. m \in Models /\ f \in DOMAIN Fields[m] /\ ModelsIn(Fields[m][f]) = {NoModel}
  BY HostModels
<1>2. Depth \in 0..Depth
  BY DepthNat
<1>3. Agrees(v, whole, m)
  BY <1>1, HostMade, CoercionAgrees
<1>4. name.word = f
  BY <1>1, FieldWords
<1>5. at = spelled
  BY <1>1 DEF Spellings, At, IsField
<1>6. read = IF spelled = {} THEN Missing
             ELSE CoerceField(Coerced[Depth],
                    v.items[CHOOSE i \in spelled : \A j \in spelled : i <= j].value,
                    Fields[m][f])
  BY DEF ReadField
<1> HIDE DEF m, f, whole, at, spelled
<1>7. /\ at = {} => name \notin KeysOf(whole)
      /\ at # {} =>
           \E last \in at :
             /\ \A j \in at : j <= last
             /\ \E i \in DOMAIN whole.items :
                  At(whole, i) = Item(name, At(v, last).value)
  BY <1>1, <1>3, PlainBound DEF at
<1>8. at = {} => read = Missing /\ name \notin KeysOf(whole)
  BY <1>5, <1>6, <1>7
<1>9. ASSUME at # {}
      PROVE  \E one, last \in at :
               /\ \A j \in at : one <= j /\ j <= last
               /\ read = At(v, one).value
               /\ \E i \in DOMAIN whole.items :
                    At(whole, i) = Item(name, At(v, last).value)
  <2>1. first \in at /\ \A j \in at : first <= j
    <3>1. v.items \in Seq(Items(Values[Depth - 1]))
      BY <1>2, ValueShape
    <3>2. at \in SUBSET DOMAIN v.items
      BY DEF at, Spellings
    <3> QED
      BY <1>9, <3>1, <3>2, FirstOf
  <2>2. read = At(v, first).value
    <3>1. read = CoerceField(Coerced[Depth], v.items[first].value, Fields[m][f])
      BY <1>5, <1>6, <1>9
    <3> QED
      BY <1>1, <3>1, PlainField DEF At
  <2> HIDE DEF first
  <2> QED
    BY <1>7, <1>9, <2>1, <2>2
<1>10. f = "shutdown_timeout_seconds"
  BY DEF f
<1> QED
  BY <1>4, <1>8, <1>9, <1>10 DEF at, whole, m

(* What each step of the bootstrap has read, and each request been given. *)
Read ==
  /\ sections \in Sections
  /\ pc \in {"service", "host", "observability", "ready", "raised"}
  /\ pc \in {"host", "observability", "ready"} =>
       /\ IsSection("service")
       /\ service = Coerce(WithInstanceId(sections["service"]), "ServiceConfig")
  /\ pc \in {"observability", "ready"} =>
       /\ IsSection("host")
       /\ server = Coerce(sections["host"], "ServerConfig")
       /\ timeout = ReadField(sections["host"], "HostConfig",
                              "shutdown_timeout_seconds")
  /\ answer.tag = "dict" =>
       /\ request \in Requests /\ IsSection(request.section)
       /\ answer = Coerce(sections[request.section], request.model)

LEMMA ReadAtStart == Init => Read
<1>1. Missing.tag # "dict"
  BY DEF Missing, Value
<1> QED
  BY <1>1 DEF Init, Read

LEMMA ReadKept == Read /\ [Next]_vars => Read'
<1> SUFFICES ASSUME Read, [Next]_vars PROVE Read'
  OBVIOUS
<1>1. CASE LoadService
  BY <1>1 DEF Read, LoadService, IsSection
<1>2. CASE LoadHost
  BY <1>2 DEF Read, LoadHost, IsSection
<1>3. CASE LoadObservability
  BY <1>3 DEF Read, LoadObservability, IsSection
<1>4. CASE BootstrapRaises
  BY <1>4 DEF Read, BootstrapRaises, IsSection
<1>5. CASE \E r \in Requests : Get(r)
  <2>1. PICK r \in Requests : Get(r)
    BY <1>5
  <2> DEFINE v == sections[r.section]
  <2>2. /\ request' = r /\ UNCHANGED <<sections, pc, service, server, timeout>>
        /\ answer' = CASE v.tag = "missing" -> Missing
                       [] v.tag \notin {"missing", "dict"} ->
                            Failure("ConfigurationError")
                       [] v.tag = "dict" -> Coerce(v, r.model)
    BY <2>1 DEF Get
  <2>3. CASE v.tag = "dict"
    <3>1. answer' = Coerce(v, r.model)
      BY <2>2, <2>3
    <3> QED
      BY <2>2, <2>3, <3>1 DEF Read, IsSection
  <2>4. CASE v.tag # "dict"
    <3>1. answer'.tag # "dict"
      <4>1. CASE v.tag = "missing"
        BY <2>2, <4>1 DEF Missing, Value
      <4>2. CASE v.tag # "missing"
        BY <2>2, <2>4, <4>2 DEF Failure, Value
      <4> QED
        BY <4>1, <4>2
    <3> QED
      BY <2>2, <3>1 DEF Read, IsSection
  <2> QED
    BY <2>3, <2>4
<1>6. CASE Exit
  BY <1>6 DEF Read, Exit, vars, IsSection
<1>7. CASE UNCHANGED vars
  BY <1>7 DEF Read, vars, IsSection
<1> QED
  BY <1>1, <1>2, <1>3, <1>4, <1>5, <1>6, <1>7 DEF Next

LEMMA SectionsTyped ==
  ASSUME Read
  PROVE  /\ {"service", "host"} \subseteq DOMAIN sections
         /\ \A r \in Requests : r.model \in Models /\ r.section \in DOMAIN sections
         /\ \A name \in DOMAIN sections :
              IsSection(name) => sections[name] \in Values[Depth]
<1>1. /\ {"service", "host", "logging", "observability"} \subseteq DOMAIN sections
      /\ \A name \in DOMAIN sections :
           sections[name] \in Values[Depth] \cup {Missing}
      /\ \A r \in Requests : r.model \in Models /\ r.section \in DOMAIN sections
  BY BindingAssumption DEF Read
<1>2. Missing.tag # "dict"
  BY DEF Missing, Value
<1> QED
  BY <1>1, <1>2 DEF IsSection

LEMMA ReadBinds == Read => BoundAsDeclared
<1> SUFFICES ASSUME Read, answer.tag = "dict"
             PROVE  Agrees(sections[request.section], answer, request.model)
  BY DEF BoundAsDeclared
<1>1. /\ request \in Requests /\ IsSection(request.section)
      /\ answer = Coerce(sections[request.section], request.model)
  BY DEF Read
<1>2. sections[request.section] \in Values[Depth] /\ request.model \in Models
  BY <1>1, SectionsTyped
<1>3. answer # Failed
  BY DEF Failed, Failure, Value
<1> QED
  BY <1>1, <1>2, <1>3, CoercionAgrees

LEMMA ReadGenerates == Read => InstanceIdGenerated
<1> SUFFICES ASSUME Read, pc \in {"host", "observability", "ready"}
             PROVE  InstanceIdGenerated
  BY DEF InstanceIdGenerated
<1>1. /\ IsSection("service")
      /\ service = Coerce(WithInstanceId(sections["service"]), "ServiceConfig")
  BY DEF Read
<1>2. sections["service"] \in Values[Depth] /\ sections["service"].tag = "dict"
  BY <1>1, SectionsTyped DEF IsSection
<1> QED
  BY <1>1, <1>2, GeneratedBound DEF InstanceIdGenerated

LEMMA ReadAgrees == Read => HostReadings
<1> SUFFICES ASSUME Read, pc \in {"observability", "ready"}
             PROVE  HostReadings
  BY DEF HostReadings
<1>1. /\ IsSection("host")
      /\ server = Coerce(sections["host"], "ServerConfig")
      /\ timeout = ReadField(sections["host"], "HostConfig",
                             "shutdown_timeout_seconds")
  BY DEF Read
<1>2. sections["host"] \in Values[Depth] /\ sections["host"].tag = "dict"
  BY <1>1, SectionsTyped DEF IsSection
<1>3. Agrees(sections["host"], server, "ServerConfig")
  <2>1. Depth \in 0..Depth
    BY DepthNat
  <2>2. server # Failed
    BY <1>1, <1>2, <2>1, HostModels, PlainMade DEF Coerce
  <2> QED
    BY <1>1, <1>2, <2>2, HostModels, CoercionAgrees
<1> QED
  BY <1>1, <1>2, <1>3, HostBound DEF HostReadings

(* In every reachable state, what an application is given for a section    *)
(* is what the section should come to for the model asked for              *)
(* (configuration.py, section_coercion.py:45-127).                         *)
THEOREM BindingCorrect == Spec => []BoundAsDeclared
<1>1. Spec => []Read
  BY ReadAtStart, ReadKept, PTL DEF Spec
<1> QED
  BY <1>1, ReadBinds, PTL

(* The instance id is the generated one, unless [service] spells it twice  *)
(* with the lower-case spelling first (host_bootstrap.py:57-58).           *)
THEOREM InstanceIdOfThisBoot == Spec => []InstanceIdGenerated
<1>1. Spec => []Read
  BY ReadAtStart, ReadKept, PTL DEF Spec
<1> QED
  BY <1>1, ReadGenerates, PTL

(* The first spelling of the timeout is the host's, the last one that of   *)
(* the section bound as a whole, for any section; and the server is bound  *)
(* as declared (host_bootstrap.py:65-73, section_coercion.py:36-66).       *)
THEOREM HostReadTwice == Spec => []HostReadings
<1>1. Spec => []Read
  BY ReadAtStart, ReadKept, PTL DEF Spec
<1> QED
  BY <1>1, ReadAgrees, PTL
=============================================================================
