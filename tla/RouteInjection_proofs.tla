----------------------- MODULE RouteInjection_proofs -----------------------
(***************************************************************************)
(* Proofs about RouteInjection, for every list of parameters that Python   *)
(* accepts: what the rewritten signature holds, and that an endpoint which *)
(* takes its request in the conventional way is always called with all it  *)
(* declares.                                                               *)
(*                                                                         *)
(* A signature is put together from the elements of another that pass a    *)
(* test.  Kept, which does that, is defined by recursion, and KeptPlaces   *)
(* says by induction what it returns: there is an increasing function from *)
(* the places of the result to the places that were kept.  All the rest    *)
(* follows from that one fact.                                             *)
(***************************************************************************)
EXTENDS RouteInjection, TLAPS, SequenceTheorems, WellFoundedInduction

(* Induction, by a set: the library's theorem, which takes an operator, is *)
(* out of the provers' reach.                                              *)
LEMMA SetInduction ==
  ASSUME NEW S, 0 \in S, \A n \in Nat : n \in S => n + 1 \in S
  PROVE  Nat \subseteq S
<1> DEFINE T == Nat \ S
           R == OpToRel(<, Nat)
<1> SUFFICES ASSUME T # {} PROVE FALSE
  OBVIOUS
<1>1. PICK x \in T : \A y \in T : <<y, x>> \notin R
  <2>1. IsWellFoundedOn(R, Nat)
    BY NatLessThanWellFounded
  <2>2. T \subseteq Nat
    OBVIOUS
  <2> HIDE DEF T, R
  <2> QED
    BY <2>1, <2>2, WFMin
<1>2. \A a, b \in Nat : a < b => <<a, b>> \in R
  BY DEF OpToRel
<1>3. x \in Nat /\ x # 0 /\ x - 1 \in Nat /\ x - 1 < x
  OBVIOUS
<1>4. x - 1 \in S
  BY <1>1, <1>2, <1>3
<1>5. (x - 1) + 1 = x
  BY <1>3
<1> QED
  BY <1>3, <1>4, <1>5

IsKept(h, s, at, m) ==
  h = [n \in 0..m |->
         IF n = 0 THEN <<>>
         ELSE IF n \in at THEN Append(h[n - 1], s[n]) ELSE h[n - 1]]

LEMMA KeptExists ==
  ASSUME NEW s, NEW at
  PROVE  \A m \in Nat : \E h : IsKept(h, s, at, m)
<1> DEFINE S == {m \in Nat : \E h : IsKept(h, s, at, m)}
<1>1. 0 \in S
  <2> DEFINE h == [n \in 0..0 |-> <<>>]
  <2>1. IsKept(h, s, at, 0)
    BY DEF IsKept
  <2> QED
    BY <2>1
<1>2. ASSUME NEW m \in Nat, m \in S PROVE m + 1 \in S
  <2>1. PICK h : IsKept(h, s, at, m)
    BY <1>2
  <2> DEFINE last == IF m + 1 \in at THEN Append(h[m], s[m + 1]) ELSE h[m]
             k == [n \in 0..(m + 1) |-> IF n = m + 1 THEN last ELSE h[n]]
  <2>2. \A n \in 0..m : k[n] = h[n]
    OBVIOUS
  <2>3. \A n \in 0..(m + 1) : k[n] =
          IF n = 0 THEN <<>>
          ELSE IF n \in at THEN Append(k[n - 1], s[n]) ELSE k[n - 1]
    <3> SUFFICES ASSUME NEW n \in 0..(m + 1)
                 PROVE  k[n] =
                   IF n = 0 THEN <<>>
                   ELSE IF n \in at THEN Append(k[n - 1], s[n]) ELSE k[n - 1]
      OBVIOUS
    <3>1. CASE n = m + 1
      <4>1. k[n - 1] = h[m] /\ k[n] = last /\ n # 0
        BY <2>2, <3>1
      <4> HIDE DEF k
      <4> QED
        BY <3>1, <4>1
    <3>2. CASE n \in 0..m
      <4>1. h[n] = IF n = 0 THEN <<>>
                   ELSE IF n \in at THEN Append(h[n - 1], s[n]) ELSE h[n - 1]
        BY <2>1, <3>2 DEF IsKept
      <4>2. n # 0 => n - 1 \in 0..m
        BY <3>2
      <4> HIDE DEF k
      <4> QED
        BY <2>2, <3>2, <4>1, <4>2
    <3> QED
      BY <3>1, <3>2
  <2>4. k = [n \in 0..(m + 1) |-> k[n]]
    OBVIOUS
  <2> HIDE DEF k
  <2>5. IsKept(k, s, at, m + 1)
    BY <2>3, <2>4 DEF IsKept
  <2> QED
    BY <2>5
<1> HIDE DEF S
<1>3. Nat \subseteq S
  BY <1>1, <1>2, SetInduction
<1> QED
  BY <1>3 DEF S

LEMMA KeptRecursion ==
  ASSUME NEW s, Len(s) \in Nat, NEW at
  PROVE  \E h : IsKept(h, s, at, Len(s)) /\ Kept(s, at) = h[Len(s)]
<1> DEFINE f == CHOOSE h : IsKept(h, s, at, Len(s))
<1>1. IsKept(f, s, at, Len(s))
  <2>1. \E h : IsKept(h, s, at, Len(s))
    BY KeptExists
  <2> QED
    BY <2>1
<1>2. Kept(s, at) = f[Len(s)]
  BY DEF Kept, IsKept
<1> QED
  BY <1>1, <1>2

(* t is what is left of s[1 .. m] at the places "at": g is where each of   *)
(* its elements was.                                                       *)
Enumerates(g, t, s, at, m) ==
  /\ g \in [DOMAIN t -> 1..m]
  /\ \A k \in DOMAIN t : g[k] \in at /\ t[k] = s[g[k]]
  /\ \A k, l \in DOMAIN t : k < l => g[k] < g[l]
  /\ \A i \in (1..m) \cap at : \E k \in DOMAIN t : g[k] = i

LEMMA EnumerateNext ==
  ASSUME NEW S, NEW s \in Seq(S), NEW at, NEW m \in Nat, m + 1 \in 1..Len(s),
         NEW t \in Seq(S), NEW g, Enumerates(g, t, s, at, m), m + 1 \in at
  PROVE  LET u == Append(t, s[m + 1]) IN
         u \in Seq(S) /\ \E h : Enumerates(h, u, s, at, m + 1)
<1> DEFINE u == Append(t, s[m + 1])
           h == [k \in DOMAIN u |-> IF k = Len(t) + 1 THEN m + 1 ELSE g[k]]
<1>1. /\ Len(t) \in Nat /\ DOMAIN t = 1..Len(t)
      /\ DOMAIN u = 1..(Len(t) + 1) /\ u \in Seq(S)
      /\ u[Len(t) + 1] = s[m + 1] /\ \A k \in DOMAIN t : u[k] = t[k]
  OBVIOUS
<1> HIDE DEF u
<1>2. h[Len(t) + 1] = m + 1 /\ \A k \in DOMAIN t : h[k] = g[k] /\ g[k] \in 1..m
  BY <1>1 DEF Enumerates
<1>3. \A k \in DOMAIN u : k = Len(t) + 1 \/ k \in DOMAIN t
  BY <1>1
<1>4. h \in [DOMAIN u -> 1..(m + 1)]
  <2>1. h = [k \in DOMAIN u |-> h[k]]
    OBVIOUS
  <2> HIDE DEF h
  <2>2. m + 1 \in 1..(m + 1) /\ 1..m \subseteq 1..(m + 1)
    OBVIOUS
  <2>3. \A k \in DOMAIN u : h[k] \in 1..(m + 1)
    BY <1>2, <1>3, <2>2
  <2> QED
    BY <2>1, <2>3
<1> HIDE DEF h
<1>5. \A k \in DOMAIN u : h[k] \in at /\ u[k] = s[h[k]]
  BY <1>1, <1>2, <1>3 DEF Enumerates
<1>6. ASSUME NEW k \in DOMAIN u, NEW l \in DOMAIN u, k < l PROVE h[k] < h[l]
  <2>1. k \in DOMAIN t
    BY <1>1, <1>6
  <2>2. CASE l = Len(t) + 1
    BY <1>2, <2>1, <2>2
  <2>3. CASE l \in DOMAIN t
    BY <1>2, <1>6, <2>1, <2>3 DEF Enumerates
  <2> QED
    BY <1>3, <2>2, <2>3
<1>7. ASSUME NEW i \in (1..(m + 1)) \cap at PROVE \E k \in DOMAIN u : h[k] = i
  <2>1. CASE i = m + 1
    <3>1. Len(t) + 1 \in DOMAIN u
      BY <1>1
    <3> QED
      BY <1>2, <2>1, <3>1
  <2>2. CASE i \in 1..m
    <3>1. PICK k \in DOMAIN t : g[k] = i
      BY <1>7, <2>2 DEF Enumerates
    <3>2. k \in DOMAIN u
      BY <1>1
    <3> QED
      BY <1>2, <3>1, <3>2
  <2> QED
    BY <2>1, <2>2
<1>8. Enumerates(h, u, s, at, m + 1)
  BY <1>4, <1>5, <1>6, <1>7 DEF Enumerates
<1> QED
  BY <1>1, <1>8 DEF u

LEMMA KeptPlaces ==
  ASSUME NEW S, NEW s \in Seq(S), NEW at
  PROVE  /\ Kept(s, at) \in Seq(S)
         /\ \E g : Enumerates(g, Kept(s, at), s, at, Len(s))
<1>1. Len(s) \in Nat
  OBVIOUS
<1>2. PICK h : IsKept(h, s, at, Len(s)) /\ Kept(s, at) = h[Len(s)]
  BY <1>1, KeptRecursion
<1> DEFINE Good(m) == h[m] \in Seq(S) /\ \E g : Enumerates(g, h[m], s, at, m)
           T == {m \in Nat : m <= Len(s) => Good(m)}
<1>3. 0 \in T
  <2>1. h[0] = <<>>
    BY <1>1, <1>2 DEF IsKept
  <2>2. Enumerates(<<>>, <<>>, s, at, 0)
    BY DEF Enumerates
  <2>3. h[0] \in Seq(S)
    BY <2>1
  <2>4. \E g : Enumerates(g, h[0], s, at, 0)
    BY <2>1, <2>2
  <2> QED
    BY <2>3, <2>4
<1>4. ASSUME NEW m \in Nat, m \in T PROVE m + 1 \in T
  <2> SUFFICES ASSUME m + 1 <= Len(s) PROVE Good(m + 1)
    OBVIOUS
  <2>1. Good(m) /\ m + 1 \in 1..Len(s) /\ m + 1 \in 0..Len(s) /\ m + 1 # 0
    BY <1>1, <1>4
  <2>2. h[m + 1] = IF m + 1 \in at THEN Append(h[(m + 1) - 1], s[m + 1])
                   ELSE h[(m + 1) - 1]
    BY <1>2, <2>1 DEF IsKept
  <2>3. (m + 1) - 1 = m
    OBVIOUS
  <2>4. PICK g : Enumerates(g, h[m], s, at, m)
    BY <2>1
  <2>5. CASE m + 1 \in at
    <3>1. h[m + 1] = Append(h[m], s[m + 1])
      BY <2>2, <2>3, <2>5
    <3> QED
      BY <2>1, <2>4, <2>5, <3>1, EnumerateNext
  <2>6. CASE m + 1 \notin at
    <3>1. h[m + 1] = h[m]
      BY <2>2, <2>3, <2>6
    <3>2. Enumerates(g, h[m], s, at, m + 1)
      <4>1. \A i \in 1..(m + 1) : i \in at => i \in 1..m
        BY <2>6
      <4>2. 1..m \subseteq 1..(m + 1)
        OBVIOUS
      <4> QED
        BY <2>4, <4>1, <4>2 DEF Enumerates
    <3> QED
      BY <2>1, <3>1, <3>2
  <2> QED
    BY <2>5, <2>6
<1> HIDE DEF T
<1>5. Nat \subseteq T
  BY <1>3, <1>4, SetInduction
<1>6. Len(s) \in T
  BY <1>1, <1>5
<1>7. Good(Len(s))
  BY <1>1, <1>6 DEF T
<1> QED
  BY <1>2, <1>7

(* What follows for the elements, without their places. *)
LEMMA KeptFacts ==
  ASSUME NEW S, NEW s \in Seq(S), NEW at
  PROVE  LET t == Kept(s, at) IN
         /\ t \in Seq(S)
         /\ \A k \in DOMAIN t : \E i \in DOMAIN s \cap at : t[k] = s[i]
         /\ \A i \in DOMAIN s \cap at : \E k \in DOMAIN t : t[k] = s[i]
         /\ \A k, l \in DOMAIN t : k < l =>
              \E i, j \in DOMAIN s \cap at : i < j /\ t[k] = s[i] /\ t[l] = s[j]
<1> DEFINE t == Kept(s, at)
<1>1. t \in Seq(S) /\ DOMAIN s = 1..Len(s)
  BY KeptPlaces
<1>2. PICK g : Enumerates(g, t, s, at, Len(s))
  BY KeptPlaces
<1> HIDE DEF t
<1>3. /\ \A k \in DOMAIN t : g[k] \in DOMAIN s \cap at /\ t[k] = s[g[k]]
      /\ \A k, l \in DOMAIN t : k < l => g[k] < g[l]
      /\ \A i \in DOMAIN s \cap at : \E k \in DOMAIN t : g[k] = i
  BY <1>1, <1>2 DEF Enumerates
<1>4. \A i \in DOMAIN s \cap at : \E k \in DOMAIN t : t[k] = s[i]
  BY <1>3
<1>5. \A k \in DOMAIN t : \E i \in DOMAIN s \cap at : t[k] = s[i]
  BY <1>3
<1>6. \A k, l \in DOMAIN t : k < l =>
        \E i, j \in DOMAIN s \cap at : i < j /\ t[k] = s[i] /\ t[l] = s[j]
  BY <1>3
<1> QED
  BY <1>1, <1>4, <1>5, <1>6 DEF t

LEMMA NothingKept ==
  ASSUME NEW S, NEW s \in Seq(S), NEW at
  PROVE  Kept(s, at) = <<>> <=> DOMAIN s \cap at = {}
<1> DEFINE t == Kept(s, at)
<1>1. /\ t \in Seq(S)
      /\ \A k \in DOMAIN t : \E i \in DOMAIN s \cap at : t[k] = s[i]
      /\ \A i \in DOMAIN s \cap at : \E k \in DOMAIN t : t[k] = s[i]
  BY KeptFacts
<1> HIDE DEF t
<1>2. t = <<>> <=> DOMAIN t = {}
  BY <1>1
<1> QED
  BY <1>1, <1>2 DEF t

(* t has the elements of s at the places "at", and no others. *)
ElementsAt(t, s, at) ==
  /\ \A k \in DOMAIN t : \E i \in DOMAIN s : i \in at /\ t[k] = s[i]
  /\ \A i \in DOMAIN s : i \in at => \E k \in DOMAIN t : t[k] = s[i]

LEMMA KeptElements ==
  ASSUME NEW S, NEW s \in Seq(S), NEW at
  PROVE  ElementsAt(Kept(s, at), s, at)
<1> DEFINE t == Kept(s, at)
<1>1. /\ \A k \in DOMAIN t : \E i \in DOMAIN s \cap at : t[k] = s[i]
      /\ \A i \in DOMAIN s \cap at : \E k \in DOMAIN t : t[k] = s[i]
  BY KeptFacts
<1> HIDE DEF t
<1>2. \A k \in DOMAIN t : \E i \in DOMAIN s : i \in at /\ t[k] = s[i]
  BY <1>1
<1>3. \A i \in DOMAIN s : i \in at => \E k \in DOMAIN t : t[k] = s[i]
  BY <1>1
<1> QED
  BY <1>2, <1>3 DEF t, ElementsAt

----------------------------------------------------------------------------
(* Signatures *)

(* The names that parameters have. *)
Names == STRING \cup HiddenNames
Params == Parameters(Names)

(* p may stand before q. *)
Before(p, q) ==
  /\ Rank(p.kind) <= Rank(q.kind)
  /\ q.kind = "var_keyword" => p.kind # "var_keyword"
  /\ p.name # q.name

LEMMA OrderedPairs ==
  ASSUME NEW params
  PROVE  WellOrdered(params) <=>
           \A i, j \in DOMAIN params : i < j => Before(params[i], params[j])
BY DEF WellOrdered, Before

LEMMA KeptOrdered ==
  ASSUME NEW s \in Seq(Params), WellOrdered(s), NEW at
  PROVE  WellOrdered(Kept(s, at))
<1> DEFINE t == Kept(s, at)
<1>1. \A k, l \in DOMAIN t : k < l =>
        \E i, j \in DOMAIN s : i < j /\ t[k] = s[i] /\ t[l] = s[j]
  BY KeptFacts
<1>2. \A i, j \in DOMAIN s : i < j => Before(s[i], s[j])
  BY OrderedPairs
<1> HIDE DEF t
<1>3. \A k, l \in DOMAIN t : k < l => Before(t[k], t[l])
  BY <1>1, <1>2
<1> QED
  BY <1>3, OrderedPairs DEF t

LEMMA Joined ==
  ASSUME NEW S, NEW s \in Seq(S), NEW t \in Seq(S)
  PROVE  LET u == s \o t IN
         /\ u \in Seq(S)
         /\ \A k \in DOMAIN u : \/ k \in DOMAIN s /\ u[k] = s[k]
                                \/ k > Len(s) /\ k - Len(s) \in DOMAIN t
                                   /\ u[k] = t[k - Len(s)]
         /\ \A i \in DOMAIN s : i \in DOMAIN u /\ u[i] = s[i]
         /\ \A j \in DOMAIN t :
              Len(s) + j \in DOMAIN u /\ u[Len(s) + j] = t[j]
<1> DEFINE u == s \o t
<1>1. /\ u \in Seq(S) /\ Len(s) \in Nat /\ Len(t) \in Nat
      /\ Len(u) = Len(s) + Len(t)
      /\ \A i \in 1..(Len(s) + Len(t)) :
           u[i] = IF i <= Len(s) THEN s[i] ELSE t[i - Len(s)]
  BY ConcatProperties
<1>2. /\ DOMAIN u = 1..(Len(s) + Len(t)) /\ DOMAIN s = 1..Len(s)
      /\ DOMAIN t = 1..Len(t)
  BY <1>1
<1> HIDE DEF u
<1>3. \A k \in DOMAIN u : \/ k \in DOMAIN s /\ u[k] = s[k]
                          \/ k > Len(s) /\ k - Len(s) \in DOMAIN t
                             /\ u[k] = t[k - Len(s)]
  BY <1>1, <1>2
<1>4. \A i \in DOMAIN s : i \in DOMAIN u /\ u[i] = s[i]
  BY <1>1, <1>2
<1>5. \A j \in DOMAIN t : Len(s) + j \in DOMAIN u /\ u[Len(s) + j] = t[j]
  BY <1>1, <1>2
<1> QED
  BY <1>1, <1>3, <1>4, <1>5 DEF u

ElementsOfBoth(u, s, t) ==
  /\ \A k \in DOMAIN u : \/ \E i \in DOMAIN s : u[k] = s[i]
                         \/ \E j \in DOMAIN t : u[k] = t[j]
  /\ \A i \in DOMAIN s : \E k \in DOMAIN u : u[k] = s[i]
  /\ \A j \in DOMAIN t : \E k \in DOMAIN u : u[k] = t[j]

LEMMA JoinedElements ==
  ASSUME NEW S, NEW s \in Seq(S), NEW t \in Seq(S)
  PROVE  ElementsOfBoth(s \o t, s, t)
<1> DEFINE u == s \o t
<1>1. /\ \A k \in DOMAIN u : \/ k \in DOMAIN s /\ u[k] = s[k]
                             \/ k > Len(s) /\ k - Len(s) \in DOMAIN t
                                /\ u[k] = t[k - Len(s)]
      /\ \A i \in DOMAIN s : i \in DOMAIN u /\ u[i] = s[i]
      /\ \A j \in DOMAIN t : Len(s) + j \in DOMAIN u /\ u[Len(s) + j] = t[j]
  BY Joined
<1> HIDE DEF u
<1>2. \A k \in DOMAIN u : \/ \E i \in DOMAIN s : u[k] = s[i]
                          \/ \E j \in DOMAIN t : u[k] = t[j]
  BY <1>1
<1>3. \A i \in DOMAIN s : \E k \in DOMAIN u : u[k] = s[i]
  BY <1>1
<1>4. \A j \in DOMAIN t : \E k \in DOMAIN u : u[k] = t[j]
  BY <1>1
<1> QED
  BY <1>2, <1>3, <1>4 DEF u, ElementsOfBoth

LEMMA JoinedOrdered ==
  ASSUME NEW s \in Seq(Params), WellOrdered(s),
         NEW t \in Seq(Params), WellOrdered(t),
         \A i \in DOMAIN s, j \in DOMAIN t : Before(s[i], t[j])
  PROVE  WellOrdered(s \o t)
<1> DEFINE u == s \o t
<1>1. /\ DOMAIN u \subseteq Nat /\ Len(s) \in Nat
      /\ DOMAIN s = 1..Len(s)
      /\ \A k \in DOMAIN u : \/ k \in DOMAIN s /\ u[k] = s[k]
                             \/ k > Len(s) /\ k - Len(s) \in DOMAIN t
                                /\ u[k] = t[k - Len(s)]
  BY Joined
<1> HIDE DEF u
<1>2. /\ \A i, j \in DOMAIN s : i < j => Before(s[i], s[j])
      /\ \A i, j \in DOMAIN t : i < j => Before(t[i], t[j])
  BY OrderedPairs
<1>3. ASSUME NEW k \in DOMAIN u, NEW l \in DOMAIN u, k < l
      PROVE  Before(u[k], u[l])
  <2>1. CASE k \in DOMAIN s /\ u[k] = s[k] /\ l \in DOMAIN s /\ u[l] = s[l]
    BY <1>2, <1>3, <2>1
  <2>2. CASE /\ k \in DOMAIN s /\ u[k] = s[k]
             /\ l > Len(s) /\ l - Len(s) \in DOMAIN t /\ u[l] = t[l - Len(s)]
    BY <2>2
  <2>3. CASE /\ k > Len(s) /\ k - Len(s) \in DOMAIN t /\ u[k] = t[k - Len(s)]
             /\ l > Len(s) /\ l - Len(s) \in DOMAIN t /\ u[l] = t[l - Len(s)]
    <3>1. k - Len(s) < l - Len(s)
      BY <1>1, <1>3
    <3> QED
      BY <1>2, <2>3, <3>1
  <2>4. ~(k > Len(s) /\ l \in DOMAIN s)
    BY <1>1, <1>3
  <2> QED
    BY <1>1, <2>1, <2>2, <2>3, <2>4
<1> QED
  BY <1>3, OrderedPairs DEF u

Hidden == <<RequestParam, WebSocketParam>>

LEMMA HiddenOrdered ==
  /\ Hidden \in Seq(Params) /\ WellOrdered(Hidden)
  /\ \A j \in DOMAIN Hidden : /\ Hidden[j] \in {RequestParam, WebSocketParam}
                              /\ Hidden[j].kind = "keyword"
                              /\ Hidden[j].name \in HiddenNames
  /\ Hidden[1] = RequestParam /\ 1 \in DOMAIN Hidden
<1>1. RequestParam \in Params /\ WebSocketParam \in Params
  <2>1. RequestParam.name \in Names /\ WebSocketParam.name \in Names
    BY DEF Names, HiddenNames
  <2> QED
    BY <2>1 DEF RequestParam, WebSocketParam, Params, Parameters, Kinds, Hints
<1>2. /\ Hidden \in Seq(Params) /\ DOMAIN Hidden = {1, 2}
      /\ Hidden[1] = RequestParam /\ Hidden[2] = WebSocketParam
  BY <1>1 DEF Hidden
<1>3. \A i, j \in {1, 2} : i < j => i = 1 /\ j = 2
  OBVIOUS
<1>4. Before(RequestParam, WebSocketParam)
  BY DEF Before, RequestParam, WebSocketParam, Rank
<1>5. WellOrdered(Hidden)
  BY <1>2, <1>3, <1>4, OrderedPairs
<1>6. /\ RequestParam.kind = "keyword" /\ WebSocketParam.kind = "keyword"
      /\ RequestParam.name \in HiddenNames
      /\ WebSocketParam.name \in HiddenNames
  BY DEF RequestParam, WebSocketParam, HiddenNames
<1> QED
  BY <1>2, <1>5, <1>6

LEMMA DeclarableType ==
  ASSUME NEW params, Declarable(params)
  PROVE  params \in Seq(Params) /\ WellOrdered(params)
<1>1. params \in Seq(Parameters(STRING)) /\ WellOrdered(params)
  BY DEF Declarable
<1>2. Parameters(STRING) \subseteq Params
  BY DEF Params, Parameters, Names
<1>3. /\ Len(params) \in Nat /\ params = [i \in 1..Len(params) |-> params[i]]
      /\ \A i \in 1..Len(params) : params[i] \in Parameters(STRING)
  BY <1>1
<1>4. \A i \in 1..Len(params) : params[i] \in Params
  BY <1>2, <1>3
<1> QED
  BY <1>1, <1>3, <1>4

(* The hidden parameters are added to what is left of a declarable list,   *)
(* in front of a ** parameter.                                             *)
LEMMA WithHidden ==
  ASSUME NEW rest, Declarable(rest)
  PROVE  LET sig == WithAdditional(rest, Hidden) IN
         /\ sig \in Seq(Params) /\ WellOrdered(sig)
         /\ \A i \in DOMAIN rest : \E j \in DOMAIN sig : sig[j] = rest[i]
         /\ \A j \in DOMAIN sig : \/ \E i \in DOMAIN rest : sig[j] = rest[i]
                                  \/ sig[j] \in {RequestParam, WebSocketParam}
         /\ \E j \in DOMAIN sig : sig[j] = RequestParam
<1> DEFINE a == Kept(rest, DOMAIN rest \ VarKeyword(rest))
           b == Kept(rest, VarKeyword(rest))
           ah == a \o Hidden
           sig == ah \o b
<1>1. rest \in Seq(Params) /\ WellOrdered(rest)
  BY DeclarableType
<1>2. /\ a \in Seq(Params) /\ WellOrdered(a)
      /\ b \in Seq(Params) /\ WellOrdered(b)
  BY <1>1, KeptFacts, KeptOrdered
<1>3. ElementsAt(a, rest, DOMAIN rest \ VarKeyword(rest))
  BY <1>1, KeptElements, Zenon
<1>4. ElementsAt(b, rest, VarKeyword(rest))
  BY <1>1, KeptElements, Zenon
<1> HIDE DEF a, b
<1>5. WithAdditional(rest, Hidden) = sig
  <2>1. Hidden # <<>>
    BY DEF Hidden
  <2> QED
    BY <2>1 DEF WithAdditional, a, b
<1>6. \A i \in DOMAIN rest : /\ rest[i].name \notin HiddenNames
                             /\ rest[i] \in Params
  BY <1>1 DEF Declarable
<1>7. ASSUME NEW i \in DOMAIN a, NEW j \in DOMAIN Hidden
      PROVE  Before(a[i], Hidden[j])
  <2>1. PICK k \in DOMAIN rest : k \notin VarKeyword(rest) /\ a[i] = rest[k]
    BY <1>3 DEF ElementsAt
  <2>2. /\ rest[k].kind \in {"positional", "keyword"}
        /\ rest[k].name \notin HiddenNames
    BY <1>6, <2>1 DEF VarKeyword, Params, Parameters, Kinds
  <2>3. Hidden[j].kind = "keyword" /\ Hidden[j].name \in HiddenNames
    BY HiddenOrdered
  <2> QED
    BY <2>1, <2>2, <2>3 DEF Before, Rank
<1>8. ah \in Seq(Params) /\ WellOrdered(ah)
  BY <1>2, <1>7, HiddenOrdered, Joined, JoinedOrdered
<1>9. ElementsOfBoth(ah, a, Hidden)
  BY <1>2, HiddenOrdered, JoinedElements, Zenon
<1> HIDE DEF ah
<1>11. ASSUME NEW i \in DOMAIN ah, NEW j \in DOMAIN b
       PROVE  Before(ah[i], b[j])
  <2>1. PICK l \in DOMAIN rest : l \in VarKeyword(rest) /\ b[j] = rest[l]
    BY <1>4 DEF ElementsAt
  <2>2. rest[l].kind = "var_keyword" /\ rest[l].name \notin HiddenNames
    BY <1>6, <2>1 DEF VarKeyword
  <2>3. CASE \E m \in DOMAIN Hidden : ah[i] = Hidden[m]
    <3>1. ah[i].kind = "keyword" /\ ah[i].name \in HiddenNames
      BY <2>3, HiddenOrdered
    <3> QED
      BY <2>1, <2>2, <3>1 DEF Before, Rank
  <2>4. CASE \E m \in DOMAIN a : ah[i] = a[m]
    <3>1. PICK k \in DOMAIN rest :
            k \notin VarKeyword(rest) /\ ah[i] = rest[k]
      BY <1>3, <2>4 DEF ElementsAt
    <3>2. rest[k].kind \in {"positional", "keyword"}
      BY <1>6, <3>1 DEF VarKeyword, Params, Parameters, Kinds
    <3>3. k \in Nat /\ l \in Nat /\ k # l
      BY <1>1, <2>2, <3>2
    <3>4. rest[k].name # rest[l].name
      BY <1>1, <3>3 DEF WellOrdered
    <3> QED
      BY <2>1, <2>2, <3>1, <3>2, <3>4 DEF Before, Rank
  <2> QED
    BY <1>9, <2>3, <2>4 DEF ElementsOfBoth
<1>12. sig \in Seq(Params) /\ WellOrdered(sig)
  BY <1>2, <1>8, <1>11, Joined, JoinedOrdered
<1>13. ElementsOfBoth(sig, ah, b)
  BY <1>2, <1>8, JoinedElements, Zenon
<1> HIDE DEF sig
<1>15. ASSUME NEW i \in DOMAIN rest PROVE \E j \in DOMAIN sig : sig[j] = rest[i]
  <2>1. CASE i \in VarKeyword(rest)
    BY <1>4, <1>13, <2>1 DEF ElementsAt, ElementsOfBoth
  <2>2. CASE i \notin VarKeyword(rest)
    <3>1. PICK k \in DOMAIN a : a[k] = rest[i]
      BY <1>3, <2>2 DEF ElementsAt
    <3>2. PICK l \in DOMAIN ah : ah[l] = a[k]
      BY <1>9 DEF ElementsOfBoth
    <3> QED
      BY <1>13, <3>1, <3>2 DEF ElementsOfBoth
  <2> QED
    BY <2>1, <2>2
<1>16. ASSUME NEW j \in DOMAIN sig
       PROVE  \/ \E i \in DOMAIN rest : sig[j] = rest[i]
              \/ sig[j] \in {RequestParam, WebSocketParam}
  <2>1. CASE \E i \in DOMAIN b : sig[j] = b[i]
    BY <1>4, <2>1 DEF ElementsAt
  <2>2. CASE \E i \in DOMAIN ah : sig[j] = ah[i]
    <3>1. PICK i \in DOMAIN ah : sig[j] = ah[i]
      BY <2>2
    <3>2. CASE \E k \in DOMAIN a : ah[i] = a[k]
      BY <1>3, <3>1, <3>2 DEF ElementsAt
    <3>3. CASE \E k \in DOMAIN Hidden : ah[i] = Hidden[k]
      BY <3>1, <3>3, HiddenOrdered
    <3> QED
      BY <1>9, <3>2, <3>3 DEF ElementsOfBoth
  <2> QED
    BY <1>13, <2>1, <2>2 DEF ElementsOfBoth
<1>17. \E j \in DOMAIN sig : sig[j] = RequestParam
  <2>1. PICK k \in DOMAIN ah : ah[k] = RequestParam
    BY <1>9, HiddenOrdered DEF ElementsOfBoth
  <2> QED
    BY <1>13, <2>1 DEF ElementsOfBoth
<1> QED
  BY <1>5, <1>12, <1>15, <1>16, <1>17

LEMMA LargestPlace ==
  ASSUME NEW n \in Nat, NEW A \in SUBSET (1..n), A # {}
  PROVE  \E i \in A : \A j \in A : j <= i
<1> DEFINE T == {m \in Nat : \A B \in SUBSET (1..m) :
                   B # {} => \E i \in B : \A j \in B : j <= i}
<1>1. 0 \in T
  <2>1. 1..0 = {}
    OBVIOUS
  <2> QED
    BY <2>1
<1>2. ASSUME NEW m \in Nat, m \in T PROVE m + 1 \in T
  <2> SUFFICES ASSUME NEW B \in SUBSET (1..(m + 1)), B # {}
               PROVE  \E i \in B : \A j \in B : j <= i
    OBVIOUS
  <2>1. CASE m + 1 \in B
    <3>1. \A j \in B : j <= m + 1
      OBVIOUS
    <3> QED
      BY <2>1, <3>1
  <2>2. CASE m + 1 \notin B
    <3>1. B \in SUBSET (1..m)
      BY <2>2
    <3> QED
      BY <1>2, <3>1
  <2> QED
    BY <2>1, <2>2
<1> HIDE DEF T
<1>3. n \in T
  BY <1>1, <1>2, SetInduction
<1> QED
  BY <1>3 DEF T

LEMMA LastWithFacts ==
  ASSUME NEW S, NEW params \in Seq(S), NEW hint
  PROVE  \/ /\ LastWith(params, hint) = NoParam
            /\ \A i \in DOMAIN params : params[i].hint # hint
         \/ \E i \in DOMAIN params :
              /\ params[i].hint = hint
              /\ LastWith(params, hint) = params[i].name
<1> DEFINE at == {i \in DOMAIN params : params[i].hint = hint}
           last == CHOOSE i \in at : \A j \in at : j <= i
<1>1. CASE at = {}
  BY <1>1 DEF LastWith
<1>2. CASE at # {}
  <2>1. Len(params) \in Nat /\ at \in SUBSET (1..Len(params))
    OBVIOUS
  <2> HIDE DEF at
  <2>2. \E i \in at : \A j \in at : j <= i
    BY <1>2, <2>1, LargestPlace
  <2>3. last \in at
    BY <2>2
  <2>4. LastWith(params, hint) = params[last].name
    BY <1>2 DEF LastWith, at
  <2> HIDE DEF last
  <2> QED
    BY <2>3, <2>4 DEF at
<1> QED
  BY <1>1, <1>2

LEMMA KeptDeclarable ==
  ASSUME NEW params, Declarable(params), NEW at
  PROVE  Declarable(Kept(params, at))
<1> DEFINE t == Kept(params, at)
<1>1. params \in Seq(Parameters(STRING)) /\ params \in Seq(Params)
      /\ WellOrdered(params)
  BY DeclarableType DEF Declarable
<1>2. t \in Seq(Parameters(STRING)) /\ WellOrdered(t)
  BY <1>1, KeptFacts, KeptOrdered
<1>3. ElementsAt(t, params, at)
  BY <1>1, KeptElements, Zenon
<1> HIDE DEF t
<1>4. \A i \in DOMAIN t :
        /\ t[i].name \notin HiddenNames \cup {NoParam}
        /\ t[i].kind = "var_keyword" => t[i].hint = "value"
  BY <1>3 DEF ElementsAt, Declarable
<1> QED
  BY <1>2, <1>4 DEF t, Declarable

(* What an endpoint with these parameters has become when its route is     *)
(* served.                                                                 *)
Rewritten(e, params) ==
  /\ e.params = params
  /\ e.signature \in Seq(Params) /\ WellOrdered(e.signature)
  /\ \A j \in DOMAIN e.signature : e.signature[j].hint # "inject"
  /\ e.injected \in Seq(Params)
  /\ ElementsAt(e.injected, params, Injected(params))
  /\ \A i \in DOMAIN params : params[i].hint # "inject" =>
       \E j \in DOMAIN e.signature : e.signature[j] = params[i]
  /\ \A j \in DOMAIN e.signature :
       \/ \E i \in DOMAIN params : e.signature[j] = params[i]
       \/ /\ IsWrapped(e) /\ e.connection = NoParam
          /\ e.signature[j] \in {RequestParam, WebSocketParam}
  /\ IsWrapped(e) =>
       /\ e.connection = FindConnectionParam(params)
       /\ e.connection = NoParam =>
            \E j \in DOMAIN e.signature : e.signature[j] = RequestParam
  /\ ~IsWrapped(e) => e.connection = NoParam

LEMMA InjectedOnce ==
  ASSUME NEW params, Declarable(params), NEW coroutine
  PROVE  Rewritten(Inject(Endpoint(params, coroutine)), params)
<1> DEFINE f == Endpoint(params, coroutine)
           deps == Kept(params, Injected(params))
           rest == Kept(params, DOMAIN params \ Injected(params))
           found == FindConnectionParam(params)
           hidden == IF found = NoParam THEN Hidden ELSE <<>>
           sig == WithAdditional(rest, hidden)
           e == [params |-> params, signature |-> sig, coroutine |-> coroutine,
                 injected |-> deps, connection |-> found]
<1>1. /\ params \in Seq(Params) /\ WellOrdered(params)
      /\ DOMAIN params \subseteq Nat
  BY DeclarableType
<1>2. deps \in Seq(Params) /\ ElementsAt(deps, params, Injected(params))
  BY <1>1, KeptElements, KeptFacts, Zenon
<1>3. ElementsAt(rest, params, DOMAIN params \ Injected(params))
  BY <1>1, KeptElements, Zenon
<1>4. Declarable(rest)
  BY KeptDeclarable
<1>5. CASE deps = <<>>
  <2>1. Inject(f) = f
    BY <1>5 DEF Inject, Endpoint, InjectedDependencies
  <2>2. /\ f.params = params /\ f.signature = params /\ f.injected = <<>>
        /\ f.connection = NoParam
    BY DEF Endpoint
  <2>3. \A i \in DOMAIN params : params[i].hint # "inject"
    BY <1>2, <1>5 DEF ElementsAt, Injected
  <2>4. ~IsWrapped(f)
    BY <2>2 DEF IsWrapped
  <2>5. ElementsAt(<<>>, params, Injected(params)) /\ <<>> \in Seq(Params)
    BY <1>2, <1>5
  <2> HIDE DEF f
  <2>6. Rewritten(f, params)
    BY <1>1, <2>2, <2>3, <2>4, <2>5 DEF Rewritten
  <2> QED
    BY <2>1, <2>6 DEF f
<1>6. CASE deps # <<>>
  <2>1. Inject(f) = e
    <3>1. deps \o <<>> = deps
      BY <1>2, ConcatEmptySeq
    <3>2. /\ f = [params |-> params, signature |-> params,
                  coroutine |-> coroutine, injected |-> <<>>,
                  connection |-> NoParam]
      BY DEF Endpoint
    <3>3. InjectedDependencies(f.signature) = deps
      BY <3>2 DEF InjectedDependencies
    <3>4. Inject(f) = [f EXCEPT !.signature = InjectedSignature(@, hidden),
                                !.injected = deps \o @,
                                !.connection = found]
      BY <1>6, <3>2, <3>3 DEF Inject, Hidden
    <3>5. InjectedSignature(f.signature, hidden) = sig
      BY <3>2 DEF InjectedSignature
    <3>6. f.injected = <<>>
      BY <3>2
    <3>7. Inject(f) = [f EXCEPT !.signature = sig, !.injected = deps,
                                !.connection = found]
      BY <3>1, <3>4, <3>5, <3>6
    <3> HIDE DEF deps, sig, found, hidden, f
    <3> QED
      BY <3>2, <3>7
  <2>2. /\ e.params = params /\ e.signature = sig /\ e.injected = deps
        /\ e.connection = found
    OBVIOUS
  <2>3. IsWrapped(e)
    BY <1>6 DEF IsWrapped
  <2>4. /\ sig \in Seq(Params) /\ WellOrdered(sig)
        /\ \A i \in DOMAIN rest : \E j \in DOMAIN sig : sig[j] = rest[i]
        /\ \A j \in DOMAIN sig :
             \/ \E i \in DOMAIN rest : sig[j] = rest[i]
             \/ found = NoParam /\ sig[j] \in {RequestParam, WebSocketParam}
        /\ found = NoParam => \E j \in DOMAIN sig : sig[j] = RequestParam
    <3>1. CASE found = NoParam
      <4>1. sig = WithAdditional(rest, Hidden)
        BY <3>1
      <4> HIDE DEF sig, rest, found
      <4> QED
        BY <1>4, <3>1, <4>1, WithHidden
    <3>2. CASE found # NoParam
      <4>1. sig = rest
        BY <3>2 DEF WithAdditional
      <4>2. rest \in Seq(Params) /\ WellOrdered(rest)
        BY <1>4, DeclarableType
      <4> HIDE DEF sig, rest, found
      <4> QED
        BY <3>2, <4>1, <4>2
    <3> QED
      BY <3>1, <3>2
  <2> HIDE DEF sig, deps, rest, found, e
  <2>5. \A j \in DOMAIN sig :
          \/ \E i \in DOMAIN params : params[i].hint # "inject"
                                        /\ sig[j] = params[i]
          \/ found = NoParam /\ sig[j] \in {RequestParam, WebSocketParam}
    BY <1>3, <2>4 DEF ElementsAt, Injected
  <2>6. \A j \in DOMAIN sig : sig[j].hint # "inject"
    <3>1. RequestParam.hint # "inject" /\ WebSocketParam.hint # "inject"
      BY DEF RequestParam, WebSocketParam
    <3> QED
      BY <2>5, <3>1
  <2>7. \A i \in DOMAIN params : params[i].hint # "inject" =>
          \E j \in DOMAIN sig : sig[j] = params[i]
    BY <1>3, <2>4 DEF ElementsAt, Injected
  <2>8. Rewritten(e, params)
    BY <1>2, <2>2, <2>3, <2>4, <2>5, <2>6, <2>7 DEF Rewritten, found
  <2> QED
    BY <2>1, <2>8
<1> QED
  BY <1>5, <1>6

(* A route that is included in the application is injected again, which    *)
(* changes nothing.                                                        *)
LEMMA InjectedTwice ==
  ASSUME NEW e, NEW params, Rewritten(e, params)
  PROVE  Inject(e) = e
<1>1. InjectedDependencies(e.signature) = <<>>
  BY NothingKept DEF InjectedDependencies, Injected, Rewritten
<1> QED
  BY <1>1 DEF Inject

(* An endpoint whose route is declared and whose router is included: the   *)
(* function is called as it was, every parameter that is not injected      *)
(* stays in the signature, the injected ones leave it and are what the     *)
(* wrapper resolves, the signature is one that Python accepts, and if the  *)
(* endpoint declares no connection the hidden request is in it             *)
(* (route_injection.py:46-73, 76-85, 100-159).                             *)
THEOREM RouteRewritten ==
  ASSUME NEW params, Declarable(params), NEW coroutine
  PROVE  Rewritten(Inject(Inject(Endpoint(params, coroutine))), params)
BY InjectedOnce, InjectedTwice

----------------------------------------------------------------------------
(* Calling the endpoint *)

LEMMA FoundConnection ==
  ASSUME NEW params, Declarable(params)
  PROVE  /\ FindConnectionParam(params) = NoParam =>
              \A i \in DOMAIN params : params[i].hint # "request"
         /\ Conventional(params) /\ FindConnectionParam(params) # NoParam =>
              \E i \in DOMAIN params :
                /\ params[i].hint = "request"
                /\ FindConnectionParam(params) = params[i].name
<1>1. /\ params \in Seq(Params)
      /\ \A i \in DOMAIN params : params[i].name # NoParam
  BY DeclarableType DEF Declarable
<1>2. \/ /\ LastWith(params, "request") = NoParam
         /\ \A i \in DOMAIN params : params[i].hint # "request"
      \/ \E i \in DOMAIN params :
           /\ params[i].hint = "request"
           /\ LastWith(params, "request") = params[i].name
  BY <1>1, LastWithFacts
<1>3. \/ LastWith(params, "websocket") = NoParam
      \/ \E i \in DOMAIN params : params[i].hint = "websocket"
  BY <1>1, LastWithFacts
<1> QED
  BY <1>1, <1>2, <1>3 DEF FindConnectionParam, Conventional

(* FastAPI passes the request to the one parameter that takes it: the      *)
(* endpoint's, or the one that was added.                                  *)
LEMMA RequestSupplied ==
  ASSUME NEW e, NEW params, Declarable(params), Rewritten(e, params),
         Conventional(params),
         NEW j \in DOMAIN e.signature, e.signature[j].hint = "request"
  PROVE  e.signature[j].name \in Supplied(e.signature)
<1> DEFINE sig == e.signature
<1>1. /\ sig \in Seq(Params) /\ WellOrdered(sig)
      /\ \A k \in DOMAIN sig :
           \/ \E i \in DOMAIN params : sig[k] = params[i]
           \/ /\ FindConnectionParam(params) = NoParam
              /\ sig[k] \in {RequestParam, WebSocketParam}
  BY DEF Rewritten
<1> HIDE DEF sig
<1>2. DOMAIN sig \subseteq Nat
  BY <1>1
<1>3. ASSUME NEW k \in DOMAIN sig, NEW l \in DOMAIN sig,
             sig[k].name = sig[l].name
      PROVE  k = l
  BY <1>1, <1>2, <1>3 DEF WellOrdered
<1>4. ASSUME NEW k \in DOMAIN sig, sig[k].hint \in {"request", "alias"}
      PROVE  k = j
  <2>1. WebSocketParam.hint = "websocket"
    BY DEF WebSocketParam
  <2>2. \A m \in {k, j} :
          \/ \E i \in DOMAIN params :
               params[i].hint = "request" /\ sig[m] = params[i]
          \/ FindConnectionParam(params) = NoParam /\ sig[m] = RequestParam
    BY <1>1, <1>4, <2>1 DEF Conventional, sig
  <2>3. sig[k] = sig[j]
    <3>1. CASE FindConnectionParam(params) = NoParam
      <4>1. sig[k] = RequestParam /\ sig[j] = RequestParam
        BY <2>2, <3>1, FoundConnection
      <4> QED
        BY <4>1
    <3>2. CASE FindConnectionParam(params) # NoParam
      BY <2>2, <3>2 DEF Conventional
    <3> QED
      BY <3>1, <3>2
  <2> QED
    BY <1>3, <2>3, j \in DOMAIN sig DEF sig
<1>5. \A k \in DOMAIN sig : sig[k].hint \in {"request", "alias"} => k <= j
  BY <1>2, <1>4
<1> QED
  BY <1>5 DEF Supplied, sig

(* What the wrapper calls the endpoint with when it has resolved all.      *)
Arguments(e) == Supplied(e.signature) \cup NamesOf(e.injected)

LEMMA ArgumentNames ==
  ASSUME NEW e, NEW params, Declarable(params), Rewritten(e, params)
  PROVE  /\ Arguments(e) \subseteq NamesOf(params) \cup HiddenNames
         /\ WithoutHidden(e, Arguments(e)) \subseteq NamesOf(params)
         /\ WithoutHidden(e, Arguments(e)) \cap HiddenNames = {}
<1>1. NamesOf(params) \cap HiddenNames = {}
  BY DEF NamesOf, Declarable
<1>2. NamesOf(e.injected) \subseteq NamesOf(params)
  BY DEF Rewritten, ElementsAt, NamesOf
<1>3. \A j \in DOMAIN e.signature :
        \/ e.signature[j].name \in NamesOf(params)
        \/ e.connection = NoParam /\ e.signature[j].name \in HiddenNames
  <2>1. RequestParam.name \in HiddenNames /\ WebSocketParam.name \in HiddenNames
    BY DEF HiddenNames
  <2> QED
    BY <2>1 DEF Rewritten, NamesOf
<1>4. \A name \in Supplied(e.signature) :
        \/ name \in NamesOf(params)
        \/ e.connection = NoParam /\ name \in HiddenNames
  BY <1>3 DEF Supplied
<1> QED
  BY <1>1, <1>2, <1>4 DEF Arguments, WithoutHidden

(* An endpoint that Python calls has all it declares.  (It binds whatever  *)
(* is no ** parameter; that one is FastAPI's, a value.)                    *)
LEMMA BoundComplete ==
  ASSUME NEW e, NEW params, Declarable(params), Rewritten(e, params),
         Binds(params, WithoutHidden(e, Arguments(e)))
  PROVE  NamesOf(params) \subseteq WithoutHidden(e, Arguments(e))
<1> SUFFICES ASSUME NEW i \in DOMAIN params
             PROVE  params[i].name \in WithoutHidden(e, Arguments(e))
  BY DEF NamesOf
<1>1. CASE params[i].kind # "var_keyword"
  BY <1>1 DEF Binds
<1>2. CASE params[i].kind = "var_keyword"
  <2>1. params[i].hint = "value" /\ params[i].name \notin HiddenNames
    BY <1>2 DEF Declarable
  <2>2. PICK j \in DOMAIN e.signature : e.signature[j] = params[i]
    BY <2>1 DEF Rewritten
  <2>3. params[i].name \in Supplied(e.signature)
    BY <2>1, <2>2 DEF Supplied
  <2> QED
    BY <2>1, <2>3 DEF Arguments, WithoutHidden
<1> QED
  BY <1>1, <1>2

(* The wrapper of an endpoint that takes its request as InjectRoute and    *)
(* FastAPI both expect finds its connection among the arguments, from the  *)
(* first one resolved to the last, and its call does not fail over its     *)
(* arguments (route_injection.py:54-66, 88-97).                            *)
THEOREM ConventionalCall ==
  ASSUME NEW e, NEW params, Declarable(params), Rewritten(e, params),
         Conventional(params)
  PROVE  /\ IsWrapped(e) =>
              \A args : Supplied(e.signature) \subseteq args =>
                FindsConnection(e, args)
         /\ Binds(params, WithoutHidden(e, Arguments(e)))
<1>1. ASSUME IsWrapped(e)
      PROVE  (IF e.connection = NoParam THEN RequestParam.name
              ELSE e.connection) \in Supplied(e.signature)
  <2>1. e.connection = FindConnectionParam(params)
    BY <1>1 DEF Rewritten
  <2>2. CASE e.connection = NoParam
    <3>1. PICK j \in DOMAIN e.signature : e.signature[j] = RequestParam
      BY <1>1, <2>2 DEF Rewritten
    <3>2. RequestParam.hint = "request"
      BY DEF RequestParam
    <3> QED
      BY <2>2, <3>1, <3>2, RequestSupplied
  <2>3. CASE e.connection # NoParam
    <3>1. PICK i \in DOMAIN params :
            params[i].hint = "request" /\ e.connection = params[i].name
      BY <2>1, <2>3, FoundConnection
    <3>2. PICK j \in DOMAIN e.signature : e.signature[j] = params[i]
      BY <3>1 DEF Rewritten
    <3> QED
      BY <2>3, <3>1, <3>2, RequestSupplied
  <2> QED
    BY <2>2, <2>3
<1>2. ASSUME NEW i \in DOMAIN params, params[i].kind # "var_keyword"
      PROVE  params[i].name \in WithoutHidden(e, Arguments(e))
  <2>1. params[i].name \notin HiddenNames
    BY DEF Declarable
  <2>2. params[i].hint \in {"value", "inject", "request"}
    <3>1. params[i].hint \in Hints
      <4>1. params[i] \in Params
        BY DeclarableType
      <4> QED
        BY <4>1 DEF Params, Parameters
    <3> QED
      BY <3>1 DEF Hints, Conventional
  <2>3. CASE params[i].hint = "inject"
    <3>1. \E k \in DOMAIN e.injected : e.injected[k] = params[i]
      BY <2>3 DEF Rewritten, ElementsAt, Injected
    <3> QED
      BY <2>1, <3>1 DEF Arguments, NamesOf, WithoutHidden
  <2>4. CASE params[i].hint # "inject"
    <3>1. PICK j \in DOMAIN e.signature : e.signature[j] = params[i]
      BY <2>4 DEF Rewritten
    <3>2. params[i].name \in Supplied(e.signature)
      <4>1. CASE params[i].hint = "value"
        BY <3>1, <4>1 DEF Supplied
      <4>2. CASE params[i].hint = "request"
        BY <3>1, <4>2, RequestSupplied
      <4> QED
        BY <2>2, <2>4, <4>1, <4>2
    <3> QED
      BY <2>1, <3>2 DEF Arguments, WithoutHidden
  <2> QED
    BY <2>3, <2>4
<1>3. WithoutHidden(e, Arguments(e)) \subseteq NamesOf(params)
  BY ArgumentNames
<1> QED
  BY <1>1, <1>2, <1>3 DEF FindsConnection, Binds
=============================================================================
