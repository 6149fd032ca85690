----------------------- MODULE RequestPipeline_proofs -----------------------
(***************************************************************************)
(* Proofs about RequestPipeline, for any configurators and endpoints, any  *)
(* number of builds and any number of connections side by side.            *)
(*                                                                         *)
(* Everything follows from one picture: the layers around a connection are *)
(* nested, so that whatever is entered has all that is outside it around   *)
(* it.  A layer at REQUEST_SCOPE or further in is therefore inside the     *)
(* scope, the scope inside the logging layer, and that one inside the      *)
(* instrumentation, whose span is still recording when it logs.            *)
(*                                                                         *)
(* What the endpoint is called with is a second invariant, on top of the   *)
(* first: the arguments are what FastAPI supplies for the rewritten        *)
(* signature and the injected names resolved so far, and RouteInjection's  *)
(* theorems say that these make a complete call.                           *)
(***************************************************************************)
EXTENDS RequestPipeline, RouteInjection_proofs, FiniteSetTheorems

(* Places of the built-in layers in what BuildPipeline returns. *)
InstrumentationAt == 1
LoggingAt == 2
ScopeAt == 3

Layer == [via : {"pipeline", "api"}, order : Nat,
          kind : {"instrumentation", "logging", "scope", "app"}]

Application(endpoint) ==
  [layers : Seq(Layer), endpoint : {Inject(Inject(endpoint))},
   container : 1..MaxBuilds, configurators : Nat]

(* The built-in layers come first, each once; the others are the           *)
(* application's.                                                          *)
WellBuilt(layers) ==
  /\ layers \in Seq(Layer)
  /\ Len(layers) >= ScopeAt
  /\ \A i \in 1..ScopeAt : layers[i] = Builtins[i]
  /\ \A i \in (ScopeAt + 1)..Len(layers) : layers[i].kind = "app"

BuilderInv ==
  /\ program \in Programs
  /\ configured \in 0..Len(program.setup)
  /\ recorded \in [{"pipeline", "api"} -> Seq(Registration)]
  /\ configured = Len(recorded["pipeline"]) + Len(recorded["api"])
  /\ builds \in 0..MaxBuilds
  /\ Len(apps) <= builds
  /\ apps \in Seq(Application(program.endpoint))
  /\ \A n \in DOMAIN apps :
       /\ WellBuilt(apps[n].layers)
       /\ Len(apps[n].layers) = ScopeAt + apps[n].configurators

(* What is entered has all that is outside it around it. *)
Nested(layers, inside) ==
  /\ inside \subseteq DOMAIN layers
  /\ \A i \in inside, j \in DOMAIN layers :
       Outside(layers, j, i) => j \in inside

(* The endpoint runs inside of all layers, and the outcome has left all. *)
Placed(layers, s) ==
  /\ Nested(layers, s.inside)
  /\ s.phase \in {"wrapper", "handler"} => s.inside = DOMAIN layers
  /\ s.phase = "done" => s.inside = {}

(* A middleware of the application is further out than the scope. *)
AppOutside(layers) ==
  \E i \in DOMAIN layers :
    layers[i].kind = "app" /\ Outside(layers, i, ScopeAt)

(* A request has a scope of its own, open exactly while its layer is       *)
(* entered.  What it has to dispose of is resolved in it, came late, or    *)
(* was left there by an exit that was cut; and only a middleware outside   *)
(* the scope comes late.                                                   *)
ScopeInv(c, s, app) ==
  /\ s.published \in {Nobody, c}
  /\ s.published = Nobody <=> s.scope = "none"
  /\ s.scope # "none" => s.type \in {"http", "websocket"}
  /\ s.scope = "open" => ScopeAt \in s.inside
  /\ ScopeAt \in s.inside /\ s.type \in {"http", "websocket"} =>
       s.scope = "open" /\ s.root = app.container
  /\ s.owed => s.scope = "open" \/ s.late \/ s.cut
  /\ s.late => AppOutside(app.layers)

(* Nothing is logged before the logging layer is left, and then what that  *)
(* layer saw.                                                              *)
LogInv(s) ==
  /\ Len(s.log) <= 1
  /\ s.phase \in {"in", "wrapper", "handler"} \/ LoggingAt \in s.inside =>
       s.log = <<>>
  /\ s.phase = "out" /\ LoggingAt \in s.inside
       /\ s.outcome \in {"raised", "cancelled"} => s.under
  /\ s.phase \in {"out", "done"} /\ LoggingAt \notin s.inside =>
       /\ s.outcome = "raised" /\ s.under =>
            s.log = <<s.type \in {"http", "websocket"}>>
       /\ s.outcome = "cancelled" /\ s.under => s.log = <<>>

Serving(c, s) ==
  /\ s.app \in DOMAIN apps
  /\ s.type \in Types
  /\ s.phase # "idle"
  /\ Placed(apps[s.app].layers, s)
  /\ ScopeInv(c, s, apps[s.app])
  /\ LogInv(s)

Served(c, s) == (\E names : s \in ConnState(names)) /\ Serving(c, s)

ConnInv ==
  /\ conn = [c \in Connections |-> conn[c]]
  /\ \A c \in Connections : conn[c] = Idle \/ Served(c, conn[c])

Inv == BuilderInv /\ ConnInv

----------------------------------------------------------------------------
(* Layers *)

LEMMA BuiltinPlaces ==
  ASSUME NEW layers, WellBuilt(layers)
  PROVE  /\ {InstrumentationAt, LoggingAt, ScopeAt} \subseteq DOMAIN layers
         /\ \A i \in DOMAIN layers :
              /\ layers[i] \in Layer
              /\ layers[i].kind = "instrumentation" <=> i = InstrumentationAt
              /\ layers[i].kind = "logging" <=> i = LoggingAt
              /\ layers[i].kind = "scope" <=> i = ScopeAt
<1>1. layers \in Seq(Layer) /\ Len(layers) \in Nat /\ Len(layers) >= 3
  BY DEF WellBuilt, ScopeAt
<1>2. DOMAIN layers = 1..Len(layers) /\ 1..3 \subseteq DOMAIN layers
  BY <1>1
<1>3. \A i \in DOMAIN layers : layers[i] \in Layer
  BY <1>1
<1>4. /\ layers[1].kind = "instrumentation" /\ layers[2].kind = "logging"
      /\ layers[3].kind = "scope"
  BY DEF WellBuilt, Builtins, ScopeAt
<1>5. \A i \in DOMAIN layers : i \in 4..Len(layers) => layers[i].kind = "app"
  BY DEF WellBuilt, ScopeAt
<1>6. \A i \in DOMAIN layers : i = 1 \/ i = 2 \/ i = 3 \/ i \in 4..Len(layers)
  BY <1>1, <1>2
<1>7. ASSUME NEW i \in DOMAIN layers
      PROVE  /\ layers[i].kind = "instrumentation" <=> i = 1
             /\ layers[i].kind = "logging" <=> i = 2
             /\ layers[i].kind = "scope" <=> i = 3
  BY <1>1, <1>4, <1>5, <1>6
<1> QED
  BY <1>2, <1>3, <1>7 DEF InstrumentationAt, LoggingAt, ScopeAt

LEMMA OutsideOneWay ==
  ASSUME NEW layers, WellBuilt(layers),
         NEW i \in DOMAIN layers, NEW j \in DOMAIN layers,
         Outside(layers, i, j)
  PROVE  ~Outside(layers, j, i)
<1>1. /\ i \in Nat /\ j \in Nat
      /\ layers[i] \in Layer /\ layers[j] \in Layer
  BY DEF WellBuilt
<1> QED
  BY <1>1 DEF Outside, Layer

(* The instrumentation is outside the logging layer, that one outside the  *)
(* scope's, and that one outside every middleware registered at            *)
(* REQUEST_SCOPE or further in.                                            *)
LEMMA BuiltinOrder ==
  ASSUME NEW layers, WellBuilt(layers)
  PROVE  /\ Outside(layers, InstrumentationAt, LoggingAt)
         /\ Outside(layers, LoggingAt, ScopeAt)
         /\ \A i \in DOMAIN layers :
              /\ layers[i].via = "pipeline" /\ layers[i].order >= REQUEST_SCOPE
              /\ i # ScopeAt
              => Outside(layers, ScopeAt, i)
<1>1. /\ layers[1] = Builtins[1] /\ layers[2] = Builtins[2]
      /\ layers[3] = Builtins[3]
  BY DEF WellBuilt, ScopeAt
<1>2. /\ Outside(layers, InstrumentationAt, LoggingAt)
      /\ Outside(layers, LoggingAt, ScopeAt)
  BY <1>1 DEF Outside, Builtins, InstrumentationAt, LoggingAt, ScopeAt,
     INSTRUMENTATION, EXCEPTION_LOGGING, REQUEST_SCOPE
<1>3. ASSUME NEW i \in DOMAIN layers, i # ScopeAt,
             layers[i].via = "pipeline", layers[i].order >= REQUEST_SCOPE
      PROVE  Outside(layers, ScopeAt, i)
  <2>1. i \in 1..Len(layers) /\ Len(layers) \in Nat /\ layers[i].order \in Nat
    <3>1. layers \in Seq(Layer)
      BY DEF WellBuilt
    <3>2. layers[i] \in Layer
      BY <3>1
    <3> QED
      BY <3>1, <3>2 DEF Layer
  <2>2. i # 1 /\ i # 2
    BY <1>1, <1>3 DEF Builtins, INSTRUMENTATION, EXCEPTION_LOGGING,
       REQUEST_SCOPE
  <2> QED
    BY <1>1, <1>3, <2>1, <2>2 DEF Outside, Builtins, ScopeAt, REQUEST_SCOPE
<1> QED
  BY <1>2, <1>3

LEMMA NestedBuiltins ==
  ASSUME NEW layers, NEW inside, WellBuilt(layers), Nested(layers, inside)
  PROVE  /\ LoggingAt \in inside => InstrumentationAt \in inside
         /\ ScopeAt \in inside => LoggingAt \in inside
BY BuiltinOrder, BuiltinPlaces DEF Nested

LEMMA EnterNested ==
  ASSUME NEW layers, NEW inside, WellBuilt(layers), Nested(layers, inside),
         NEW i \in DOMAIN layers \ inside,
         \A j \in DOMAIN layers \ (inside \cup {i}) : Outside(layers, i, j)
  PROVE  Nested(layers, inside \cup {i})
BY OutsideOneWay DEF Nested

LEMMA LeaveNested ==
  ASSUME NEW layers, NEW inside, WellBuilt(layers), Nested(layers, inside),
         NEW i \in inside, \A j \in inside \ {i} : Outside(layers, j, i)
  PROVE  Nested(layers, inside \ {i})
BY OutsideOneWay DEF Nested

LEMMA ConcatFacts ==
  ASSUME NEW S, NEW s \in Seq(S), NEW t \in Seq(S)
  PROVE  /\ s \o t \in Seq(S)
         /\ Len(s) \in Nat /\ Len(t) \in Nat
         /\ Len(s \o t) = Len(s) + Len(t)
         /\ \A i \in 1..Len(s) : (s \o t)[i] = s[i]
         /\ \A i \in (Len(s) + 1)..(Len(s) + Len(t)) :
              (s \o t)[i] = t[i - Len(s)]
<1>1. Len(s) \in Nat /\ Len(t) \in Nat
  OBVIOUS
<1>2. s \o t \in Seq(S)
  OBVIOUS
<1>3. Len(s \o t) = Len(s) + Len(t)
  OBVIOUS
<1>4. \A i \in 1..(Len(s) + Len(t)) :
        (s \o t)[i] = IF i <= Len(s) THEN s[i] ELSE t[i - Len(s)]
  OBVIOUS
<1> QED
  BY <1>1, <1>2, <1>3, <1>4

(* An application's layers, as Build puts them together. *)
LEMMA BuiltLayers ==
  ASSUME BuilderInv
  PROVE  /\ WellBuilt(BuildPipeline \o AppLayers(recorded["api"]))
         /\ Len(BuildPipeline \o AppLayers(recorded["api"]))
              = ScopeAt + configured
<1>1. recorded["pipeline"] \in Seq(Registration)
      /\ recorded["api"] \in Seq(Registration)
  BY DEF BuilderInv
<1>2. ASSUME NEW r \in Seq(Registration)
      PROVE  /\ AppLayers(r) \in Seq(Layer)
             /\ \A i \in DOMAIN AppLayers(r) : AppLayers(r)[i].kind = "app"
             /\ Len(AppLayers(r)) = Len(r)
  <2>1. /\ DOMAIN r = 1..Len(r) /\ Len(r) \in Nat
        /\ \A i \in DOMAIN r : r[i] \in Registration
    BY <1>2
  <2>2. \A i \in DOMAIN r : AppLayers(r)[i] =
          [via |-> r[i].via, order |-> r[i].order, kind |-> "app"]
    BY DEF AppLayers
  <2>3. \A i \in DOMAIN r :
          /\ AppLayers(r)[i] \in Layer
          /\ AppLayers(r)[i].kind = "app"
    <3> SUFFICES ASSUME NEW i \in DOMAIN r
                 PROVE  /\ AppLayers(r)[i] \in Layer
                        /\ AppLayers(r)[i].kind = "app"
      OBVIOUS
    <3>1. /\ r[i].via \in {"pipeline", "api"} /\ r[i].order \in Nat
      BY <2>1 DEF Registration
    <3>2. AppLayers(r)[i] =
            [via |-> r[i].via, order |-> r[i].order, kind |-> "app"]
      BY <2>2
    <3> QED
      BY <3>1, <3>2 DEF Layer
  <2>4. DOMAIN AppLayers(r) = DOMAIN r
    BY DEF AppLayers
  <2>5. AppLayers(r) = [i \in 1..Len(r) |-> AppLayers(r)[i]]
    BY <2>1 DEF AppLayers
  <2>6. AppLayers(r) \in Seq(Layer) /\ Len(AppLayers(r)) = Len(r)
    BY <2>1, <2>3, <2>5
  <2> QED
    BY <2>3, <2>4, <2>6
<1>3. Builtins \in Seq(Layer) /\ Len(Builtins) = 3
  BY DEF Builtins, Layer, INSTRUMENTATION, EXCEPTION_LOGGING, REQUEST_SCOPE
<1> DEFINE p == AppLayers(recorded["pipeline"])
           a == AppLayers(recorded["api"])
<1>4. /\ p \in Seq(Layer) /\ \A i \in DOMAIN p : p[i].kind = "app"
      /\ a \in Seq(Layer) /\ \A i \in DOMAIN a : a[i].kind = "app"
      /\ Len(p) + Len(a) = configured
  BY <1>1, <1>2 DEF BuilderInv
<1> HIDE DEF p, a
<1> DEFINE q == Builtins \o p
<1>5. /\ q \in Seq(Layer) /\ Len(q) = 3 + Len(p) /\ Len(p) \in Nat
      /\ \A i \in 1..3 : q[i] = Builtins[i]
      /\ \A i \in 4..Len(q) : q[i].kind = "app"
  <2>0. /\ q \in Seq(Layer) /\ Len(p) \in Nat
        /\ Len(q) = Len(Builtins) + Len(p)
        /\ \A i \in 1..Len(Builtins) : q[i] = Builtins[i]
        /\ \A i \in (Len(Builtins) + 1)..(Len(Builtins) + Len(p)) :
             q[i] = p[i - Len(Builtins)]
    BY <1>3, <1>4, ConcatFacts, Zenon
  <2>1. q \in Seq(Layer) /\ Len(q) = 3 + Len(p) /\ Len(p) \in Nat
    BY <1>3, <2>0
  <2>2. \A i \in 1..3 : q[i] = Builtins[i]
    BY <1>3, <2>0
  <2>3. ASSUME NEW i \in 4..Len(q) PROVE q[i].kind = "app"
    <3>1. i - 3 \in DOMAIN p /\ q[i] = p[i - 3]
      BY <1>3, <1>4, <2>0, <2>1
    <3> QED
      BY <1>4, <3>1
  <2> QED
    BY <2>1, <2>2, <2>3
<1> HIDE DEF q
<1> DEFINE w == q \o a
<1>6. w \in Seq(Layer) /\ Len(w) = Len(q) + Len(a) /\ Len(a) \in Nat
  BY <1>4, <1>5, ConcatFacts
<1>7. \A i \in 1..3 : w[i] = Builtins[i]
  <2>1. \A i \in 1..Len(q) : w[i] = q[i]
    BY <1>4, <1>5, ConcatFacts
  <2> QED
    BY <1>5, <2>1
<1>8. ASSUME NEW i \in 4..Len(w) PROVE w[i].kind = "app"
  <2>1. CASE i <= Len(q)
    BY <1>4, <1>5, <2>1, ConcatFacts
  <2>2. CASE i > Len(q)
    <3>1. i - Len(q) \in DOMAIN a /\ w[i] = a[i - Len(q)]
      BY <1>4, <1>5, <1>6, <2>2, ConcatFacts
    <3> QED
      BY <1>4, <3>1
  <2> QED
    BY <1>5, <1>6, <2>1, <2>2
<1> QED
  BY <1>4, <1>5, <1>6, <1>7, <1>8
     DEF BuildPipeline, WellBuilt, ScopeAt, p, a, q
----------------------------------------------------------------------------
(* The initial state and the builder *)

LEMMA AppFacts ==
  ASSUME BuilderInv, NEW n \in DOMAIN apps
  PROVE  /\ n \in 0..MaxBuilds
         /\ apps[n].container \in 0..MaxBuilds
         /\ WellBuilt(apps[n].layers)
         /\ apps[n].endpoint = Inject(Inject(program.endpoint))
<1>1. apps \in Seq(Application(program.endpoint))
  BY DEF BuilderInv
<1>2. /\ n \in 1..Len(apps) /\ Len(apps) \in Nat
      /\ apps[n] \in Application(program.endpoint)
  BY <1>1
<1>3. n \in 0..MaxBuilds
  BY <1>2, PipelineAssumption DEF BuilderInv
<1>4. /\ apps[n].container \in 0..MaxBuilds
      /\ apps[n].endpoint = Inject(Inject(program.endpoint))
  BY <1>2, PipelineAssumption DEF Application
<1> QED
  BY <1>3, <1>4 DEF BuilderInv

LEMMA InitInv == Init => Inv
<1> SUFFICES ASSUME Init PROVE Inv
  OBVIOUS
<1>1. program \in Programs /\ Len(program.setup) \in Nat
  BY PipelineAssumption DEF Init
<1>2. recorded \in [{"pipeline", "api"} -> Seq(Registration)]
  BY DEF Init
<1>3. /\ builds \in 0..MaxBuilds /\ Len(apps) <= builds
      /\ DOMAIN apps = {}
      /\ apps \in Seq(Application(program.endpoint))
  BY PipelineAssumption DEF Init
<1>4. ConnInv
  BY DEF Init, ConnInv
<1> QED
  BY <1>1, <1>2, <1>3, <1>4 DEF Inv, BuilderInv, Init

(* Applications that exist are not touched, so neither is what is served.  *)
LEMMA AppsGrow ==
  ASSUME ConnInv, UNCHANGED conn, NEW S, apps \in Seq(S),
         NEW app, UNCHANGED apps \/ apps' = Append(apps, app)
  PROVE  ConnInv'
<1>1. \A n \in DOMAIN apps : n \in DOMAIN apps' /\ apps'[n] = apps[n]
  <2>1. CASE UNCHANGED apps
    BY <2>1
  <2>2. CASE apps' = Append(apps, app)
    BY <2>2
  <2> QED
    BY <2>1, <2>2
<1>2. ASSUME NEW c \in Connections, Served(c, conn[c]) PROVE Served(c, conn[c])'
  <2>1. Serving(c, conn[c])
    BY <1>2 DEF Served
  <2>2. /\ conn[c].app \in DOMAIN apps'
        /\ apps'[conn[c].app] = apps[conn[c].app]
    BY <1>1, <2>1 DEF Serving
  <2>3. Serving(c, conn[c])'
    BY <2>1, <2>2 DEF Serving, Placed, Nested, ScopeInv, LogInv
  <2>4. \E names : conn[c] \in ConnState(names)
    BY <1>2 DEF Served
  <2>5. (\E names : conn[c] \in ConnState(names))'
    BY <2>4
  <2> QED
    BY <2>3, <2>5 DEF Served
<1>3. \A c \in Connections : (conn[c] = Idle \/ Served(c, conn[c]))'
  BY <1>2 DEF ConnInv, Idle
<1> QED
  BY <1>3 DEF ConnInv

LEMMA BuilderStepInv ==
  ASSUME Inv, BuilderStep
  PROVE  Inv'
<1> USE DEF Inv
<1>1. apps \in Seq(Application(program.endpoint))
  BY DEF BuilderInv
<1>2. /\ builds \in Nat /\ Len(apps) \in Nat /\ MaxBuilds \in Nat
      /\ program.setup \in Seq(Registration)
  BY <1>1, PipelineAssumption DEF BuilderInv
<1>3. CASE Configure
  <2>1. ConnInv'
    BY <1>1, <1>3, AppsGrow DEF Configure
  <2>2. program.setup[configured + 1] \in Registration
    BY <1>2, <1>3 DEF Configure, BuilderInv
  <2>3. /\ recorded' \in [{"pipeline", "api"} -> Seq(Registration)]
        /\ Len(recorded'["pipeline"]) + Len(recorded'["api"]) = configured + 1
    <3> DEFINE r == program.setup[configured + 1]
               p == recorded["pipeline"]
               a == recorded["api"]
    <3>1. /\ r \in Registration /\ r.via \in {"pipeline", "api"}
          /\ recorded \in [{"pipeline", "api"} -> Seq(Registration)]
          /\ recorded' = [recorded EXCEPT ![r.via] = Append(@, r)]
          /\ configured = Len(p) + Len(a)
      BY <1>3, <2>2 DEF Configure, BuilderInv, Registration
    <3> HIDE DEF r
    <3>2. recorded' \in [{"pipeline", "api"} -> Seq(Registration)]
      <4>1. Append(recorded[r.via], r) \in Seq(Registration)
        BY <3>1
      <4> QED
        BY <3>1, <4>1
    <3>3. /\ p \in Seq(Registration) /\ a \in Seq(Registration)
          /\ \/ recorded'["pipeline"] = Append(p, r) /\ recorded'["api"] = a
             \/ recorded'["pipeline"] = p /\ recorded'["api"] = Append(a, r)
      BY <3>1
    <3> HIDE DEF p, a
    <3>4. Len(p) \in Nat /\ Len(a) \in Nat
          /\ Len(Append(p, r)) = Len(p) + 1 /\ Len(Append(a, r)) = Len(a) + 1
      BY <3>1, <3>3
    <3>5. Len(recorded'["pipeline"]) + Len(recorded'["api"]) = configured + 1
      <4>1. CASE recorded'["pipeline"] = Append(p, r) /\ recorded'["api"] = a
        <5>1. (Len(p) + 1) + Len(a) = configured + 1
          BY <3>1, <3>4
        <5> QED
          BY <3>4, <4>1, <5>1, Zenon
      <4>2. CASE recorded'["pipeline"] = p /\ recorded'["api"] = Append(a, r)
        <5>1. Len(p) + (Len(a) + 1) = configured + 1
          BY <3>1, <3>4
        <5> QED
          BY <3>4, <4>2, <5>1, Zenon
      <4> QED
        BY <3>3, <4>1, <4>2
    <3> QED
      BY <3>2, <3>5
  <2>4. configured' \in 0..Len(program.setup)
    BY <1>2, <1>3 DEF Configure, BuilderInv
  <2>5. BuilderInv'
    BY <1>3, <2>3, <2>4 DEF Configure, BuilderInv
  <2> QED
    BY <2>1, <2>5
<1>4. CASE Build
  <2> DEFINE app == [layers |-> BuildPipeline \o AppLayers(recorded["api"]),
                     endpoint |-> Inject(Inject(program.endpoint)),
                     container |-> builds + 1,
                     configurators |-> configured]
  <2>1. apps' = Append(apps, app) /\ builds' = builds + 1 /\ builds < MaxBuilds
    BY <1>4 DEF Build
  <2>2. UNCHANGED <<program, configured, recorded, conn>>
    BY <1>4 DEF Build
  <2>3. WellBuilt(app.layers) /\ Len(app.layers) = ScopeAt + app.configurators
    BY BuiltLayers
  <2>4. app \in Application(program.endpoint)
    <3>1. /\ app.layers \in Seq(Layer) /\ configured \in Nat
          /\ builds + 1 \in 1..MaxBuilds
      BY <1>2, <2>1, <2>3 DEF WellBuilt, BuilderInv
    <3> QED
      BY <3>1 DEF Application
  <2> HIDE DEF app
  <2>6. /\ apps' \in Seq(Application(program.endpoint))
        /\ Len(apps') = Len(apps) + 1
    BY <1>1, <2>1, <2>4
  <2>7. \A n \in DOMAIN apps' :
          /\ WellBuilt(apps'[n].layers)
          /\ Len(apps'[n].layers) = ScopeAt + apps'[n].configurators
    <3> SUFFICES ASSUME NEW n \in DOMAIN apps'
                 PROVE  /\ WellBuilt(apps'[n].layers)
                        /\ Len(apps'[n].layers)
                             = ScopeAt + apps'[n].configurators
      OBVIOUS
    <3>1. CASE n \in DOMAIN apps
      BY <1>1, <2>1, <3>1 DEF BuilderInv
    <3>2. CASE n \notin DOMAIN apps
      <4>1. n = Len(apps) + 1
        BY <1>1, <2>6, <3>2
      <4>2. apps'[n] = app
        BY <1>1, <2>1, <4>1
      <4> QED
        BY <2>3, <4>2
    <3> QED
      BY <3>1, <3>2
  <2>8. builds' \in 0..MaxBuilds /\ Len(apps') <= builds'
    BY <1>2, <2>1, <2>6 DEF BuilderInv
  <2>9. BuilderInv'
    <3>1. Application(program.endpoint)' = Application(program.endpoint)
      BY <2>2 DEF Application
    <3> QED
      BY <2>2, <2>6, <2>7, <2>8, <3>1 DEF BuilderInv
  <2>10. ConnInv'
    BY <1>1, <2>1, <2>2, AppsGrow
  <2> QED
    BY <2>9, <2>10
<1>5. CASE BuildRaises
  <2>1. ConnInv'
    BY <1>1, <1>5, AppsGrow DEF BuildRaises
  <2>2. builds' \in 0..MaxBuilds /\ Len(apps) <= builds'
    BY <1>2, <1>5 DEF BuildRaises, BuilderInv
  <2>3. BuilderInv'
    BY <1>5, <2>2 DEF BuildRaises, BuilderInv
  <2> QED
    BY <2>1, <2>3
<1> QED
  BY <1>3, <1>4, <1>5 DEF BuilderStep
----------------------------------------------------------------------------
(* Steps of a connection *)

LEMMA ConnectionChange ==
  ASSUME Inv, UNCHANGED <<program, configured, recorded, builds, apps>>,
         NEW c \in Connections, NEW t, Served(c, t),
         conn' = [conn EXCEPT ![c] = t]
  PROVE  Inv'
<1>1. BuilderInv'
  BY DEF Inv, BuilderInv
<1>2. ASSUME NEW d, NEW s, Served(d, s) PROVE Served(d, s)'
  BY <1>2 DEF Served, Serving
<1>3. /\ conn' = [d \in Connections |-> conn'[d]]
      /\ conn'[c] = t
      /\ \A d \in Connections : d # c => conn'[d] = conn[d]
  BY DEF Inv, ConnInv
<1>4. ASSUME NEW d \in Connections, d # c, Served(d, conn[d])
      PROVE  Served(d, conn[d])'
  <2>1. conn'[d] = conn[d]
    BY <1>3, <1>4
  <2>2. PICK s : s = conn[d]
    OBVIOUS
  <2>3. Served(d, s)'
    BY <1>2, <1>4, <2>2
  <2> QED
    BY <2>1, <2>2, <2>3 DEF Served, Serving
<1>5. Served(c, conn[c])'
  <2>1. Served(c, t)'
    BY <1>2
  <2> QED
    BY <1>3, <2>1 DEF Served, Serving
<1>6. \A d \in Connections : (conn[d] = Idle \/ Served(d, conn[d]))'
  <2> SUFFICES ASSUME NEW d \in Connections
               PROVE  (conn[d] = Idle \/ Served(d, conn[d]))'
    OBVIOUS
  <2>1. CASE d = c
    BY <1>5, <2>1
  <2>2. CASE d # c /\ conn[d] = Idle
    <3>1. conn'[d] = Idle
      BY <1>3, <2>2
    <3> QED
      BY <3>1 DEF Idle
  <2>3. CASE d # c /\ Served(d, conn[d])
    BY <1>4, <2>3
  <2> QED
    BY <2>1, <2>2, <2>3 DEF Inv, ConnInv
<1> QED
  BY <1>1, <1>3, <1>6 DEF Inv, ConnInv

(* What is known of a connection that is under way. *)
LEMMA ConnFacts ==
  ASSUME Inv, NEW c \in Connections, conn[c].phase # "idle"
  PROVE  /\ Served(c, conn[c])
         /\ conn[c].app \in DOMAIN apps /\ conn[c].app \in 0..MaxBuilds
         /\ WellBuilt(Layers(c))
         /\ Placed(Layers(c), conn[c])
         /\ ScopeInv(c, conn[c], apps[conn[c].app])
         /\ LogInv(conn[c])
         /\ apps[conn[c].app].container \in 0..MaxBuilds
         /\ LayerOf(c, "instrumentation") = {InstrumentationAt}
         /\ LayerOf(c, "logging") = {LoggingAt}
         /\ LayerOf(c, "scope") = {ScopeAt}
         /\ \A i \in DOMAIN Layers(c) : Layers(c)[i].kind = "app" =>
              i # LoggingAt /\ i # ScopeAt /\ i # InstrumentationAt
<1>1. Served(c, conn[c])
  BY DEF Inv, ConnInv, Idle
<1>2. /\ conn[c].app \in DOMAIN apps /\ conn[c].app \in 0..MaxBuilds
      /\ WellBuilt(Layers(c))
      /\ apps[conn[c].app].container \in 0..MaxBuilds
  BY <1>1, AppFacts DEF Inv, Served, Serving, Layers
<1>3. /\ Placed(Layers(c), conn[c])
      /\ ScopeInv(c, conn[c], apps[conn[c].app])
      /\ LogInv(conn[c])
  BY <1>1 DEF Served, Serving, Layers
<1>4. /\ {InstrumentationAt, LoggingAt, ScopeAt} \subseteq DOMAIN Layers(c)
      /\ \A i \in DOMAIN Layers(c) :
           /\ Layers(c)[i].kind = "instrumentation" <=> i = InstrumentationAt
           /\ Layers(c)[i].kind = "logging" <=> i = LoggingAt
           /\ Layers(c)[i].kind = "scope" <=> i = ScopeAt
  BY <1>2, BuiltinPlaces, Zenon
<1>5. /\ LayerOf(c, "instrumentation") = {InstrumentationAt}
      /\ LayerOf(c, "logging") = {LoggingAt}
      /\ LayerOf(c, "scope") = {ScopeAt}
  BY <1>4 DEF LayerOf
<1>6. \A i \in DOMAIN Layers(c) : Layers(c)[i].kind = "app" =>
              i # LoggingAt /\ i # ScopeAt /\ i # InstrumentationAt
  BY <1>4
<1> QED
  BY <1>1, <1>2, <1>3, <1>5, <1>6

LEMMA ConnType ==
  ASSUME Inv, NEW c \in Connections
  PROVE  \E names : conn[c] \in ConnState(names)
<1>1. CASE conn[c] = Idle
  <2>1. Idle \in ConnState({})
    BY PipelineAssumption DEF Idle, ConnState
  <2> QED
    BY <1>1, <2>1
<1>2. CASE Served(c, conn[c])
  BY <1>2 DEF Served
<1> QED
  BY <1>1, <1>2 DEF Inv, ConnInv

LEMMA AcceptInv ==
  ASSUME Inv, NEW c \in Connections, Accept(c)
  PROVE  Inv'
<1>1. PICK n \in DOMAIN apps, type \in Types :
        conn' = [conn EXCEPT ![c].type = type, ![c].app = n, ![c].phase = "in"]
  BY DEF Accept
<1> DEFINE t == [Idle EXCEPT !.type = type, !.app = n, !.phase = "in"]
<1>2. conn[c] = Idle
  BY DEF Inv, ConnInv, Accept, Phase, Served, Serving
<1>3. conn' = [conn EXCEPT ![c] = t]
  <2>1. conn' = [conn EXCEPT ![c] =
                   [conn[c] EXCEPT !.type = type, !.app = n, !.phase = "in"]]
    BY <1>1 DEF Inv, ConnInv
  <2> QED
    BY <1>2, <2>1
<1>4. n \in 0..MaxBuilds /\ WellBuilt(apps[n].layers)
  BY AppFacts DEF Inv
<1>5. t \in ConnState({})
  <2>1. Idle \in ConnState({})
    BY PipelineAssumption DEF Idle, ConnState
  <2>2. \A s \in ConnState({}) :
          [s EXCEPT !.type = type, !.app = n, !.phase = "in"] \in ConnState({})
    BY <1>4 DEF ConnState
  <2> QED
    BY <2>1, <2>2
<1>6. Serving(c, t)
  <2>1. Placed(apps[n].layers, t)
    BY DEF Placed, Nested, Idle
  <2>2. ScopeInv(c, t, apps[n])
    BY DEF ScopeInv, Idle
  <2>3. LogInv(t)
    BY DEF LogInv, Idle
  <2>4. t.app = n /\ t.type = type /\ t.phase = "in"
    BY DEF Idle
  <2> QED
    BY <2>1, <2>2, <2>3, <2>4 DEF Serving
<1> QED
  BY <1>3, <1>5, <1>6, ConnectionChange DEF Served, Accept

LEMMA RunningLeaves ==
  ASSUME Inv, NEW c \in Connections, conn[c].phase # "idle",
         NEW i \in conn[c].inside, IsRunning(c, i)
  PROVE  Nested(Layers(c), conn[c].inside \ {i})
BY ConnFacts, LeaveNested DEF IsRunning, Placed

LEMMA NextEntered ==
  ASSUME Inv, NEW c \in Connections, conn[c].phase # "idle",
         NEW i \in DOMAIN Layers(c), IsNext(c, i)
  PROVE  Nested(Layers(c), conn[c].inside \cup {i})
BY ConnFacts, EnterNested DEF IsNext, Placed

(* The scope's layer is entered with the scope, left without it. *)
LEMMA EnterInv ==
  ASSUME Inv, NEW c \in Connections, Enter(c)
  PROVE  Inv'
<1> DEFINE s == conn[c]
<1>0. s.phase = "in"
  BY DEF Enter, Phase
<1>1. PICK i \in DOMAIN Layers(c) :
        /\ IsNext(c, i)
        /\ LET entered == [s EXCEPT !.inside = @ \cup {i}] IN
             conn' = IF Layers(c)[i].kind = "scope" /\ IsRequest(c)
                     THEN OpenScope(c, entered)
                     ELSE [conn EXCEPT ![c] = entered]
  BY DEF Enter
<1> DEFINE entered == [s EXCEPT !.inside = @ \cup {i}]
           opened  == [entered EXCEPT !.scope = "open", !.published = c,
                                      !.root = apps[s.app].container]
<1>2. PICK names : s \in ConnState(names)
  BY ConnType
<1>3. /\ i \in Nat /\ apps[s.app].container \in 0..MaxBuilds
      /\ s.app \in DOMAIN apps
      /\ s.type \in Types /\ s.phase = "in"
  BY <1>0, ConnFacts DEF Served, Serving, WellBuilt
<1>4. Nested(Layers(c), s.inside \cup {i})
  BY <1>0, <1>1, NextEntered
<1>5. i \notin s.inside
  BY <1>1 DEF IsNext
<1>6. Layers(c)[i].kind = "scope" <=> i = ScopeAt
  BY <1>0, <1>1, ConnFacts DEF LayerOf
<1>7. /\ LogInv(s) /\ ScopeInv(c, s, apps[s.app])
      /\ Placed(Layers(c), s)
  BY <1>0, ConnFacts
<1>8. entered \in ConnState(names) /\ opened \in ConnState(names)
  <2>1. entered \in ConnState(names)
    BY <1>2, <1>3 DEF ConnState
  <2>2. \A x \in ConnState(names) :
          [x EXCEPT !.scope = "open", !.published = c,
                    !.root = apps[s.app].container] \in ConnState(names)
    BY <1>3 DEF ConnState
  <2> QED
    BY <2>1, <2>2
<1>9. CASE Layers(c)[i].kind = "scope" /\ IsRequest(c)
  <2>1. conn' = [conn EXCEPT ![c] = opened]
    BY <1>1, <1>9 DEF OpenScope
  <2>2. /\ opened.inside = s.inside \cup {i} /\ opened.phase = "in"
        /\ opened.type = s.type /\ opened.app = s.app /\ opened.log = s.log
        /\ opened.scope = "open" /\ opened.published = c
        /\ opened.root = apps[s.app].container
        /\ opened.late <=> s.late
    BY <1>2, <1>3 DEF ConnState
  <2>3. LogInv(opened)
    BY <1>3, <1>7, <2>2 DEF LogInv
  <2>4. ScopeInv(c, opened, apps[s.app])
    BY <1>6, <1>7, <1>9, <2>2, PipelineAssumption DEF ScopeInv, IsRequest
  <2>5. Placed(Layers(c), opened)
    BY <1>4, <2>2 DEF Placed
  <2>6. Served(c, opened)
    BY <1>3, <1>8, <2>2, <2>3, <2>4, <2>5 DEF Served, Serving, Layers
  <2> QED
    BY <2>1, <2>6, ConnectionChange DEF Enter
<1>10. CASE ~(Layers(c)[i].kind = "scope" /\ IsRequest(c))
  <2>1. conn' = [conn EXCEPT ![c] = entered]
    BY <1>1, <1>10
  <2>2. /\ entered.inside = s.inside \cup {i} /\ entered.phase = "in"
        /\ entered.type = s.type /\ entered.app = s.app /\ entered.log = s.log
        /\ entered.scope = s.scope /\ entered.published = s.published
        /\ entered.root = s.root
        /\ entered.owed <=> s.owed
        /\ entered.late <=> s.late
        /\ entered.cut <=> s.cut
    BY <1>2, <1>3 DEF ConnState
  <2>3. LogInv(entered)
    BY <1>3, <1>7, <2>2 DEF LogInv
  <2>4. ScopeInv(c, entered, apps[s.app])
    BY <1>6, <1>7, <1>10, <2>2 DEF ScopeInv, IsRequest
  <2>5. Placed(Layers(c), entered)
    BY <1>4, <2>2 DEF Placed
  <2>6. Served(c, entered)
    BY <1>3, <1>8, <2>2, <2>3, <2>4, <2>5 DEF Served, Serving, Layers
  <2> QED
    BY <2>1, <2>6, ConnectionChange DEF Enter
<1> QED
  BY <1>9, <1>10

(* A step that neither opens nor leaves the scope keeps what is known of   *)
(* it.                                                                     *)
LEMMA ScopeUntouched ==
  ASSUME Inv, NEW c \in Connections, conn[c].phase # "idle",
         NEW names, NEW t \in ConnState(names),
         t.type = conn[c].type, t.app = conn[c].app, t.scope = conn[c].scope,
         t.root = conn[c].root, t.published = conn[c].published,
         t.owed <=> conn[c].owed, t.late <=> conn[c].late, t.cut <=> conn[c].cut,
         t.phase # "idle", Placed(Layers(c), t), LogInv(t),
         ScopeAt \in t.inside <=> ScopeAt \in conn[c].inside
  PROVE  Served(c, t)
<1>1. ScopeInv(c, conn[c], apps[conn[c].app])
  BY ConnFacts
<1>2. ScopeInv(c, t, apps[conn[c].app])
  BY <1>1 DEF ScopeInv
<1>3. Serving(c, conn[c])
  BY ConnFacts DEF Served
<1> QED
  BY <1>2, <1>3 DEF Served, Serving, Layers

LEMMA RaisedType ==
  ASSUME NEW c \in Connections, NEW names, conn[c] \in ConnState(names),
         NEW inside \in SUBSET Nat
  PROVE  Raised(c, inside) \in ConnState(names)
<1>1. (LayerOf(c, "logging") \subseteq inside) \in BOOLEAN
  OBVIOUS
<1>2. \A b \in BOOLEAN :
        [conn[c] EXCEPT !.phase = "out", !.inside = inside,
                        !.outcome = "raised", !.under = b] \in ConnState(names)
  BY DEF ConnState
<1> QED
  BY <1>1, <1>2 DEF Raised

(* An exception on its way out, with the layers "inside" around it. *)
LEMMA RaisedServed ==
  ASSUME Inv, NEW c \in Connections, conn[c].phase # "idle",
         NEW inside, Nested(Layers(c), inside), inside \subseteq Nat,
         ScopeAt \in inside <=> ScopeAt \in conn[c].inside,
         LoggingAt \in inside => LoggingAt \in conn[c].inside
  PROVE  /\ Served(c, Raised(c, inside))
         /\ Raised(c, inside).phase = "out"
<1> DEFINE t == Raised(c, inside)
<1>1. PICK names : conn[c] \in ConnState(names)
  BY ConnType
<1>2. t \in ConnState(names)
  BY <1>1, RaisedType
<1>3. LayerOf(c, "logging") = {LoggingAt}
  BY ConnFacts
<1>4. /\ t.type = conn[c].type /\ t.app = conn[c].app
      /\ t.scope = conn[c].scope /\ t.root = conn[c].root
      /\ t.published = conn[c].published /\ t.log = conn[c].log
      /\ t.phase = "out" /\ t.inside = inside /\ t.outcome = "raised"
      /\ t.owed <=> conn[c].owed
      /\ t.late <=> conn[c].late
      /\ t.cut <=> conn[c].cut
  BY <1>1 DEF Raised, ConnState
<1>5. t.under <=> LoggingAt \in inside
  BY <1>1, <1>3 DEF Raised, ConnState
<1>6. LogInv(t)
  <2>1. Len(t.log) <= 1 /\ (LoggingAt \in inside => t.log = <<>>)
    BY <1>4, ConnFacts DEF LogInv
  <2> HIDE DEF t
  <2> QED
    BY <1>4, <1>5, <2>1 DEF LogInv
<1>7. Placed(Layers(c), t)
  BY <1>4 DEF Placed
<1> QED
  BY <1>2, <1>4, <1>6, <1>7, ScopeUntouched

LEMMA CancelledType ==
  ASSUME NEW c \in Connections, NEW names, conn[c] \in ConnState(names),
         NEW inside \in SUBSET Nat
  PROVE  Cancelled(c, inside) \in ConnState(names)
<1>1. (LayerOf(c, "logging") \subseteq inside) \in BOOLEAN
  OBVIOUS
<1>2. \A b \in BOOLEAN :
        [conn[c] EXCEPT !.phase = "out", !.inside = inside,
                        !.outcome = "cancelled", !.under = b]
          \in ConnState(names)
  BY DEF ConnState
<1> QED
  BY <1>1, <1>2 DEF Cancelled

(* What a cancellation leaves of a connection, before anything else. *)
LEMMA CancelledFacts ==
  ASSUME Inv, NEW c \in Connections, conn[c].phase # "idle",
         NEW inside, inside \subseteq Nat, Nested(Layers(c), inside),
         LoggingAt \in inside => LoggingAt \in conn[c].inside,
         NEW t, t = Cancelled(c, inside)
  PROVE  /\ \E names : t \in ConnState(names)
         /\ t.type = conn[c].type /\ t.app = conn[c].app
         /\ t.scope = conn[c].scope /\ t.root = conn[c].root
         /\ t.published = conn[c].published /\ t.log = conn[c].log
         /\ t.phase = "out" /\ t.inside = inside /\ t.outcome = "cancelled"
         /\ t.owed <=> conn[c].owed
         /\ t.late <=> conn[c].late
         /\ t.cut <=> conn[c].cut
         /\ t.under <=> LoggingAt \in inside
         /\ LogInv(t)
         /\ Placed(Layers(c), t)
<1>1. PICK names : conn[c] \in ConnState(names)
  BY ConnType
<1>2. t \in ConnState(names)
  BY <1>1, CancelledType
<1>3. LayerOf(c, "logging") = {LoggingAt}
  BY ConnFacts
<1>4. /\ t.type = conn[c].type /\ t.app = conn[c].app
      /\ t.scope = conn[c].scope /\ t.root = conn[c].root
      /\ t.published = conn[c].published /\ t.log = conn[c].log
      /\ t.phase = "out" /\ t.inside = inside /\ t.outcome = "cancelled"
      /\ t.owed <=> conn[c].owed
      /\ t.late <=> conn[c].late
      /\ t.cut <=> conn[c].cut
  BY <1>1 DEF Cancelled, ConnState
<1>5. t.under <=> LoggingAt \in inside
  BY <1>1, <1>3 DEF Cancelled, ConnState
<1>6. Len(t.log) <= 1 /\ (LoggingAt \in inside => t.log = <<>>)
  BY <1>4, ConnFacts DEF LogInv
<1>7. LogInv(t)
  BY <1>4, <1>5, <1>6 DEF LogInv
<1>8. Placed(Layers(c), t)
  BY <1>4 DEF Placed
<1> QED
  BY <1>2, <1>4, <1>5, <1>7, <1>8

LEMMA UnboundServed ==
  ASSUME Inv, NEW c \in Connections, conn[c].phase # "idle",
         Served(c, Raised(c, conn[c].inside))
  PROVE  Served(c, [Raised(c, conn[c].inside) EXCEPT !.unbound = TRUE])
<1> DEFINE s == Raised(c, conn[c].inside)
<1> HIDE DEF s
<1>1. PICK names : s \in ConnState(names)
  BY DEF Served, s
<1> DEFINE t == [s EXCEPT !.unbound = TRUE]
<1>2. t \in ConnState(names)
  BY <1>1 DEF ConnState
<1>3. /\ t.type = s.type /\ t.app = s.app /\ t.scope = s.scope
      /\ t.root = s.root /\ t.published = s.published /\ t.log = s.log
      /\ t.phase = s.phase /\ t.inside = s.inside /\ t.outcome = s.outcome
      /\ t.owed <=> s.owed
      /\ t.late <=> s.late
      /\ t.cut <=> s.cut
      /\ t.under <=> s.under
  BY <1>1 DEF ConnState
<1> HIDE DEF t
<1>4. Serving(c, s)
  BY DEF Served, s
<1>5. Placed(apps[t.app].layers, t) /\ ScopeInv(c, t, apps[t.app])
  BY <1>3, <1>4 DEF Serving, Placed, ScopeInv
<1>6. LogInv(t)
  BY <1>3, <1>4 DEF Serving, LogInv
<1>7. Serving(c, t)
  BY <1>3, <1>4, <1>5, <1>6 DEF Serving
<1> QED
  BY <1>2, <1>7 DEF Served, s, t

(* A middleware of the application stops: with an outcome of its own, or   *)
(* an exception.                                                           *)
LEMMA AppStops ==
  ASSUME Inv, NEW c \in Connections, conn[c].phase \in {"in", "out"},
         NEW i \in conn[c].inside, IsRunning(c, i), Layers(c)[i].kind = "app"
  PROVE  /\ Nested(Layers(c), conn[c].inside \ {i})
         /\ conn[c].inside \ {i} \subseteq Nat
         /\ ScopeAt \in conn[c].inside \ {i} <=> ScopeAt \in conn[c].inside
         /\ LoggingAt \in conn[c].inside \ {i} <=> LoggingAt \in conn[c].inside
<1>1. Nested(Layers(c), conn[c].inside \ {i})
  BY RunningLeaves
<1>2. /\ conn[c].inside \subseteq DOMAIN Layers(c)
      /\ DOMAIN Layers(c) \subseteq Nat
      /\ i # LoggingAt /\ i # ScopeAt
  BY ConnFacts DEF Placed, Nested, WellBuilt
<1> QED
  BY <1>1, <1>2

LEMMA AppReturns ==
  ASSUME Inv, NEW c \in Connections, conn[c].phase \in {"in", "out"},
         NEW i \in conn[c].inside, IsRunning(c, i), Layers(c)[i].kind = "app",
         NEW t, t = [conn[c] EXCEPT !.phase = "out", !.inside = @ \ {i},
                                    !.outcome = "returned"]
  PROVE  Served(c, t)
<1>1. PICK names : conn[c] \in ConnState(names)
  BY ConnType
<1>2. conn[c].inside \ {i} \subseteq Nat
  BY AppStops
<1>3. t \in ConnState(names)
  BY <1>1, <1>2 DEF ConnState
<1>4. /\ t.type = conn[c].type /\ t.app = conn[c].app
      /\ t.scope = conn[c].scope /\ t.root = conn[c].root
      /\ t.published = conn[c].published /\ t.log = conn[c].log
      /\ t.phase = "out" /\ t.inside = conn[c].inside \ {i}
      /\ t.outcome = "returned"
      /\ t.owed <=> conn[c].owed
      /\ t.late <=> conn[c].late
      /\ t.cut <=> conn[c].cut
  BY <1>1 DEF ConnState
<1>5. LogInv(t)
  BY <1>4, AppStops, ConnFacts DEF LogInv
<1>6. Placed(Layers(c), t)
  BY <1>4, AppStops DEF Placed
<1> QED
  BY <1>3, <1>4, <1>5, <1>6, AppStops, ScopeUntouched

LEMMA AppStopsInv ==
  ASSUME Inv, NEW c \in Connections, LayerAnswers(c) \/ LayerRaises(c)
  PROVE  Inv'
<1>1. CASE LayerAnswers(c)
  <2>1. PICK i \in conn[c].inside :
          /\ IsRunning(c, i) /\ Layers(c)[i].kind = "app"
          /\ conn' = [conn EXCEPT ![c] = [conn[c] EXCEPT
               !.phase = "out", !.inside = @ \ {i}, !.outcome = "returned"]]
    BY <1>1 DEF LayerAnswers
  <2> DEFINE t == [conn[c] EXCEPT
               !.phase = "out", !.inside = @ \ {i}, !.outcome = "returned"]
  <2>2. conn' = [conn EXCEPT ![c] = t]
    BY <2>1
  <2>3. Served(c, t)
    BY <1>1, <2>1, AppReturns DEF LayerAnswers, Phase
  <2> QED
    BY <1>1, <2>2, <2>3, ConnectionChange DEF LayerAnswers
<1>2. CASE LayerRaises(c)
  <2>1. PICK i \in conn[c].inside :
          /\ IsRunning(c, i) /\ Layers(c)[i].kind = "app"
          /\ conn' = [conn EXCEPT ![c] = Raised(c, conn[c].inside \ {i})]
    BY <1>2 DEF LayerRaises
  <2>2. conn[c].phase = "in"
    BY <1>2 DEF LayerRaises, Phase
  <2>3. Served(c, Raised(c, conn[c].inside \ {i}))
    BY <2>1, <2>2, AppStops, RaisedServed
  <2> QED
    BY <1>2, <2>1, <2>3, ConnectionChange DEF LayerRaises
<1> QED
  BY <1>1, <1>2

LEMMA CancelInv ==
  ASSUME Inv, NEW c \in Connections, Cancel(c)
  PROVE  Inv'
<1> DEFINE t == Cancelled(c, conn[c].inside)
<1>1. conn' = [conn EXCEPT ![c] = t] /\ conn[c].phase # "idle"
  BY DEF Cancel, Phase
<1>2. /\ Nested(Layers(c), conn[c].inside)
      /\ conn[c].inside \subseteq Nat
  BY <1>1, ConnFacts DEF Placed, Nested, WellBuilt
<1> HIDE DEF t
<1>3. /\ \E names : t \in ConnState(names)
      /\ t.type = conn[c].type /\ t.app = conn[c].app
      /\ t.scope = conn[c].scope /\ t.root = conn[c].root
      /\ t.published = conn[c].published
      /\ t.phase = "out" /\ t.inside = conn[c].inside
      /\ t.owed <=> conn[c].owed
      /\ t.late <=> conn[c].late
      /\ t.cut <=> conn[c].cut
      /\ LogInv(t) /\ Placed(Layers(c), t)
  BY <1>1, <1>2, CancelledFacts DEF t
<1>4. Served(c, t)
  BY <1>1, <1>3, ScopeUntouched
<1> QED
  BY <1>1, <1>4, ConnectionChange DEF Cancel

LEMMA RouteInv ==
  ASSUME Inv, NEW c \in Connections, Route(c)
  PROVE  Inv'
<1> DEFINE s == conn[c]
           args == Supplied(EndpointOf(c).signature)
           t == IF s.type = "http"
                THEN [s EXCEPT !.phase = "wrapper", !.args = args]
                ELSE [s EXCEPT !.phase = "handler"]
<1>1. /\ conn' = [conn EXCEPT ![c] = t]
      /\ s.phase = "in" /\ s.inside = DOMAIN Layers(c)
  BY DEF Route, Phase, Inv, ConnInv
<1>2. PICK names : s \in ConnState(names)
  BY ConnType
<1> HIDE DEF args
<1>3. /\ [s EXCEPT !.phase = "wrapper", !.args = args] \in ConnState(args)
      /\ [s EXCEPT !.phase = "handler"] \in ConnState(names)
  BY <1>2 DEF ConnState
<1>4. \E n : t \in ConnState(n)
  BY <1>3
<1>5. /\ t.type = s.type /\ t.app = s.app /\ t.scope = s.scope
      /\ t.root = s.root /\ t.published = s.published
      /\ t.log = s.log /\ t.inside = s.inside
      /\ t.phase \in {"wrapper", "handler"}
      /\ t.owed <=> s.owed
      /\ t.late <=> s.late
      /\ t.cut <=> s.cut
  BY <1>2 DEF ConnState
<1> HIDE DEF t
<1>6. LogInv(t) /\ Placed(Layers(c), t)
  BY <1>1, <1>5, ConnFacts DEF LogInv, Placed
<1>7. Served(c, t)
  BY <1>1, <1>4, <1>5, <1>6, ScopeUntouched
<1> QED
  BY <1>1, <1>7, ConnectionChange DEF Route

(* A middleware that runs where the scope is not around it is outside.     *)
LEMMA RunsOutside ==
  ASSUME NEW layers, WellBuilt(layers), NEW inside, Nested(layers, inside),
         ScopeAt \notin inside,
         NEW i \in inside, layers[i].kind = "app"
  PROVE  AppOutside(layers)
<1>1. i \in DOMAIN layers /\ ScopeAt \in DOMAIN layers /\ i # ScopeAt
  BY BuiltinPlaces DEF Nested
<1>2. ~Outside(layers, ScopeAt, i)
  BY <1>1 DEF Nested
<1>3. /\ layers[i] \in Layer /\ layers[ScopeAt] \in Layer
      /\ i \in Nat /\ ScopeAt \in Nat
  BY <1>1 DEF WellBuilt, ScopeAt
<1>4. Outside(layers, i, ScopeAt)
  BY <1>1, <1>2, <1>3 DEF Outside, Layer
<1> QED
  BY <1>1, <1>4 DEF AppOutside

(* A connection's state holds its own provider or none, so that what its   *)
(* code resolves is resolved for it.                                       *)
LEMMA ResolveInv ==
  ASSUME Inv, NEW c \in Connections, Resolve(c)
  PROVE  Inv'
<1> DEFINE s == conn[c]
           t == [s EXCEPT !.owed = TRUE, !.late = @ \/ s.scope = "closed"]
<1>1. s.phase \in {"handler", "in", "out"} /\ s.published # Nobody
  BY DEF Resolve, Phase
<1>2. s.published = c
  BY <1>1, ConnFacts DEF ScopeInv
<1>3. conn' = [conn EXCEPT ![c] = t]
  BY <1>2 DEF Resolve, Inv, ConnInv
<1>4. PICK names : s \in ConnState(names)
  BY ConnType
<1>5. t \in ConnState(names)
  <2>1. (s.late \/ s.scope = "closed") \in BOOLEAN
    OBVIOUS
  <2> QED
    BY <1>4, <2>1 DEF ConnState
<1>6. /\ t.type = s.type /\ t.app = s.app /\ t.scope = s.scope
      /\ t.root = s.root /\ t.published = s.published
      /\ t.log = s.log /\ t.inside = s.inside
      /\ t.phase = s.phase /\ t.outcome = s.outcome
      /\ t.under <=> s.under
      /\ t.late <=> (s.late \/ s.scope = "closed")
      /\ t.cut <=> s.cut
  BY <1>4 DEF ConnState
<1> HIDE DEF t
<1>7. LogInv(t) /\ Placed(Layers(c), t)
  BY <1>1, <1>6, ConnFacts DEF LogInv, Placed
<1>8. ScopeInv(c, t, apps[s.app])
  <2>1. s.scope \in {"none", "open", "closed"}
    BY <1>4 DEF ConnState
  <2>2. /\ ScopeInv(c, s, apps[s.app]) /\ Placed(Layers(c), s)
        /\ WellBuilt(Layers(c)) /\ ScopeAt \in DOMAIN Layers(c)
    BY <1>1, ConnFacts, BuiltinPlaces
  <2>3. ASSUME s.scope = "closed" PROVE AppOutside(Layers(c))
    <3>1. ScopeAt \notin s.inside
      BY <2>2, <2>3 DEF ScopeInv
    <3>2. s.phase # "handler"
      BY <2>2, <3>1 DEF Placed
    <3>3. PICK i \in s.inside : Layers(c)[i].kind = "app"
      BY <3>2 DEF Resolve, AppRuns, Phase
    <3> QED
      BY <2>2, <3>1, <3>3, RunsOutside DEF Placed
  <2> QED
    BY <1>1, <1>6, <2>1, <2>2, <2>3 DEF ScopeInv, Layers
<1>9. Served(c, t)
  <2>1. Serving(c, s)
    BY <1>1, ConnFacts DEF Served
  <2> QED
    BY <1>1, <1>5, <1>6, <1>7, <1>8, <2>1 DEF Served, Serving, Layers
<1> QED
  BY <1>3, <1>9, ConnectionChange DEF Resolve

(* The wrapper runs inside the scope, which is open.                       *)
LEMMA ResolveInjectedInv ==
  ASSUME Inv, NEW c \in Connections, ResolveInjected(c)
  PROVE  Inv'
<1> DEFINE s == conn[c]
           name == EndpointOf(c).injected[s.next + 1].name
           t == [s EXCEPT !.args = @ \cup {name}, !.next = @ + 1, !.owed = TRUE]
<1>1. s.phase = "wrapper" /\ s.published # Nobody
  BY DEF ResolveInjected, Phase
<1>2. s.published = c
  BY <1>1, ConnFacts DEF ScopeInv
<1>3. conn' = [conn EXCEPT ![c] = t]
  BY <1>2 DEF ResolveInjected, Inv, ConnInv
<1>4. PICK names : s \in ConnState(names)
  BY ConnType
<1> HIDE DEF name
<1>5. t \in ConnState(names \cup {name})
  <2>1. s.args \subseteq names /\ s.next + 1 \in Nat
    BY <1>4 DEF ConnState
  <2>2. s \in ConnState(names \cup {name})
    BY <1>4 DEF ConnState
  <2>3. \A a \in SUBSET (names \cup {name}), n \in Nat :
          [s EXCEPT !.args = a, !.next = n, !.owed = TRUE]
            \in ConnState(names \cup {name})
    BY <2>2 DEF ConnState
  <2> QED
    BY <2>1, <2>3
<1>6. /\ t.type = s.type /\ t.app = s.app /\ t.scope = s.scope
      /\ t.root = s.root /\ t.published = s.published
      /\ t.log = s.log /\ t.inside = s.inside
      /\ t.phase = s.phase /\ t.outcome = s.outcome
      /\ t.under <=> s.under
      /\ t.late <=> s.late
      /\ t.cut <=> s.cut
  BY <1>4 DEF ConnState
<1> HIDE DEF t
<1>7. LogInv(t) /\ Placed(Layers(c), t)
  BY <1>1, <1>6, ConnFacts DEF LogInv, Placed
<1>8. ScopeInv(c, t, apps[s.app])
  <2>1. /\ ScopeAt \in s.inside
        /\ ScopeInv(c, s, apps[s.app])
    BY <1>1, ConnFacts, BuiltinPlaces DEF Placed
  <2> QED
    BY <1>1, <1>6, <2>1 DEF ScopeInv
<1>9. Served(c, t)
  <2>1. Serving(c, s)
    BY <1>1, ConnFacts DEF Served
  <2> QED
    BY <1>1, <1>5, <1>6, <1>7, <1>8, <2>1 DEF Served, Serving, Layers
<1> QED
  BY <1>3, <1>9, ConnectionChange DEF ResolveInjected

LEMMA BuildNeededInv ==
  ASSUME Inv, NEW c \in Connections, BuildNeeded(c)
  PROVE  Inv'
<1> DEFINE s == conn[c]
           t == [s EXCEPT !.owed = TRUE]
<1>1. s.phase = "wrapper" /\ s.published # Nobody
  BY DEF BuildNeeded, Phase
<1>2. s.published = c
  BY <1>1, ConnFacts DEF ScopeInv
<1>3. conn' = [conn EXCEPT ![c] = t]
  BY <1>2 DEF BuildNeeded, Inv, ConnInv
<1>4. PICK names : s \in ConnState(names)
  BY ConnType
<1>5. t \in ConnState(names)
  BY <1>4 DEF ConnState
<1>6. /\ t.type = s.type /\ t.app = s.app /\ t.scope = s.scope
      /\ t.root = s.root /\ t.published = s.published
      /\ t.log = s.log /\ t.inside = s.inside
      /\ t.phase = s.phase /\ t.outcome = s.outcome
      /\ t.under <=> s.under
      /\ t.late <=> s.late
      /\ t.cut <=> s.cut
  BY <1>4 DEF ConnState
<1> HIDE DEF t
<1>7. LogInv(t) /\ Placed(Layers(c), t)
  BY <1>1, <1>6, ConnFacts DEF LogInv, Placed
<1>8. ScopeInv(c, t, apps[s.app])
  <2>1. /\ ScopeAt \in s.inside
        /\ ScopeInv(c, s, apps[s.app])
    BY <1>1, ConnFacts, BuiltinPlaces DEF Placed
  <2> QED
    BY <1>1, <1>6, <2>1 DEF ScopeInv
<1>9. Served(c, t)
  <2>1. Serving(c, s)
    BY <1>1, ConnFacts DEF Served
  <2> QED
    BY <1>1, <1>5, <1>6, <1>7, <1>8, <2>1 DEF Served, Serving, Layers
<1> QED
  BY <1>3, <1>9, ConnectionChange DEF BuildNeeded

(* What the wrapper or the endpoint raises passes all layers. *)
LEMMA RaisedWithin ==
  ASSUME Inv, NEW c \in Connections, conn[c].phase \in {"wrapper", "handler"}
  PROVE  /\ Served(c, Raised(c, conn[c].inside))
         /\ Served(c, [Raised(c, conn[c].inside) EXCEPT !.unbound = TRUE])
<1>1. /\ Nested(Layers(c), conn[c].inside)
      /\ conn[c].inside \subseteq Nat
  BY ConnFacts DEF Placed, Nested, WellBuilt
<1>2. Served(c, Raised(c, conn[c].inside))
  BY <1>1, RaisedServed
<1> QED
  BY <1>2, UnboundServed

LEMMA EndpointRaisesInv ==
  ASSUME Inv, NEW c \in Connections,
         ResolveInjectedRaises(c) \/ NoConnection(c) \/ HandlerRaises(c)
  PROVE  Inv'
<1>1. CASE ResolveInjectedRaises(c)
  BY <1>1, RaisedWithin, ConnectionChange DEF ResolveInjectedRaises, Phase
<1>2. CASE NoConnection(c)
  BY <1>2, RaisedWithin, ConnectionChange DEF NoConnection, Phase
<1>3. CASE HandlerRaises(c)
  BY <1>3, RaisedWithin, ConnectionChange DEF HandlerRaises, Phase
<1> QED
  BY <1>1, <1>2, <1>3

LEMMA CallHandlerInv ==
  ASSUME Inv, NEW c \in Connections, CallHandler(c)
  PROVE  Inv'
<1> DEFINE s == conn[c]
           args == WithoutHidden(EndpointOf(c), s.args)
           t == [s EXCEPT !.phase = "handler", !.args = args]
<1>1. s.phase = "wrapper"
  BY DEF CallHandler, Phase
<1>2. \/ conn' = [conn EXCEPT ![c] = t]
      \/ conn' = [conn EXCEPT ![c] =
                    [Raised(c, s.inside) EXCEPT !.unbound = TRUE]]
  BY DEF CallHandler, Inv, ConnInv
<1>3. PICK names : s \in ConnState(names)
  BY ConnType
<1>4. args \subseteq names
  BY <1>3 DEF ConnState, WithoutHidden
<1> HIDE DEF args
<1>5. t \in ConnState(names)
  BY <1>3, <1>4 DEF ConnState
<1>6. /\ t.type = s.type /\ t.app = s.app /\ t.scope = s.scope
      /\ t.root = s.root /\ t.published = s.published
      /\ t.log = s.log /\ t.inside = s.inside
      /\ t.phase = "handler"
      /\ t.owed <=> s.owed
      /\ t.late <=> s.late
      /\ t.cut <=> s.cut
  BY <1>3 DEF ConnState
<1>7. LogInv(t) /\ Placed(Layers(c), t)
  BY <1>1, <1>6, ConnFacts DEF LogInv, Placed
<1>8. Served(c, t)
  BY <1>1, <1>5, <1>6, <1>7, ScopeUntouched
<1> QED
  BY <1>1, <1>2, <1>8, RaisedWithin, ConnectionChange DEF CallHandler

LEMMA HandlerReturnsInv ==
  ASSUME Inv, NEW c \in Connections, HandlerReturns(c)
  PROVE  Inv'
<1> DEFINE s == conn[c]
           t == [s EXCEPT !.phase = "out", !.outcome = "returned"]
<1>1. s.phase = "handler"
  BY DEF HandlerReturns, Phase
<1>2. \/ conn' = [conn EXCEPT ![c] = t]
      \/ conn' = [conn EXCEPT ![c] = Raised(c, s.inside)]
  BY DEF HandlerReturns, Inv, ConnInv
<1>3. PICK names : s \in ConnState(names)
  BY ConnType
<1>4. t \in ConnState(names)
  BY <1>3 DEF ConnState
<1>5. /\ t.type = s.type /\ t.app = s.app /\ t.scope = s.scope
      /\ t.root = s.root /\ t.published = s.published
      /\ t.log = s.log /\ t.inside = s.inside
      /\ t.phase = "out" /\ t.outcome = "returned"
      /\ t.owed <=> s.owed
      /\ t.late <=> s.late
      /\ t.cut <=> s.cut
  BY <1>3 DEF ConnState
<1>6. LogInv(t) /\ Placed(Layers(c), t)
  BY <1>1, <1>5, ConnFacts DEF LogInv, Placed
<1>7. Served(c, t)
  BY <1>1, <1>4, <1>5, <1>6, ScopeUntouched
<1> QED
  BY <1>1, <1>2, <1>7, RaisedWithin, ConnectionChange DEF HandlerReturns

(* The logging layer is left inside the instrumentation: a request's span  *)
(* is recording.                                                           *)
LEMMA LeaveBuiltinInv ==
  ASSUME Inv, NEW c \in Connections, LeaveBuiltin(c)
  PROVE  Inv'
<1> DEFINE s == conn[c]
<1>1. s.phase = "out"
  BY DEF LeaveBuiltin, Phase
<1>2. PICK i \in s.inside :
        /\ IsRunning(c, i) /\ Layers(c)[i].kind # "app"
        /\ Layers(c)[i].kind = "scope" => ~IsRequest(c)
        /\ conn' = [conn EXCEPT
             ![c].inside = @ \ {i},
             ![c].log = IF Layers(c)[i].kind = "logging" THEN LogFailure(c)
                        ELSE @]
  BY DEF LeaveBuiltin
<1> DEFINE log == IF Layers(c)[i].kind = "logging" THEN LogFailure(c) ELSE s.log
           t == [s EXCEPT !.inside = @ \ {i}, !.log = log]
<1>3. conn' = [conn EXCEPT ![c] = t]
  BY <1>2 DEF Inv, ConnInv
<1>4. PICK names : s \in ConnState(names)
  BY ConnType
<1>5. /\ Placed(Layers(c), s) /\ LogInv(s)
      /\ ScopeInv(c, s, apps[s.app])
      /\ Serving(c, s)
  BY <1>1, ConnFacts DEF Served
<1>6. /\ i \in DOMAIN Layers(c) /\ i \in Nat /\ s.inside \subseteq Nat
      /\ Layers(c)[i].kind = "scope" <=> i = ScopeAt
      /\ Layers(c)[i].kind = "logging" <=> i = LoggingAt
  BY <1>1, <1>4, <1>5, ConnFacts DEF Placed, Nested, LayerOf, ConnState
<1>7. Nested(Layers(c), s.inside \ {i})
  BY <1>1, <1>2, RunningLeaves
<1>8. i = LoggingAt =>
        LogFailure(c) = IF s.outcome = "raised" THEN <<IsRequest(c)>> ELSE <<>>
  <2> SUFFICES ASSUME i = LoggingAt
               PROVE  LogFailure(c) =
                        IF s.outcome = "raised" THEN <<IsRequest(c)>> ELSE <<>>
    OBVIOUS
  <2>1. s.log = <<>>
    BY <1>5 DEF LogInv
  <2>2. InstrumentationAt \in s.inside
    BY <1>1, <1>5, ConnFacts, NestedBuiltins DEF Placed
  <2>3. IsInside(c, "instrumentation")
    BY <1>1, <2>2, ConnFacts DEF IsInside
  <2>4. Recording(c) = IsRequest(c)
    BY <2>3 DEF Recording, IsRequest
  <2>5. Append(<<>>, Recording(c)) = <<IsRequest(c)>>
    BY <2>4
  <2> QED
    BY <2>1, <2>5 DEF LogFailure
<1>9. log \in Seq(BOOLEAN)
  <2>1. s.log \in Seq(BOOLEAN)
    BY <1>4 DEF ConnState
  <2>2. <<IsRequest(c)>> \in Seq(BOOLEAN) /\ <<>> \in Seq(BOOLEAN)
    <3>1. IsRequest(c) \in BOOLEAN
      BY DEF IsRequest
    <3> QED
      BY <3>1
  <2>3. CASE i = LoggingAt
    <3>1. log = IF s.outcome = "raised" THEN <<IsRequest(c)>> ELSE <<>>
      BY <1>6, <1>8, <2>3
    <3> HIDE DEF log
    <3> QED
      BY <2>2, <3>1, Zenon
  <2>4. CASE i # LoggingAt
    BY <1>6, <2>1, <2>4
  <2> QED
    BY <2>3, <2>4
<1>10. t \in ConnState(names)
  <2> HIDE DEF log
  <2> QED
    BY <1>4, <1>6, <1>9 DEF ConnState
<1>11. /\ t.type = s.type /\ t.app = s.app /\ t.scope = s.scope
       /\ t.root = s.root /\ t.published = s.published
       /\ t.log = log /\ t.inside = s.inside \ {i}
       /\ t.phase = "out" /\ t.outcome = s.outcome
       /\ t.owed <=> s.owed
       /\ t.late <=> s.late
       /\ t.cut <=> s.cut
       /\ t.under <=> s.under
  <2> HIDE DEF log
  <2> QED
    BY <1>1, <1>4 DEF ConnState
<1> HIDE DEF t
<1>12. LogInv(t)
  <2>1. CASE i = LoggingAt
    <3>1. log = IF s.outcome = "raised" THEN <<IsRequest(c)>> ELSE <<>>
      BY <1>6, <1>8, <2>1
    <3> HIDE DEF log
    <3> QED
      BY <1>11, <2>1, <3>1 DEF LogInv, IsRequest
  <2>2. CASE i # LoggingAt
    <3>1. log = s.log
      BY <1>6, <2>2
    <3> HIDE DEF log
    <3> QED
      BY <1>1, <1>5, <1>11, <2>2, <3>1 DEF LogInv
  <2> QED
    BY <2>1, <2>2
<1>13. Placed(Layers(c), t)
  BY <1>7, <1>11 DEF Placed
<1>14. ScopeInv(c, t, apps[s.app])
  BY <1>2, <1>5, <1>6, <1>11 DEF ScopeInv, IsRequest
<1>15. Served(c, t)
  BY <1>5, <1>10, <1>11, <1>12, <1>13, <1>14 DEF Served, Serving, Layers
<1> QED
  BY <1>3, <1>15, ConnectionChange DEF LeaveBuiltin

(* The scope's layer is left with the scope, whatever comes out.           *)
LEMMA LeaveScopeInv ==
  ASSUME Inv, NEW c \in Connections, LeaveScope(c)
  PROVE  Inv'
<1> DEFINE s == conn[c]
<1>1. s.phase = "out" /\ s.type \in {"http", "websocket"}
  BY DEF LeaveScope, Phase, IsRequest
<1>2. PICK i \in s.inside, raises \in BOOLEAN :
        /\ IsRunning(c, i) /\ Layers(c)[i].kind = "scope"
        /\ LET left == IF raises THEN Raised(c, s.inside \ {i})
                       ELSE [s EXCEPT !.inside = @ \ {i}]
           IN  conn' = [conn EXCEPT ![c] =
                 [left EXCEPT !.scope = "closed", !.owed = FALSE]]
  BY DEF LeaveScope
<1> DEFINE left == IF raises THEN Raised(c, s.inside \ {i})
                   ELSE [s EXCEPT !.inside = @ \ {i}]
           t == [left EXCEPT !.scope = "closed", !.owed = FALSE]
<1>3. conn' = [conn EXCEPT ![c] = t]
  BY <1>2
<1>4. PICK names : s \in ConnState(names)
  BY ConnType
<1>5. /\ Placed(Layers(c), s) /\ LogInv(s)
      /\ ScopeInv(c, s, apps[s.app])
      /\ Serving(c, s)
  BY <1>1, ConnFacts DEF Served
<1>6. i = ScopeAt /\ i # LoggingAt /\ s.inside \subseteq Nat
  BY <1>1, <1>2, <1>4, <1>5, ConnFacts
     DEF Placed, Nested, LayerOf, ConnState, ScopeAt, LoggingAt
<1>7. Nested(Layers(c), s.inside \ {i})
  BY <1>1, <1>2, RunningLeaves
<1>8. LoggingAt \in s.inside \ {i}
  BY <1>1, <1>5, <1>6, ConnFacts, NestedBuiltins DEF Placed
<1>9. left \in ConnState(names)
  <2>1. Raised(c, s.inside \ {i}) \in ConnState(names)
    BY <1>4, <1>6, RaisedType
  <2>2. [s EXCEPT !.inside = @ \ {i}] \in ConnState(names)
    BY <1>4, <1>6 DEF ConnState
  <2> QED
    BY <2>1, <2>2
<1>10. /\ left.type = s.type /\ left.app = s.app /\ left.root = s.root
       /\ left.published = s.published /\ left.log = s.log
       /\ left.inside = s.inside \ {i} /\ left.phase = "out"
       /\ left.late <=> s.late
       /\ left.cut <=> s.cut
  <2>1. CASE raises
    <3>1. left = Raised(c, s.inside \ {i})
      BY <2>1
    <3> HIDE DEF left
    <3> QED
      BY <1>4, <3>1 DEF Raised, ConnState
  <2>2. CASE ~raises
    <3>1. left = [s EXCEPT !.inside = @ \ {i}]
      BY <2>2
    <3> HIDE DEF left
    <3> QED
      BY <1>1, <1>4, <3>1 DEF ConnState
  <2> QED
    BY <2>1, <2>2
<1>11. left.outcome \in {"raised", "cancelled"} => left.under
  <2>1. CASE raises
    <3>1. left = Raised(c, s.inside \ {i}) /\ LayerOf(c, "logging") = {LoggingAt}
      BY <1>1, <2>1, ConnFacts
    <3> HIDE DEF left
    <3>2. left.under <=> LoggingAt \in s.inside \ {i}
      BY <1>4, <3>1 DEF Raised, ConnState
    <3> QED
      BY <1>8, <3>2
  <2>2. CASE ~raises
    <3>1. left = [s EXCEPT !.inside = @ \ {i}]
      BY <2>2
    <3> HIDE DEF left
    <3>2. left.outcome = s.outcome
      BY <1>4, <3>1 DEF ConnState
    <3>3. left.under <=> s.under
      BY <1>4, <3>1 DEF ConnState
    <3> QED
      BY <1>1, <1>5, <1>8, <3>2, <3>3 DEF LogInv
  <2> QED
    BY <2>1, <2>2
<1> HIDE DEF left
<1>12. t \in ConnState(names)
  BY <1>9 DEF ConnState
<1>13. /\ t.type = left.type /\ t.app = left.app /\ t.root = left.root
       /\ t.published = left.published /\ t.log = left.log
       /\ t.inside = left.inside /\ t.phase = left.phase
       /\ t.outcome = left.outcome /\ t.scope = "closed"
       /\ t.under <=> left.under
       /\ t.late <=> left.late
       /\ ~t.owed
  BY <1>9 DEF ConnState
<1> HIDE DEF t
<1>14. LogInv(t)
  BY <1>5, <1>8, <1>10, <1>11, <1>13 DEF LogInv
<1>15. Placed(Layers(c), t)
  BY <1>7, <1>10, <1>13 DEF Placed
<1>16. ScopeInv(c, t, apps[s.app])
  <2>1. s.scope = "open"
    BY <1>1, <1>5, <1>6 DEF ScopeInv
  <2>2. t.published = c /\ Nobody # c
    BY <1>5, <1>10, <1>13, <2>1, PipelineAssumption DEF ScopeInv
  <2> QED
    BY <1>1, <1>5, <1>6, <1>10, <1>13, <2>2 DEF ScopeInv
<1>17. Served(c, t)
  BY <1>5, <1>10, <1>12, <1>13, <1>14, <1>15, <1>16 DEF Served, Serving, Layers
<1> QED
  BY <1>3, <1>17, ConnectionChange DEF LeaveScope

(* A cancellation in the exit: the layer is left, what is owed stays.      *)
LEMMA CutScopeInv ==
  ASSUME Inv, NEW c \in Connections, CutScope(c)
  PROVE  Inv'
<1> DEFINE s == conn[c]
<1>1. s.phase = "out" /\ s.type \in {"http", "websocket"}
  BY DEF CutScope, Phase, IsRequest
<1>2. PICK i \in s.inside :
        /\ IsRunning(c, i) /\ Layers(c)[i].kind = "scope"
        /\ conn' = [conn EXCEPT ![c] =
             [Cancelled(c, s.inside \ {i}) EXCEPT
                !.scope = "closed", !.cut = TRUE]]
  BY DEF CutScope
<1> DEFINE left == Cancelled(c, s.inside \ {i})
           t == [left EXCEPT !.scope = "closed", !.cut = TRUE]
<1>3. conn' = [conn EXCEPT ![c] = t]
  BY <1>2
<1>4. /\ Placed(Layers(c), s)
      /\ ScopeInv(c, s, apps[s.app])
      /\ Serving(c, s)
  BY <1>1, ConnFacts DEF Served
<1>5. i = ScopeAt /\ s.inside \subseteq Nat
  BY <1>1, <1>2, <1>4, ConnFacts DEF Placed, Nested, LayerOf, WellBuilt
<1>6. Nested(Layers(c), s.inside \ {i})
  BY <1>1, <1>2, RunningLeaves
<1> HIDE DEF left
<1>7. /\ \E names : left \in ConnState(names)
      /\ left.type = s.type /\ left.app = s.app /\ left.root = s.root
      /\ left.published = s.published /\ left.log = s.log
      /\ left.phase = "out" /\ left.inside = s.inside \ {i}
      /\ left.outcome = "cancelled"
      /\ left.late <=> s.late
      /\ LogInv(left)
      /\ Placed(Layers(c), left)
  BY <1>1, <1>5, <1>6, CancelledFacts DEF left
<1>8. PICK names : left \in ConnState(names)
  BY <1>7
<1>9. t \in ConnState(names)
  BY <1>8 DEF ConnState
<1>10. /\ t.type = left.type /\ t.app = left.app /\ t.root = left.root
       /\ t.published = left.published /\ t.log = left.log
       /\ t.inside = left.inside /\ t.phase = left.phase
       /\ t.outcome = left.outcome /\ t.scope = "closed"
       /\ t.under <=> left.under
       /\ t.late <=> left.late
       /\ t.cut
  BY <1>8 DEF ConnState
<1> HIDE DEF t
<1>11. LogInv(t) /\ Placed(Layers(c), t)
  BY <1>7, <1>10 DEF LogInv, Placed
<1>12. ScopeInv(c, t, apps[s.app])
  <2>1. s.scope = "open"
    BY <1>1, <1>4, <1>5 DEF ScopeInv
  <2>2. t.published = c /\ Nobody # c
    BY <1>4, <1>7, <1>10, <2>1, PipelineAssumption DEF ScopeInv
  <2> QED
    BY <1>1, <1>4, <1>5, <1>7, <1>10, <2>2 DEF ScopeInv
<1>13. Served(c, t)
  BY <1>4, <1>7, <1>9, <1>10, <1>11, <1>12 DEF Served, Serving, Layers
<1> QED
  BY <1>3, <1>13, ConnectionChange DEF CutScope

LEMMA LeaveAppInv ==
  ASSUME Inv, NEW c \in Connections, LeaveApp(c)
  PROVE  Inv'
<1> DEFINE s == conn[c]
<1>1. s.phase = "out"
  BY DEF LeaveApp, Phase
<1>2. PICK i \in s.inside :
        /\ IsRunning(c, i) /\ Layers(c)[i].kind = "app"
        /\ LET left == [s EXCEPT !.inside = @ \ {i}] IN
             \/ conn' = [conn EXCEPT ![c] = left]
             \/ /\ s.outcome = "raised"
                /\ conn' = [conn EXCEPT
                     ![c] = [left EXCEPT !.outcome = "returned"]]
             \/ conn' = [conn EXCEPT ![c] = Raised(c, s.inside \ {i})]
  BY DEF LeaveApp
<1> DEFINE left == [s EXCEPT !.inside = @ \ {i}]
           answered == [s EXCEPT !.phase = "out", !.inside = @ \ {i},
                                 !.outcome = "returned"]
<1>3. PICK names : s \in ConnState(names)
  BY ConnType
<1>4. s.inside \ {i} \subseteq Nat
  BY <1>1, <1>2, AppStops
<1>5. CASE conn' = [conn EXCEPT ![c] = left]
  <2>1. left \in ConnState(names)
    BY <1>3, <1>4 DEF ConnState
  <2>2. /\ left.type = s.type /\ left.app = s.app /\ left.scope = s.scope
        /\ left.root = s.root /\ left.published = s.published
        /\ left.log = s.log /\ left.inside = s.inside \ {i}
        /\ left.phase = "out" /\ left.outcome = s.outcome
        /\ left.owed <=> s.owed
        /\ left.late <=> s.late
        /\ left.cut <=> s.cut
        /\ left.under <=> s.under
    BY <1>1, <1>3 DEF ConnState
  <2> HIDE DEF left
  <2>3. LogInv(left)
    BY <1>1, <1>2, <2>2, AppStops, ConnFacts DEF LogInv
  <2>4. Placed(Layers(c), left)
    BY <1>1, <1>2, <2>2, AppStops DEF Placed
  <2>5. ScopeAt \in left.inside <=> ScopeAt \in s.inside
    BY <1>1, <1>2, <2>2, AppStops
  <2>6. Served(c, left)
    BY <1>1, <2>1, <2>2, <2>3, <2>4, <2>5, ScopeUntouched
  <2> QED
    BY <1>5, <2>6, ConnectionChange DEF LeaveApp
<1>6. CASE conn' = [conn EXCEPT ![c] = [left EXCEPT !.outcome = "returned"]]
  <2>1. [left EXCEPT !.outcome = "returned"] = answered
    BY <1>1, <1>3 DEF ConnState
  <2>2. Served(c, answered)
    BY <1>1, <1>2, AppReturns
  <2> HIDE DEF left, answered
  <2> QED
    BY <1>6, <2>1, <2>2, ConnectionChange DEF LeaveApp
<1>7. CASE conn' = [conn EXCEPT ![c] = Raised(c, s.inside \ {i})]
  <2>1. Served(c, Raised(c, s.inside \ {i}))
    BY <1>1, <1>2, AppStops, RaisedServed
  <2> QED
    BY <1>7, <2>1, ConnectionChange DEF LeaveApp
<1> QED
  BY <1>2, <1>5, <1>6, <1>7

LEMMA AnswerInv ==
  ASSUME Inv, NEW c \in Connections, Answer(c)
  PROVE  Inv'
<1> DEFINE s == conn[c]
           t == [s EXCEPT !.phase = "done"]
<1>1. s.phase = "out" /\ s.inside = {} /\ conn' = [conn EXCEPT ![c] = t]
  BY DEF Answer, Phase, Inv, ConnInv
<1>2. PICK names : s \in ConnState(names)
  BY ConnType
<1>3. t \in ConnState(names)
  BY <1>2 DEF ConnState
<1>4. /\ t.type = s.type /\ t.app = s.app /\ t.scope = s.scope
      /\ t.root = s.root /\ t.published = s.published
      /\ t.log = s.log /\ t.inside = s.inside
      /\ t.phase = "done" /\ t.outcome = s.outcome
      /\ t.owed <=> s.owed
      /\ t.late <=> s.late
      /\ t.cut <=> s.cut
      /\ t.under <=> s.under
  BY <1>2 DEF ConnState
<1>5. LogInv(t) /\ Placed(Layers(c), t)
  BY <1>1, <1>4, ConnFacts DEF LogInv, Placed
<1>6. Served(c, t)
  BY <1>1, <1>3, <1>4, <1>5, ScopeUntouched
<1> QED
  BY <1>1, <1>6, ConnectionChange DEF Answer

----------------------------------------------------------------------------
(* The invariant, and what follows from it *)

LEMMA StepInv == Inv /\ [Next]_vars => Inv'
<1> SUFFICES ASSUME Inv, [Next]_vars PROVE Inv'
  OBVIOUS
<1>1. CASE BuilderStep
  BY <1>1, BuilderStepInv
<1>2. ASSUME NEW c \in Connections, ConnectionStep(c) PROVE Inv'
  BY <1>2, AcceptInv, EnterInv, AppStopsInv, CancelInv, ResolveInv, RouteInv,
     BuildNeededInv, ResolveInjectedInv, EndpointRaisesInv, CallHandlerInv,
     HandlerReturnsInv, LeaveBuiltinInv, LeaveScopeInv, CutScopeInv,
     LeaveAppInv, AnswerInv, Zenon
     DEF ConnectionStep
<1>3. CASE UNCHANGED vars
  <2>1. BuilderInv'
    BY <1>3 DEF vars, Inv, BuilderInv
  <2>2. ConnInv'
    BY <1>3 DEF vars, Inv, ConnInv, Served, Serving, Idle
  <2> QED
    BY <2>1, <2>2 DEF Inv
<1> QED
  BY <1>1, <1>2, <1>3, Zenon DEF Next, Quiet

LEMMA Invariance == Spec => []Inv
BY InitInv, StepInv, PTL DEF Spec

(* Whoever is promised the request's provider finds it: the endpoint and   *)
(* every middleware registered at REQUEST_SCOPE or further in run inside   *)
(* the scope's layer, and there the connection holds the provider of its   *)
(* own scope, open, derived from the container of its application          *)
(* (http_di.py:27-69, pipeline.py:59-72).                                  *)
THEOREM ProviderReachable == Spec => []ScopeReachable
<1>1. Inv => ScopeReachable
  <2> SUFFICES ASSUME Inv, NEW c \in Connections,
                      conn[c].phase \in {"in", "wrapper", "handler", "out"}
               PROVE
                 /\ \A i \in conn[c].inside :
                      /\ Layers(c)[i].via = "pipeline"
                      /\ Layers(c)[i].order >= REQUEST_SCOPE
                      => IsInside(c, "scope")
                 /\ conn[c].phase \in {"wrapper", "handler"} =>
                      IsInside(c, "scope")
                 /\ IsInside(c, "scope") /\ IsRequest(c) =>
                      /\ conn[c].published = c /\ conn[c].scope = "open"
                      /\ conn[c].root = apps[conn[c].app].container
    BY DEF ScopeReachable
  <2>1. /\ WellBuilt(Layers(c)) /\ Nested(Layers(c), conn[c].inside)
        /\ conn[c].phase \in {"wrapper", "handler"} =>
             conn[c].inside = DOMAIN Layers(c)
        /\ ScopeInv(c, conn[c], apps[conn[c].app])
        /\ ScopeAt \in DOMAIN Layers(c)
    BY ConnFacts, BuiltinPlaces DEF Placed
  <2>2. IsInside(c, "scope") <=> ScopeAt \in conn[c].inside
    BY ConnFacts DEF IsInside
  <2>3. ASSUME NEW i \in conn[c].inside, Layers(c)[i].via = "pipeline",
               Layers(c)[i].order >= REQUEST_SCOPE
        PROVE  ScopeAt \in conn[c].inside
    BY <2>1, <2>3, BuiltinOrder DEF Nested
  <2>4. ScopeAt \in conn[c].inside /\ IsRequest(c) =>
          /\ conn[c].published = c /\ conn[c].scope = "open"
          /\ conn[c].root = apps[conn[c].app].container
    BY <2>1 DEF ScopeInv, IsRequest
  <2> QED
    BY <2>1, <2>2, <2>3, <2>4
<1> QED
  BY <1>1, Invariance, PTL

(* An exception that was raised inside the logging layer and reaches the   *)
(* server has been logged, once, in the request's span; after a            *)
(* cancellation inside it nothing has been (exception_logging.py:18-30,    *)
(* tracing.py:67-82).                                                      *)
THEOREM FailuresLoggedOnce == Spec => []FailureLogged
<1>1. Inv => FailureLogged
  <2> SUFFICES ASSUME Inv, NEW c \in Connections, conn[c].phase = "done"
               PROVE
                 /\ conn[c].outcome = "raised" /\ conn[c].under =>
                      conn[c].log = <<IsRequest(c)>>
                 /\ conn[c].outcome = "cancelled" /\ conn[c].under =>
                      conn[c].log = <<>>
    BY DEF FailureLogged
  <2>1. LogInv(conn[c]) /\ conn[c].inside = {}
    BY ConnFacts DEF Placed
  <2> QED
    BY <2>1 DEF LogInv, IsRequest
<1> QED
  BY <1>1, Invariance, PTL

(* When a connection has ended, what was resolved for it has been disposed *)
(* of, unless a CancelledError struck in the scope's exit itself, or a     *)
(* middleware outside the scope resolved it after the scope was left       *)
(* (http_di.py:38-47, 66-69, service_provider.py:58).                      *)
THEOREM ResolvedDisposed == Spec => []ResolvedIsDisposed
<1>1. Inv => ResolvedIsDisposed
  <2> SUFFICES ASSUME Inv, NEW c \in Connections, conn[c].phase = "done",
                      conn[c].owed, ~conn[c].cut
               PROVE  /\ conn[c].late
                      /\ \E i \in LayerOf(c, "app"), j \in LayerOf(c, "scope") :
                           Outside(Layers(c), i, j)
    BY DEF ResolvedIsDisposed
  <2>1. /\ ScopeInv(c, conn[c], apps[conn[c].app])
        /\ conn[c].inside = {}
        /\ LayerOf(c, "scope") = {ScopeAt}
    BY ConnFacts DEF Placed
  <2>2. conn[c].late /\ AppOutside(Layers(c))
    BY <2>1 DEF ScopeInv, Layers
  <2> QED
    BY <2>1, <2>2 DEF AppOutside, LayerOf
<1> QED
  BY <1>1, Invariance, PTL

----------------------------------------------------------------------------
(* The endpoint's call *)

(* What Build makes of the endpoint: its route is rewritten when it is     *)
(* declared and again when its router is included.                         *)
ServedEndpoint == Inject(Inject(program.endpoint))

Resolved(n) == {ServedEndpoint.injected[k].name : k \in 1..n}

(* The wrapper adds one name after the other to what FastAPI supplied, and *)
(* the endpoint runs when all are there, without the hidden ones.          *)
CallInv(s) ==
  /\ s.args \subseteq NamesOf(program.endpoint.params) \cup HiddenNames
  /\ s.phase \in {"idle", "in"} => s.next = 0
  /\ s.phase = "wrapper" =>
       /\ s.next \in 0..Len(ServedEndpoint.injected)
       /\ s.args = Supplied(ServedEndpoint.signature) \cup Resolved(s.next)
  /\ s.type = "http" /\ s.phase = "handler" =>
       /\ NamesOf(program.endpoint.params) \subseteq s.args
       /\ s.args \cap HiddenNames = {}
  /\ Conventional(program.endpoint.params) => ~s.unbound

CallsInv == \A c \in Connections : CallInv(conn[c])

LEMMA EndpointServed ==
  ASSUME Inv
  PROVE  /\ Declarable(program.endpoint.params)
         /\ Rewritten(ServedEndpoint, program.endpoint.params)
         /\ \A c \in Connections : conn[c].phase # "idle" =>
              EndpointOf(c) = ServedEndpoint
<1>1. PICK coroutine \in BOOLEAN :
        program.endpoint = Endpoint(program.endpoint.params, coroutine)
  BY PipelineAssumption DEF Inv, BuilderInv
<1>2. Declarable(program.endpoint.params)
  BY PipelineAssumption DEF Inv, BuilderInv
<1>3. Rewritten(ServedEndpoint, program.endpoint.params)
  BY <1>1, <1>2, RouteRewritten DEF ServedEndpoint
<1>4. ASSUME NEW c \in Connections, conn[c].phase # "idle"
      PROVE  EndpointOf(c) = ServedEndpoint
  <2>1. conn[c].app \in DOMAIN apps
    BY <1>4, ConnFacts
  <2> QED
    BY <2>1, AppFacts DEF Inv, EndpointOf, ServedEndpoint
<1> QED
  BY <1>2, <1>3, <1>4

(* What FastAPI supplies and what is resolved, together, are the           *)
(* arguments; until then they are some of them.                            *)
LEMMA ResolvedNames ==
  ASSUME Inv
  PROVE  /\ Len(ServedEndpoint.injected) \in Nat
         /\ Resolved(0) = {}
         /\ \A n \in 0..Len(ServedEndpoint.injected) :
              Resolved(n) \subseteq NamesOf(ServedEndpoint.injected)
         /\ Resolved(Len(ServedEndpoint.injected))
              = NamesOf(ServedEndpoint.injected)
         /\ \A n \in Nat : Resolved(n + 1) =
              Resolved(n) \cup {ServedEndpoint.injected[n + 1].name}
<1> DEFINE injected == ServedEndpoint.injected
<1>1. injected \in Seq(Params)
  BY EndpointServed DEF Rewritten
<1>2. Len(injected) \in Nat /\ DOMAIN injected = 1..Len(injected)
  BY <1>1
<1> HIDE DEF injected
<1>3. 1..0 = {}
  OBVIOUS
<1>4. \A n \in 0..Len(injected) : 1..n \subseteq 1..Len(injected)
  BY <1>2
<1>5. \A n \in Nat : 1..(n + 1) = (1..n) \cup {n + 1}
  OBVIOUS
<1> QED
  BY <1>2, <1>3, <1>4, <1>5 DEF Resolved, NamesOf, injected

(* A step of which the endpoint's call is no part. *)
NoCall(s, t) ==
  /\ t.args = s.args /\ t.next = s.next /\ t.type = s.type
  /\ t.unbound <=> s.unbound
  /\ t.phase = s.phase \/ t.phase \in {"out", "done"}

LEMMA CallUntouched ==
  ASSUME NEW s, NEW t, CallInv(s), NoCall(s, t)
  PROVE  CallInv(t)
BY DEF CallInv, NoCall

LEMMA RaisedNoCall ==
  ASSUME NEW c \in Connections, NEW names, conn[c] \in ConnState(names),
         NEW inside
  PROVE  NoCall(conn[c], Raised(c, inside))
BY DEF NoCall, Raised, ConnState

LEMMA CancelledNoCall ==
  ASSUME NEW c \in Connections, NEW names, conn[c] \in ConnState(names),
         NEW inside
  PROVE  NoCall(conn[c], Cancelled(c, inside))
BY DEF NoCall, Cancelled, ConnState

LEMMA LayerStepNoCall ==
  ASSUME Inv, NEW c \in Connections,
         Enter(c) \/ LayerAnswers(c) \/ LayerRaises(c) \/ LeaveBuiltin(c)
           \/ LeaveScope(c) \/ CutScope(c) \/ LeaveApp(c)
  PROVE  \E t : conn' = [conn EXCEPT ![c] = t] /\ NoCall(conn[c], t)
<1> DEFINE s == conn[c]
<1>1. PICK names : s \in ConnState(names)
  BY ConnType
<1>2. \A inside : NoCall(s, Raised(c, inside))
  BY <1>1, RaisedNoCall
<1>3. \A inside : NoCall(s, [s EXCEPT !.inside = inside])
  BY <1>1 DEF NoCall, ConnState
<1>4. conn = [d \in Connections |-> conn[d]]
  BY DEF Inv, ConnInv
<1>5. CASE Enter(c)
  <2>1. PICK i \in DOMAIN Layers(c) :
          conn' = IF Layers(c)[i].kind = "scope" /\ IsRequest(c)
                  THEN OpenScope(c, [s EXCEPT !.inside = @ \cup {i}])
                  ELSE [conn EXCEPT ![c] = [s EXCEPT !.inside = @ \cup {i}]]
    BY <1>5 DEF Enter
  <2> DEFINE entered == [s EXCEPT !.inside = @ \cup {i}]
             opened == [entered EXCEPT !.scope = "open", !.published = c,
                                       !.root = apps[s.app].container]
  <2>2. \/ conn' = [conn EXCEPT ![c] = opened]
        \/ conn' = [conn EXCEPT ![c] = entered]
    BY <2>1 DEF OpenScope
  <2>3. NoCall(s, entered) /\ NoCall(s, opened)
    BY <1>1 DEF NoCall, ConnState
  <2> QED
    BY <2>2, <2>3
<1>6. CASE LayerAnswers(c)
  <2>1. PICK i \in s.inside :
          conn' = [conn EXCEPT ![c] = [s EXCEPT
            !.phase = "out", !.inside = @ \ {i}, !.outcome = "returned"]]
    BY <1>6 DEF LayerAnswers
  <2> DEFINE t == [s EXCEPT !.phase = "out", !.inside = @ \ {i},
                            !.outcome = "returned"]
  <2>2. NoCall(s, t)
    BY <1>1 DEF NoCall, ConnState
  <2> QED
    BY <2>1, <2>2
<1>7. CASE LayerRaises(c)
  BY <1>2, <1>7 DEF LayerRaises
<1>8. CASE LeaveBuiltin(c)
  <2>1. PICK i \in s.inside :
          conn' = [conn EXCEPT
            ![c].inside = @ \ {i},
            ![c].log = IF Layers(c)[i].kind = "logging" THEN LogFailure(c)
                       ELSE @]
    BY <1>8 DEF LeaveBuiltin
  <2> DEFINE log == IF Layers(c)[i].kind = "logging" THEN LogFailure(c)
                    ELSE s.log
             t == [s EXCEPT !.inside = @ \ {i}, !.log = log]
  <2>2. conn' = [conn EXCEPT ![c] = t]
    BY <1>4, <2>1
  <2> HIDE DEF log
  <2>3. NoCall(s, t)
    BY <1>1 DEF NoCall, ConnState
  <2> QED
    BY <2>2, <2>3
<1>9. CASE LeaveScope(c)
  <2>1. PICK i \in s.inside, raises \in BOOLEAN :
          LET left == IF raises THEN Raised(c, s.inside \ {i})
                      ELSE [s EXCEPT !.inside = @ \ {i}]
          IN  conn' = [conn EXCEPT ![c] =
                [left EXCEPT !.scope = "closed", !.owed = FALSE]]
    BY <1>9 DEF LeaveScope
  <2> DEFINE left == IF raises THEN Raised(c, s.inside \ {i})
                     ELSE [s EXCEPT !.inside = @ \ {i}]
             t == [left EXCEPT !.scope = "closed", !.owed = FALSE]
  <2>2. conn' = [conn EXCEPT ![c] = t]
    BY <2>1
  <2>3. NoCall(s, [Raised(c, s.inside \ {i}) EXCEPT !.scope = "closed",
                                                     !.owed = FALSE])
    BY <1>1 DEF NoCall, Raised, ConnState
  <2>4. NoCall(s, [[s EXCEPT !.inside = @ \ {i}] EXCEPT !.scope = "closed",
                                                         !.owed = FALSE])
    BY <1>1 DEF NoCall, ConnState
  <2>5. NoCall(s, t)
    BY <2>3, <2>4
  <2> QED
    BY <2>2, <2>5
<1>10. CASE LeaveApp(c)
  <2>1. PICK i \in s.inside :
          LET left == [s EXCEPT !.inside = @ \ {i}] IN
            \/ conn' = [conn EXCEPT ![c] = left]
            \/ conn' = [conn EXCEPT ![c] = [left EXCEPT !.outcome = "returned"]]
            \/ conn' = [conn EXCEPT ![c] = Raised(c, s.inside \ {i})]
    BY <1>10 DEF LeaveApp
  <2> DEFINE left == [s EXCEPT !.inside = @ \ {i}]
  <2>2. NoCall(s, left) /\ NoCall(s, [left EXCEPT !.outcome = "returned"])
    BY <1>1 DEF NoCall, ConnState
  <2> HIDE DEF left
  <2>3. \/ conn' = [conn EXCEPT ![c] = left]
        \/ conn' = [conn EXCEPT ![c] = [left EXCEPT !.outcome = "returned"]]
        \/ conn' = [conn EXCEPT ![c] = Raised(c, s.inside \ {i})]
    BY <2>1 DEF left
  <2> QED
    BY <1>2, <2>2, <2>3
<1>11. CASE CutScope(c)
  <2>1. PICK i \in s.inside :
          conn' = [conn EXCEPT ![c] =
            [Cancelled(c, s.inside \ {i}) EXCEPT
               !.scope = "closed", !.cut = TRUE]]
    BY <1>11 DEF CutScope
  <2> DEFINE t == [Cancelled(c, s.inside \ {i}) EXCEPT
                     !.scope = "closed", !.cut = TRUE]
  <2>2. NoCall(s, t)
    BY <1>1 DEF NoCall, Cancelled, ConnState
  <2> QED
    BY <2>1, <2>2
<1> QED
  BY <1>5, <1>6, <1>7, <1>8, <1>9, <1>10, <1>11

LEMMA EndpointStepNoCall ==
  ASSUME Inv, NEW c \in Connections,
         Cancel(c) \/ Resolve(c) \/ BuildNeeded(c)
           \/ ResolveInjectedRaises(c) \/ HandlerReturns(c) \/ HandlerRaises(c) \/ Answer(c)
  PROVE  \E t : conn' = [conn EXCEPT ![c] = t] /\ NoCall(conn[c], t)
<1> DEFINE s == conn[c]
<1>1. PICK names : s \in ConnState(names)
  BY ConnType
<1>2. \A inside : NoCall(s, Raised(c, inside))
  BY <1>1, RaisedNoCall
<1>3. conn = [d \in Connections |-> conn[d]]
  BY DEF Inv, ConnInv
<1>4. CASE Cancel(c)
  BY <1>1, <1>4, CancelledNoCall DEF Cancel
<1>5. CASE Resolve(c)
  <2> DEFINE t == [s EXCEPT !.owed = TRUE, !.late = @ \/ s.scope = "closed"]
  <2>1. s.phase # "idle" /\ s.published # Nobody
    BY <1>5 DEF Resolve, Phase
  <2>2. s.published = c
    BY <2>1, ConnFacts DEF ScopeInv
  <2>3. conn' = [conn EXCEPT ![c] = t]
    BY <1>3, <1>5, <2>2 DEF Resolve
  <2>4. NoCall(s, t)
    BY <1>1 DEF NoCall, ConnState
  <2> QED
    BY <2>3, <2>4
<1>6. CASE ResolveInjectedRaises(c)
  BY <1>2, <1>6 DEF ResolveInjectedRaises
<1>7. CASE HandlerReturns(c)
  <2> DEFINE t == [s EXCEPT !.phase = "out", !.outcome = "returned"]
  <2>1. \/ conn' = [conn EXCEPT ![c] = t]
        \/ conn' = [conn EXCEPT ![c] = Raised(c, s.inside)]
    BY <1>3, <1>7 DEF HandlerReturns
  <2>2. NoCall(s, t)
    BY <1>1 DEF NoCall, ConnState
  <2> QED
    BY <1>2, <2>1, <2>2
<1>8. CASE HandlerRaises(c)
  BY <1>2, <1>8 DEF HandlerRaises
<1>9. CASE Answer(c)
  <2> DEFINE t == [s EXCEPT !.phase = "done"]
  <2>1. conn' = [conn EXCEPT ![c] = t]
    BY <1>3, <1>9 DEF Answer
  <2>2. NoCall(s, t)
    BY <1>1 DEF NoCall, ConnState
  <2> QED
    BY <2>1, <2>2
<1>10. CASE BuildNeeded(c)
  <2> DEFINE t == [s EXCEPT !.owed = TRUE]
  <2>1. s.phase # "idle" /\ s.published # Nobody
    BY <1>10 DEF BuildNeeded, Phase
  <2>2. s.published = c
    BY <2>1, ConnFacts DEF ScopeInv
  <2>3. conn' = [conn EXCEPT ![c] = t]
    BY <1>3, <1>10, <2>2 DEF BuildNeeded
  <2>4. NoCall(s, t)
    BY <1>1 DEF NoCall, ConnState
  <2> QED
    BY <2>3, <2>4
<1> QED
  BY <1>4, <1>5, <1>6, <1>7, <1>8, <1>9, <1>10

(* One connection's state changes. *)
LEMMA CallsChange ==
  ASSUME Inv, CallsInv, UNCHANGED program, NEW c \in Connections,
         NEW t, CallInv(t), conn' = [conn EXCEPT ![c] = t]
  PROVE  CallsInv'
<1>1. \A d \in Connections : conn'[d] = IF d = c THEN t ELSE conn[d]
  BY DEF Inv, ConnInv
<1>2. \A d \in Connections : CallInv(conn'[d])
  BY <1>1 DEF CallsInv
<1>3. ServedEndpoint' = ServedEndpoint
  BY DEF ServedEndpoint
<1> QED
  BY <1>2, <1>3 DEF CallsInv, CallInv, Resolved

(* FastAPI is about to call the endpoint, which the wrapper may be. *)
LEMMA RouteCall ==
  ASSUME Inv, CallsInv, NEW c \in Connections, Accept(c) \/ Route(c)
  PROVE  CallsInv'
<1> DEFINE s == conn[c]
<1>1. PICK names : s \in ConnState(names)
  BY ConnType
<1>2. CallInv(s) /\ conn = [d \in Connections |-> conn[d]]
  BY DEF CallsInv, Inv, ConnInv
<1>3. CASE Accept(c)
  <2>1. PICK n \in DOMAIN apps, type \in Types :
          conn' = [conn EXCEPT ![c].type = type, ![c].app = n,
                               ![c].phase = "in"]
    BY <1>3 DEF Accept
  <2> DEFINE t == [s EXCEPT !.type = type, !.app = n, !.phase = "in"]
  <2>2. conn' = [conn EXCEPT ![c] = t]
    BY <1>2, <2>1
  <2>3. s.phase = "idle"
    BY <1>3 DEF Accept, Phase
  <2>4. /\ t.args = s.args /\ t.next = s.next /\ t.phase = "in"
        /\ t.unbound <=> s.unbound
    BY <1>1 DEF ConnState
  <2> HIDE DEF t
  <2>5. CallInv(t)
    BY <1>2, <2>3, <2>4 DEF CallInv
  <2> QED
    BY <1>3, <2>2, <2>5, CallsChange DEF Accept
<1>4. CASE Route(c)
  <2> DEFINE args == Supplied(ServedEndpoint.signature)
             called == [s EXCEPT !.phase = "wrapper", !.args = args]
             asItIs == [s EXCEPT !.phase = "handler"]
  <2>1. s.phase = "in"
    BY <1>4 DEF Route, Phase
  <2>2. EndpointOf(c) = ServedEndpoint
    BY <2>1, EndpointServed
  <2>3. \/ conn' = [conn EXCEPT ![c] = called]
        \/ s.type # "http" /\ conn' = [conn EXCEPT ![c] = asItIs]
    BY <1>2, <1>4, <2>2 DEF Route
  <2>4. /\ Resolved(0) = {} /\ Len(ServedEndpoint.injected) \in Nat
        /\ args \subseteq NamesOf(program.endpoint.params) \cup HiddenNames
    BY EndpointServed, ArgumentNames, ResolvedNames DEF Arguments
  <2> HIDE DEF args
  <2>5. /\ called.args = args /\ called.next = s.next
        /\ called.phase = "wrapper" /\ asItIs.phase = "handler"
        /\ asItIs.args = s.args /\ asItIs.next = s.next
        /\ asItIs.type = s.type
        /\ called.unbound <=> s.unbound
        /\ asItIs.unbound <=> s.unbound
    BY <1>1 DEF ConnState
  <2> HIDE DEF called, asItIs
  <2>6. CallInv(called)
    <3>1. s.next = 0
      BY <1>2, <2>1 DEF CallInv
    <3>2. /\ called.next \in 0..Len(ServedEndpoint.injected)
          /\ called.args = args \cup Resolved(called.next)
      BY <2>4, <2>5, <3>1
    <3> QED
      BY <1>2, <2>4, <2>5, <3>2 DEF CallInv, args
  <2>7. s.type # "http" => CallInv(asItIs)
    BY <1>2, <2>5 DEF CallInv
  <2>8. UNCHANGED program
    BY <1>4 DEF Route
  <2>9. CASE conn' = [conn EXCEPT ![c] = called]
    BY <2>6, <2>8, <2>9, CallsChange
  <2>10. CASE s.type # "http" /\ conn' = [conn EXCEPT ![c] = asItIs]
    BY <2>7, <2>8, <2>10, CallsChange
  <2> QED
    BY <2>3, <2>9, <2>10
<1> QED
  BY <1>3, <1>4

LEMMA ResolveInjectedCall ==
  ASSUME Inv, CallsInv, NEW c \in Connections, ResolveInjected(c)
  PROVE  CallsInv'
<1> DEFINE s == conn[c]
           injected == ServedEndpoint.injected
           name == injected[s.next + 1].name
           t == [s EXCEPT !.args = @ \cup {name}, !.next = @ + 1, !.owed = TRUE]
<1>1. PICK names : s \in ConnState(names)
  BY ConnType
<1>2. CallInv(s) /\ conn = [d \in Connections |-> conn[d]]
  BY DEF CallsInv, Inv, ConnInv
<1>3. s.phase = "wrapper" /\ s.published # Nobody
  BY DEF ResolveInjected, Phase
<1>4. s.published = c
  BY <1>3, ConnFacts DEF ScopeInv
<1>5. EndpointOf(c) = ServedEndpoint
  BY <1>3, EndpointServed
<1>6. conn' = [conn EXCEPT ![c] = t]
  BY <1>2, <1>4, <1>5 DEF ResolveInjected
<1>7. /\ s.next < Len(injected) /\ s.next \in Nat /\ Len(injected) \in Nat
      /\ s.args = Supplied(ServedEndpoint.signature) \cup Resolved(s.next)
  BY <1>1, <1>2, <1>3, <1>5, ResolvedNames
     DEF ResolveInjected, Unresolved, CallInv, ConnState
<1>8. Resolved(s.next + 1) = Resolved(s.next) \cup {name}
  BY <1>7, ResolvedNames
<1> HIDE DEF name
<1>9. /\ t.args = s.args \cup {name} /\ t.next = s.next + 1
      /\ t.phase = "wrapper"
      /\ t.unbound <=> s.unbound
  BY <1>1, <1>3 DEF ConnState
<1> HIDE DEF t
<1>10. t.args = Supplied(ServedEndpoint.signature) \cup Resolved(t.next)
  BY <1>7, <1>8, <1>9
<1>11. t.next \in 0..Len(injected)
  BY <1>7, <1>9
<1>12. t.args \subseteq NamesOf(program.endpoint.params) \cup HiddenNames
  BY <1>10, <1>11, EndpointServed, ArgumentNames, ResolvedNames DEF Arguments
<1>13. CallInv(t)
  BY <1>2, <1>9, <1>10, <1>11, <1>12 DEF CallInv
<1> QED
  BY <1>6, <1>13, CallsChange DEF ResolveInjected

(* Only an endpoint that takes its request in a way of its own is called   *)
(* in vain.                                                                *)
LEMMA UnboundCall ==
  ASSUME Inv, CallsInv, NEW c \in Connections, conn[c].phase = "wrapper",
         ~Conventional(program.endpoint.params)
  PROVE  CallInv([Raised(c, conn[c].inside) EXCEPT !.unbound = TRUE])
<1> DEFINE t == [Raised(c, conn[c].inside) EXCEPT !.unbound = TRUE]
<1>1. PICK names : conn[c] \in ConnState(names)
  BY ConnType
<1>2. t.args = conn[c].args /\ t.phase = "out"
  BY <1>1 DEF Raised, ConnState
<1> HIDE DEF t
<1>3. CallInv(t)
  BY <1>2 DEF CallsInv, CallInv
<1> QED
  BY <1>3 DEF t

LEMMA NoConnectionCall ==
  ASSUME Inv, CallsInv, NEW c \in Connections, NoConnection(c)
  PROVE  CallsInv'
<1>1. /\ conn[c].phase = "wrapper" /\ CallInv(conn[c])
      /\ conn' = [conn EXCEPT ![c] =
                    [Raised(c, conn[c].inside) EXCEPT !.unbound = TRUE]]
      /\ UNCHANGED program
  BY DEF NoConnection, Phase, CallsInv
<1>2. EndpointOf(c) = ServedEndpoint
  BY <1>1, EndpointServed
<1>3. ~Conventional(program.endpoint.params)
  <2>1. /\ IsWrapped(ServedEndpoint)
        /\ ~FindsConnection(ServedEndpoint, conn[c].args)
    BY <1>2 DEF NoConnection, Connected
  <2>2. Supplied(ServedEndpoint.signature) \subseteq conn[c].args
    BY <1>1 DEF CallInv
  <2> QED
    BY <2>1, <2>2, EndpointServed, ConventionalCall
<1> QED
  BY <1>1, <1>3, UnboundCall, CallsChange

LEMMA CallHandlerCall ==
  ASSUME Inv, CallsInv, NEW c \in Connections, CallHandler(c)
  PROVE  CallsInv'
<1> DEFINE s == conn[c]
           params == program.endpoint.params
           args == WithoutHidden(ServedEndpoint, s.args)
           t == [s EXCEPT !.phase = "handler", !.args = args]
<1>1. PICK names : s \in ConnState(names)
  BY ConnType
<1>2. CallInv(s) /\ conn = [d \in Connections |-> conn[d]]
  BY DEF CallsInv, Inv, ConnInv
<1>3. s.phase = "wrapper" /\ UNCHANGED program
  BY DEF CallHandler, Phase
<1>4. EndpointOf(c) = ServedEndpoint /\ ServedEndpoint.params = params
  BY <1>3, EndpointServed DEF Rewritten
<1>5. \/ Binds(params, args) /\ conn' = [conn EXCEPT ![c] = t]
      \/ /\ ~Binds(params, args)
         /\ conn' = [conn EXCEPT ![c] =
              [Raised(c, s.inside) EXCEPT !.unbound = TRUE]]
  BY <1>2, <1>4 DEF CallHandler
<1>6. s.args = Arguments(ServedEndpoint)
  <2>1. s.next = Len(ServedEndpoint.injected)
    BY <1>2, <1>3, <1>4, ResolvedNames DEF CallInv, CallHandler, Unresolved
  <2> QED
    BY <1>2, <1>3, <2>1, ResolvedNames DEF CallInv, Arguments
<1>7. /\ args \subseteq NamesOf(params)
      /\ args \cap HiddenNames = {}
      /\ Binds(params, args) => NamesOf(params) \subseteq args
      /\ Conventional(params) => Binds(params, args)
  BY <1>6, EndpointServed, ArgumentNames, BoundComplete, ConventionalCall
<1>8. CASE Binds(params, args) /\ conn' = [conn EXCEPT ![c] = t]
  <2> HIDE DEF args
  <2>1. /\ t.args = args /\ t.phase = "handler"
        /\ t.unbound <=> s.unbound
    BY <1>1 DEF ConnState
  <2> HIDE DEF t
  <2>2. CallInv(t)
    BY <1>2, <1>7, <1>8, <2>1 DEF CallInv
  <2> QED
    BY <1>3, <1>8, <2>2, CallsChange
<1>9. CASE /\ ~Binds(params, args)
           /\ conn' = [conn EXCEPT ![c] =
                [Raised(c, s.inside) EXCEPT !.unbound = TRUE]]
  BY <1>3, <1>7, <1>9, UnboundCall, CallsChange
<1> QED
  BY <1>5, <1>8, <1>9

LEMMA CallsStep == Inv /\ CallsInv /\ [Next]_vars => CallsInv'
<1> SUFFICES ASSUME Inv, CallsInv, [Next]_vars PROVE CallsInv'
  OBVIOUS
<1>1. CASE BuilderStep \/ UNCHANGED vars
  <2>1. UNCHANGED <<program, conn>>
    BY <1>1 DEF BuilderStep, Configure, Build, BuildRaises, vars
  <2>2. ServedEndpoint' = ServedEndpoint
    BY <2>1 DEF ServedEndpoint
  <2> QED
    BY <2>1, <2>2 DEF CallsInv, CallInv, Resolved
<1>2. ASSUME NEW c \in Connections, ConnectionStep(c) PROVE CallsInv'
  <2>1. CASE Accept(c) \/ Route(c)
    BY <2>1, RouteCall
  <2>2. CASE ResolveInjected(c)
    BY <2>2, ResolveInjectedCall
  <2>3. CASE NoConnection(c)
    BY <2>3, NoConnectionCall
  <2>4. CASE CallHandler(c)
    BY <2>4, CallHandlerCall
  <2>5. ASSUME \E t : conn' = [conn EXCEPT ![c] = t] /\ NoCall(conn[c], t),
               UNCHANGED program
        PROVE  CallsInv'
    BY <2>5, CallUntouched, CallsChange DEF CallsInv
  <2>6. CASE Enter(c) \/ LayerAnswers(c) \/ LayerRaises(c) \/ LeaveBuiltin(c)
               \/ LeaveScope(c) \/ CutScope(c) \/ LeaveApp(c)
    <3>1. UNCHANGED program
      BY <2>6 DEF Enter, LayerAnswers, LayerRaises, LeaveBuiltin, LeaveScope,
         CutScope, LeaveApp
    <3> QED
      BY <2>5, <2>6, <3>1, LayerStepNoCall
  <2>7. CASE Cancel(c) \/ Resolve(c) \/ BuildNeeded(c)
               \/ ResolveInjectedRaises(c) \/ HandlerReturns(c) \/ HandlerRaises(c) \/ Answer(c)
    <3>1. UNCHANGED program
      BY <2>7 DEF Cancel, Resolve, BuildNeeded, ResolveInjectedRaises,
         HandlerReturns, HandlerRaises, Answer
    <3> QED
      BY <2>5, <2>7, <3>1, EndpointStepNoCall
  <2> QED
    BY <1>2, <2>1, <2>2, <2>3, <2>4, <2>6, <2>7 DEF ConnectionStep
<1> QED
  BY <1>1, <1>2 DEF Next, Quiet

LEMMA CallsInvariance == Spec => []CallsInv
<1>1. Init => CallsInv
  BY DEF Init, CallsInv, CallInv, Idle
<1> QED
  BY <1>1, CallsStep, Invariance, PTL DEF Spec

(* The types of the state, and of what a connection knows of its layers    *)
(* and of its arguments.                                                   *)
THEOREM Typing == Spec => []TypeOK
<1>1. Inv /\ CallsInv => TypeOK
  <2> SUFFICES ASSUME Inv, CallsInv PROVE TypeOK
    OBVIOUS
  <2>1. /\ program \in Programs
        /\ configured \in 0..Len(program.setup)
        /\ recorded \in [{"pipeline", "api"} -> Seq(Registration)]
        /\ builds \in 0..MaxBuilds
        /\ Len(apps) <= builds /\ Len(apps) \in Nat
        /\ DOMAIN apps = 1..Len(apps)
    BY DEF Inv, BuilderInv
  <2>2. ASSUME NEW c \in Connections
        PROVE  /\ conn[c] \in
                    ConnState(NamesOf(program.endpoint.params) \cup HiddenNames)
               /\ conn[c].app \in 0..Len(apps)
               /\ Len(conn[c].log) <= 1
               /\ conn[c].phase # "idle" =>
                    /\ conn[c].app > 0
                    /\ conn[c].inside \subseteq DOMAIN Layers(c)
    <3>1. PICK names : conn[c] \in ConnState(names)
      BY ConnType
    <3>2. conn[c].args
            \subseteq NamesOf(program.endpoint.params) \cup HiddenNames
      BY DEF CallsInv, CallInv
    <3>3. conn[c] \in
            ConnState(NamesOf(program.endpoint.params) \cup HiddenNames)
      BY <3>1, <3>2 DEF ConnState
    <3>4. CASE conn[c].phase = "idle"
      <4>1. conn[c] = Idle
        BY <3>4 DEF Inv, ConnInv, Served, Serving
      <4> QED
        BY <2>1, <3>3, <3>4, <4>1 DEF Idle
    <3>5. CASE conn[c].phase # "idle"
      <4>1. /\ conn[c].app \in DOMAIN apps /\ Len(conn[c].log) <= 1
            /\ conn[c].inside \subseteq DOMAIN Layers(c)
        BY <3>5, ConnFacts DEF LogInv, Placed, Nested
      <4> QED
        BY <2>1, <3>3, <4>1
    <3> QED
      BY <3>4, <3>5
  <2> QED
    BY <2>1, <2>2 DEF TypeOK
<1> QED
  BY <1>1, Invariance, CallsInvariance, PTL

(* An endpoint that runs for an HTTP request has been given every          *)
(* parameter it declares and none of the hidden ones, and the call of one  *)
(* that takes its request in the conventional way never fails over its     *)
(* arguments (route_injection.py:54-97).                                   *)
THEOREM EndpointCalledComplete == Spec => []CalledComplete
<1>1. CallsInv => CalledComplete
  BY DEF CallsInv, CallInv, CalledComplete
<1> QED
  BY <1>1, CallsInvariance, PTL

(* Each application has the built-in layers once and every configurator's  *)
(* layer once, and an endpoint whose signature Python and FastAPI accept,  *)
(* however often the builder was built before                              *)
(* (web_host_builder.py:138-146, route_injection.py:155-159).              *)
THEOREM ApplicationsAgree == Spec => []BuildsAgree
<1>1. Inv => BuildsAgree
  <2> SUFFICES ASSUME Inv, NEW n \in DOMAIN apps
               PROVE
                 /\ Len(apps[n].layers) = Len(Builtins) + apps[n].configurators
                 /\ \A k \in {"instrumentation", "logging", "scope"} :
                      Cardinality({i \in DOMAIN apps[n].layers :
                                     apps[n].layers[i].kind = k}) = 1
                 /\ WellOrdered(apps[n].endpoint.signature)
                 /\ InjectedDependencies(apps[n].endpoint.signature) = <<>>
    BY DEF BuildsAgree
  <2> DEFINE layers == apps[n].layers
             Of(k) == {i \in DOMAIN layers : layers[i].kind = k}
  <2>1. Len(layers) = Len(Builtins) + apps[n].configurators
    <3>1. Len(Builtins) = ScopeAt
      BY DEF Builtins, ScopeAt
    <3> QED
      BY <3>1 DEF Inv, BuilderInv
  <2>2. WellBuilt(layers)
    BY AppFacts DEF Inv
  <2> HIDE DEF layers
  <2>3. /\ Of("instrumentation") = {InstrumentationAt}
        /\ Of("logging") = {LoggingAt}
        /\ Of("scope") = {ScopeAt}
    BY <2>2, BuiltinPlaces
  <2>4. \A k \in {"instrumentation", "logging", "scope"} :
          Cardinality(Of(k)) = 1
    <3>1. \A place : Cardinality({place}) = 1
      BY FS_Singleton
    <3>2. /\ Cardinality(Of("instrumentation")) = 1
          /\ Cardinality(Of("logging")) = 1
          /\ Cardinality(Of("scope")) = 1
      BY <2>3, <3>1, Zenon
    <3> HIDE DEF Of
    <3> QED
      BY <3>2
  <2>5. apps[n].endpoint = ServedEndpoint
    BY AppFacts DEF Inv, ServedEndpoint
  <2>6. /\ WellOrdered(ServedEndpoint.signature)
        /\ \A j \in DOMAIN ServedEndpoint.signature :
             ServedEndpoint.signature[j].hint # "inject"
        /\ ServedEndpoint.signature \in Seq(Params)
    BY EndpointServed DEF Rewritten
  <2>7. InjectedDependencies(ServedEndpoint.signature) = <<>>
    BY <2>6, NothingKept DEF InjectedDependencies, Injected
  <2> QED
    BY <2>1, <2>4, <2>5, <2>6, <2>7 DEF layers
<1> QED
  BY <1>1, Invariance, PTL
=============================================================================
