------------------------ MODULE Configuration_proofs ------------------------
(***************************************************************************)
(* Proofs about Configuration, for any settings, directories, .env files   *)
(* and variables of the process, any number of loads and of edits.         *)
(*                                                                         *)
(* A load changes os.environ, which is shared with every later load: what  *)
(* keeps precedence true through any history is that a variable no load    *)
(* has put there has its exported value, and any other .env's.  That two   *)
(* loads in a row agree is that a load's result is a function of the       *)
(* directory, .env and os.environ which its own effect on os.environ does  *)
(* not change.                                                             *)
(***************************************************************************)
EXTENDS Configuration, TLAPS, SequenceTheorems

EnvironInv ==
  /\ \A v \in DOMAIN exports : v \in DOMAIN environ /\ environ[v] = exports[v]
  /\ \A k \in Keys \cap DOMAIN environ :
       k \notin DOMAIN exports => environ[k] = Dotenv
  /\ "ENVIRONMENT" \in DOMAIN environ => environ["ENVIRONMENT"] \in Text

(* What a load gives, as a function of its parameter and of the state. *)
Result(o) ==
  LET name  == Trimmed(Chosen(o))
      files == Files(name)
  IN IF Accepted(o) /\ \A i \in 1..Len(files) : ~files[i].broken
     THEN [result |-> "ok", override |-> o, name |-> name, files |-> files,
           settings |-> Layered(files)]
     ELSE [NotLoaded("failed") EXCEPT !.override = o]

StableInv ==
  ~touched /\ "ENVIRONMENT" \notin DOMAIN dotenv =>
    loaded = Result(loaded.override)

Inv ==
  TypeOK /\ EnvironInv /\ StableInv /\ Precedence /\ FilesFit /\ ReadyIsBacked

----------------------------------------------------------------------------
(* The operators of the model. *)

LEMMA OverFacts ==
  ASSUME NEW f, NEW g
  PROVE  /\ DOMAIN Over(f, g) = DOMAIN f \cup DOMAIN g
         /\ \A x \in DOMAIN f : Over(f, g)[x] = f[x]
         /\ \A x \in DOMAIN g \ DOMAIN f : Over(f, g)[x] = g[x]
         /\ Over(Over(f, g), g) = Over(f, g)
BY DEF Over

LEMMA WithoutFacts ==
  ASSUME NEW f, NEW v
  PROVE  /\ DOMAIN Without(f, v) = DOMAIN f \ {v}
         /\ \A x \in DOMAIN f \ {v} : Without(f, v)[x] = f[x]
BY DEF Without

(* Among the files that match, the preferred one: the others differ from   *)
(* it in their suffix alone, and then it is the .toml.                     *)
LEMMA PreferredFits ==
  ASSUME directory \in Directories, NEW t, Matches(t) # {}, ~Ambiguous(t)
  PROVE  /\ Preferred(t) \in directory /\ Preferred(t).of = t.word
         /\ \A f \in directory : f.of = t.word =>
              /\ f.casing = Preferred(t).casing
              /\ f # Preferred(t) => Preferred(t).suffix = ".toml"
<1> DEFINE Best(f) == f.suffix = ".toml" \/ \A g \in Matches(t) : g.suffix # ".toml"
<1>1. \E f \in Matches(t) : Best(f)
  OBVIOUS
<1>2. Preferred(t) \in Matches(t) /\ Best(Preferred(t))
  BY <1>1 DEF Preferred
<1>3. \A f \in Matches(t) : f.casing = Preferred(t).casing
  BY <1>2 DEF Ambiguous
<1>4. ASSUME NEW f \in Matches(t), f # Preferred(t), Preferred(t).suffix # ".toml"
      PROVE  FALSE
  <2>1. /\ f \in directory /\ Preferred(t) \in directory
        /\ f.of = Preferred(t).of /\ f.casing = Preferred(t).casing
    BY <1>2, <1>3 DEF Matches
  <2>2. f.suffix # ".toml" /\ f \in File /\ Preferred(t) \in File
    BY <1>2, <1>4, <2>1, ConfigurationAssumption
  <2>3. f.suffix = Preferred(t).suffix
    BY <1>4, <2>2 DEF File
  <2> QED
    BY <1>4, <2>1, <2>3, ConfigurationAssumption
<1> QED
  BY <1>2, <1>3, <1>4 DEF Matches

LEMMA FilesFacts ==
  ASSUME directory \in Directories, HasBase, NEW t, ~Ambiguous(t)
  PROVE  /\ Len(Files(t)) \in {1, 2}
         /\ \A i \in 1..Len(Files(t)) : Files(t)[i] \in directory
         /\ Files(t)[1] = Preferred(BaseStem)
         /\ Matches(t) # {} => Len(Files(t)) = 2 /\ Files(t)[2] = Preferred(t)
         /\ Matches(t) = {} => Len(Files(t)) = 1
<1>1. Preferred(BaseStem) \in directory
  BY PreferredFits DEF HasBase
<1>2. CASE Matches(t) = {}
  BY <1>1, <1>2 DEF Files, BaseFile
<1>3. CASE Matches(t) # {}
  <2>1. Preferred(t) \in directory
    BY <1>3, PreferredFits
  <2> QED
    BY <1>1, <1>3, <2>1 DEF Files, BaseFile
<1> QED
  BY <1>2, <1>3

LEMMA AppendFacts ==
  ASSUME NEW f, NEW g
  PROVE  Append(<<>>, f) = <<f>> /\ Append(<<f>>, g) = <<f, g>>
<1> DEFINE S == {f, g}
<1>1. /\ <<>> \in Seq(S) /\ <<f>> \in Seq(S) /\ <<f, g>> \in Seq(S)
      /\ Len(<<>>) = 0 /\ Len(<<f>>) = 1 /\ Len(<<f, g>>) = 2
  BY EmptySeq
<1>2. /\ Append(<<>>, f) \in Seq(S) /\ Len(Append(<<>>, f)) = 1
      /\ Append(<<>>, f)[1] = f
  BY <1>1, AppendProperties
<1>3. Append(<<>>, f) = <<f>>
  BY <1>1, <1>2, SeqEqual
<1>4. /\ Append(<<f>>, g) \in Seq(S) /\ Len(Append(<<f>>, g)) = 2
      /\ Append(<<f>>, g)[1] = f /\ Append(<<f>>, g)[2] = g
  BY <1>1, AppendProperties
<1>5. Append(<<f>>, g) = <<f, g>>
  <2> DEFINE a == Append(<<f>>, g)
             b == <<f, g>>
  <2>1. /\ a \in Seq(S) /\ b \in Seq(S) /\ Len(a) = 2 /\ Len(b) = 2
        /\ a[1] = b[1] /\ a[2] = b[2]
    BY <1>1, <1>4
  <2> HIDE DEF a, b
  <2>2. Len(a) = Len(b) /\ \A i \in 1..Len(a) : a[i] = b[i]
    BY <2>1
  <2>3. a = b
    BY <2>1, <2>2, SeqEqual
  <2> QED
    BY <2>3 DEF a, b
<1> QED
  BY <1>3, <1>5

LEMMA MergeFacts ==
  ASSUME NEW settings, NEW f, NEW k \in Keys
  PROVE  Merge(settings, f)[k] =
           IF k \notin f.sets THEN settings[k]
           ELSE IF k \in Lists THEN Append(settings[k], f) ELSE <<f>>
BY DEF Merge

(* What the layers give a key. *)
LEMMA LayeredFacts ==
  ASSUME NEW f, NEW g, NEW files \in {<<f>>, <<f, g>>}, NEW k \in Keys
  PROVE  LET env == EnvironWithDotenv IN
         Layered(files)[k] =
           IF k \in DOMAIN env THEN <<env[k]>> ELSE FromFiles(files, k)
<1> DEFINE env == EnvironWithDotenv
           start == LoadEnviron(Unset, env)
           def(i) == k \in files[i].sets
           defining == {i \in 1..Len(files) : def(i)}
           last == CHOOSE i \in defining : \A j \in defining : j <= i
<1>1. CASE k \in DOMAIN env
  BY <1>1 DEF Layered, LoadEnviron
<1>2. CASE k \notin DOMAIN env
  <2>1. /\ Layered(files)[k] = MergeAll(start, files)[k]
        /\ start[k] = <<>>
    BY <1>2 DEF Layered, LoadEnviron, Unset
  <2>2. CASE files = <<f>>
    <3>1. Len(files) = 1 /\ files[1] = f
      BY <2>2
    <3> HIDE DEF start
    <3>2. MergeAll(start, files)[k] = IF k \in f.sets THEN <<f>> ELSE <<>>
      <4>1. MergeAll(start, files) = Merge(start, f)
        BY <3>1 DEF MergeAll
      <4>2. Merge(start, f)[k] =
              IF k \notin f.sets THEN start[k]
              ELSE IF k \in Lists THEN Append(start[k], f) ELSE <<f>>
        BY MergeFacts
      <4> QED
        BY <2>1, <4>1, <4>2, AppendFacts
    <3>3. k \in f.sets => defining = {1} /\ last = 1
      BY <3>1
    <3>4. k \notin f.sets => defining = {}
      BY <3>1
    <3>5. FromFiles(files, k) = IF k \in f.sets THEN <<f>> ELSE <<>>
      BY <2>2, <3>1, <3>3, <3>4 DEF FromFiles
    <3> QED
      BY <1>2, <2>1, <3>2, <3>5
  <2>3. CASE files = <<f, g>>
    <3>1. Len(files) = 2 /\ files[1] = f /\ files[2] = g
      BY <2>3
    <3> DEFINE first == Merge(start, f)
    <3> HIDE DEF start
    <3>2. /\ MergeAll(start, files) = Merge(first, g)
          /\ first[k] = IF k \in f.sets THEN <<f>> ELSE <<>>
      <4>1. MergeAll(start, files) = Merge(first, g)
        BY <3>1 DEF MergeAll
      <4>2. first[k] =
              IF k \notin f.sets THEN start[k]
              ELSE IF k \in Lists THEN Append(start[k], f) ELSE <<f>>
        BY MergeFacts
      <4> QED
        BY <2>1, <4>1, <4>2, AppendFacts
    <3>3. MergeAll(start, files)[k] =
            IF k \in g.sets
            THEN IF k \in Lists /\ k \in f.sets THEN files ELSE <<g>>
            ELSE IF k \in f.sets THEN <<f>> ELSE <<>>
      <4> HIDE DEF first
      <4>1. Merge(first, g)[k] =
              IF k \notin g.sets THEN first[k]
              ELSE IF k \in Lists THEN Append(first[k], g) ELSE <<g>>
        BY MergeFacts
      <4> QED
        BY <2>3, <3>2, <4>1, AppendFacts
    <3>4. k \in f.sets /\ k \in g.sets => defining = 1..2 /\ last = 2
      BY <3>1
    <3>5. k \in f.sets /\ k \notin g.sets =>
            defining = {1} /\ last = 1 /\ defining # 1..2
      BY <3>1
    <3>6. k \notin f.sets /\ k \in g.sets =>
            defining = {2} /\ last = 2 /\ defining # 1..2
      BY <3>1
    <3>7. k \notin f.sets /\ k \notin g.sets => defining = {}
      BY <3>1
    <3>8. FromFiles(files, k) =
            IF k \in g.sets
            THEN IF k \in Lists /\ k \in f.sets THEN files ELSE <<g>>
            ELSE IF k \in f.sets THEN <<f>> ELSE <<>>
      BY <3>1, <3>4, <3>5, <3>6, <3>7 DEF FromFiles
    <3> QED
      BY <1>2, <2>1, <3>3, <3>8
  <2> QED
    BY <2>2, <2>3
<1> QED
  BY <1>1, <1>2

----------------------------------------------------------------------------
(* One load. *)

LEMMA ChosenFacts ==
  ASSUME directory \in Directories, EnvironInv, HasBase,
         NEW o \in Overrides \cup {None}
  PROVE  Chosen(o) \in Text
<1>1. Preferred(BaseStem) \in directory
  BY PreferredFits DEF HasBase
<1>2. BaseFile \in File
  BY <1>1, ConfigurationAssumption DEF BaseFile
<1>3. BaseFile.environment \in Text \cup {None}
  BY <1>2 DEF File
<1>4. VariableGiven => environ["ENVIRONMENT"] \in Text
  BY DEF EnvironInv, VariableGiven
<1> QED
  BY <1>3, <1>4, ConfigurationAssumption DEF Chosen

LEMMA TrimmedFacts ==
  ASSUME NEW t \in Text
  PROVE  /\ Trimmed(t) \in Text /\ ~Trimmed(t).padded
         /\ Trimmed(t).word = t.word
BY DEF Trimmed, Text

LEMMA ResultFacts ==
  ASSUME directory \in Directories, EnvironInv,
         NEW o \in Overrides \cup {None}
  PROVE  LET r == Result(o) IN
         /\ r.override = o /\ r.result \in {"failed", "ok"}
         /\ r.result = "ok" =>
              /\ HasBase /\ ~Ambiguous(r.name)
              /\ r.name \in Text /\ ~r.name.padded /\ r.name.word # Empty
              /\ r.files = Files(r.name) /\ r.settings = Layered(r.files)
<1> DEFINE name == Trimmed(Chosen(o))
           files == Files(name)
           ok == Accepted(o) /\ \A i \in 1..Len(files) : ~files[i].broken
<1>1. CASE ok
  <2>1. Result(o) = [result |-> "ok", override |-> o, name |-> name,
                     files |-> files, settings |-> Layered(files)]
    BY <1>1 DEF Result
  <2>2. HasBase /\ ~Ambiguous(name) /\ Chosen(o).word # Empty
    BY <1>1 DEF Accepted, EnvironmentKnown
  <2>3. name \in Text /\ ~name.padded /\ name.word # Empty
    BY <2>2, ChosenFacts, TrimmedFacts
  <2> HIDE DEF name, files
  <2> QED
    BY <2>1, <2>2, <2>3 DEF files
<1>2. CASE ~ok
  <2>1. Result(o) = [NotLoaded("failed") EXCEPT !.override = o]
    BY <1>2 DEF Result
  <2>2. Result(o).override = o /\ Result(o).result = "failed"
    BY <2>1 DEF NotLoaded
  <2> QED
    BY <2>2
<1> QED
  BY <1>1, <1>2

LEMMA LoadFacts ==
  ASSUME NEW o, LoadConfiguration(o)
  PROVE  /\ loaded' = Result(o)
         /\ touched' = FALSE /\ loads < MaxLoads /\ loads' = loads + 1
         /\ UNCHANGED <<directory, dotenv, exports, edits>>
         /\ \/ Accepted(o) /\ environ' = Over(environ, dotenv)
            \/ ~Accepted(o) /\ environ' = environ
<1> DEFINE name == Trimmed(Chosen(o))
           files == Files(name)
<1>1. CASE RejectLoad(o)
  BY <1>1 DEF RejectLoad, LoadConfiguration, Result
<1>2. CASE BreakLoad(o)
  <2>1. ~\A i \in 1..Len(files) : ~files[i].broken
    BY <1>2 DEF BreakLoad
  <2> QED
    BY <1>2, <2>1 DEF BreakLoad, LoadConfiguration, Result, EnvironWithDotenv
<1>3. CASE CompleteLoad(o)
  BY <1>3 DEF CompleteLoad, LoadConfiguration, Result, EnvironWithDotenv
<1> QED
  BY <1>1, <1>2, <1>3 DEF LoadConfiguration

(* Every step is a load or an edit. *)
LEMMA Steps ==
  ASSUME Next
  PROVE  \/ \E o \in Overrides \cup {None} :
              /\ LoadConfiguration(o)
              /\ \/ host' = "none"
                 \/ /\ o = None /\ host' \in {"ready", "failed"}
                    /\ host' = "ready" =>
                         loaded'.result = "ok" /\ SectionsRead(loaded')
         \/ /\ touched' = TRUE /\ edits < MaxEdits /\ edits' = edits + 1
            /\ UNCHANGED <<directory, loaded, host, loads>>
            /\ EditDotenv \/ \E v \in Variables : SetVariable(v) \/ DeleteVariable(v)
<1>1. ASSUME NewBuilder
      PROVE  /\ LoadConfiguration(None) /\ host' \in {"ready", "failed"}
             /\ host' = "ready" => loaded'.result = "ok" /\ SectionsRead(loaded')
  BY <1>1 DEF NewBuilder
<1>2. ASSUME NEW o \in Overrides \cup {None}, Load(o)
      PROVE  LoadConfiguration(o) /\ host' = "none"
  BY <1>2 DEF Load
<1> QED
  BY <1>1, <1>2 DEF Next, EditDotenv, SetVariable, DeleteVariable

----------------------------------------------------------------------------
(* The parts of the invariant. *)

LEMMA TypeStep ==
  ASSUME TypeOK, EnvironInv, Next
  PROVE  TypeOK'
<1>1. ASSUME NEW o \in Overrides \cup {None}, LoadConfiguration(o),
             host' \in {"none", "ready", "failed"}
      PROVE  TypeOK'
  <2>1. /\ loaded' = Result(o) /\ touched' = FALSE
        /\ loads < MaxLoads /\ loads' = loads + 1
        /\ UNCHANGED <<directory, dotenv, exports, edits>>
        /\ environ' \in {environ, Over(environ, dotenv)}
    BY <1>1, LoadFacts
  <2>2. DOMAIN environ' \in {DOMAIN environ, DOMAIN environ \cup DOMAIN dotenv}
    BY <2>1, OverFacts
  <2>3. DOMAIN exports' \subseteq DOMAIN environ' /\ DOMAIN environ' \subseteq Variables
    BY <2>1, <2>2, ConfigurationAssumption DEF TypeOK
  <2>4. loads' \in 0..MaxLoads
    BY <2>1, ConfigurationAssumption DEF TypeOK
  <2>5. /\ loaded'.override = o /\ loaded'.result \in {"failed", "ok"}
        /\ loaded'.result = "ok" =>
             /\ HasBase /\ ~Ambiguous(loaded'.name)
             /\ loaded'.name \in Text /\ ~loaded'.name.padded
             /\ loaded'.name.word # Empty
             /\ loaded'.files = Files(loaded'.name)
    BY <2>1, ResultFacts DEF TypeOK
  <2>6. loaded'.result = "ok" => Len(loaded'.files) \in {1, 2}
    BY <2>5, FilesFacts DEF TypeOK
  <2> QED
    BY <1>1, <2>1, <2>3, <2>4, <2>5, <2>6 DEF TypeOK
<1>2. ASSUME touched' = TRUE, edits < MaxEdits, edits' = edits + 1,
             UNCHANGED <<directory, loaded, host, loads>>,
             dotenv' \in DotenvFiles,
             DOMAIN exports' \subseteq DOMAIN environ',
             DOMAIN environ' \subseteq Variables
      PROVE  TypeOK'
  BY <1>2, ConfigurationAssumption DEF TypeOK
<1>3. ASSUME EditDotenv
      PROVE  /\ dotenv' \in DotenvFiles /\ DOMAIN exports' \subseteq DOMAIN environ'
             /\ DOMAIN environ' \subseteq Variables
  BY <1>3 DEF EditDotenv, TypeOK
<1>4. ASSUME NEW v \in Variables, SetVariable(v)
      PROVE  /\ dotenv' \in DotenvFiles /\ DOMAIN exports' \subseteq DOMAIN environ'
             /\ DOMAIN environ' \subseteq Variables
  <2>1. PICK e : /\ environ' = Over([x \in {v} |-> e[v]], environ)
                 /\ exports' = Over([x \in {v} |-> e[v]], exports)
    BY <1>4 DEF SetVariable
  <2>2. /\ DOMAIN environ' = {v} \cup DOMAIN environ
        /\ DOMAIN exports' = {v} \cup DOMAIN exports
    BY <2>1, OverFacts
  <2> QED
    BY <1>4, <2>2 DEF SetVariable, TypeOK
<1>5. ASSUME NEW v \in Variables, DeleteVariable(v)
      PROVE  /\ dotenv' \in DotenvFiles /\ DOMAIN exports' \subseteq DOMAIN environ'
             /\ DOMAIN environ' \subseteq Variables
  <2>1. environ' = Without(environ, v) /\ exports' = Without(exports, v)
    BY <1>5 DEF DeleteVariable
  <2>2. /\ DOMAIN Without(environ, v) = DOMAIN environ \ {v}
        /\ DOMAIN Without(exports, v) = DOMAIN exports \ {v}
    BY WithoutFacts
  <2> QED
    BY <1>5, <2>1, <2>2 DEF DeleteVariable, TypeOK
<1> QED
  BY <1>1, <1>2, <1>3, <1>4, <1>5, Steps

LEMMA EnvironInvStep ==
  ASSUME TypeOK, EnvironInv, Next
  PROVE  EnvironInv'
<1>1. ASSUME NEW o, LoadConfiguration(o)
      PROVE  EnvironInv'
  <2>1. exports' = exports /\ environ' \in {environ, Over(environ, dotenv)}
    BY <1>1, LoadFacts
  <2>2. CASE environ' = environ
    BY <2>1, <2>2 DEF EnvironInv
  <2>3. CASE environ' = Over(environ, dotenv)
    <3>1. /\ DOMAIN environ' = DOMAIN environ \cup DOMAIN dotenv
          /\ \A v \in DOMAIN environ : environ'[v] = environ[v]
          /\ \A v \in DOMAIN dotenv \ DOMAIN environ : environ'[v] = dotenv[v]
      <4>1. LET env == Over(environ, dotenv) IN
            /\ DOMAIN env = DOMAIN environ \cup DOMAIN dotenv
            /\ \A v \in DOMAIN environ : env[v] = environ[v]
            /\ \A v \in DOMAIN dotenv \ DOMAIN environ : env[v] = dotenv[v]
        BY OverFacts, Zenon
      <4> QED
        BY <2>3, <4>1
    <3>2. /\ \A k \in DOMAIN dotenv \cap Keys : dotenv[k] = Dotenv
          /\ "ENVIRONMENT" \in DOMAIN dotenv => dotenv["ENVIRONMENT"] \in Text
      BY ConfigurationAssumption DEF TypeOK
    <3> QED
      BY <2>1, <3>1, <3>2 DEF EnvironInv
  <2> QED
    BY <2>1, <2>2, <2>3
<1>2. CASE EditDotenv
  BY <1>2 DEF EditDotenv, EnvironInv
<1>3. ASSUME NEW v, SetVariable(v)
      PROVE  EnvironInv'
  <2>1. PICK e \in Exports :
          /\ v \in DOMAIN e
          /\ environ' = Over([x \in {v} |-> e[v]], environ)
          /\ exports' = Over([x \in {v} |-> e[v]], exports)
    BY <1>3 DEF SetVariable
  <2> DEFINE one == [x \in {v} |-> e[v]]
  <2>2. DOMAIN one = {v} /\ one[v] = e[v]
    OBVIOUS
  <2> HIDE DEF one
  <2>3. /\ DOMAIN environ' = {v} \cup DOMAIN environ
        /\ DOMAIN exports' = {v} \cup DOMAIN exports
        /\ environ'[v] = e[v] /\ exports'[v] = e[v]
        /\ \A x \in DOMAIN environ \ {v} : environ'[x] = environ[x]
        /\ \A x \in DOMAIN exports \ {v} : exports'[x] = exports[x]
    <3>1. \A g : /\ DOMAIN Over(one, g) = {v} \cup DOMAIN g
                 /\ Over(one, g)[v] = e[v]
                 /\ \A x \in DOMAIN g \ {v} : Over(one, g)[x] = g[x]
      BY <2>2 DEF Over
    <3> QED
      BY <2>1, <3>1 DEF one
  <2>4. v = "ENVIRONMENT" => e[v] \in Text
    BY <2>1, ConfigurationAssumption
  <2> QED
    BY <2>3, <2>4 DEF EnvironInv
<1>4. ASSUME NEW v, DeleteVariable(v)
      PROVE  EnvironInv'
  <2>1. /\ environ' = Without(environ, v) /\ exports' = Without(exports, v)
    BY <1>4 DEF DeleteVariable
  <2>2. /\ DOMAIN environ' = DOMAIN environ \ {v}
        /\ DOMAIN exports' = DOMAIN exports \ {v}
        /\ \A x \in DOMAIN environ \ {v} : environ'[x] = environ[x]
        /\ \A x \in DOMAIN exports \ {v} : exports'[x] = exports[x]
    BY <2>1, WithoutFacts
  <2> QED
    BY <2>2 DEF EnvironInv
<1> QED
  BY <1>1, <1>2, <1>3, <1>4, Steps

(* A load does not change what a load gives, unless .env chooses the       *)
(* environment.                                                            *)
LEMMA ResultKept ==
  ASSUME NEW o, LoadConfiguration(o), "ENVIRONMENT" \notin DOMAIN dotenv
  PROVE  Result(o)' = Result(o)
<1>1. /\ UNCHANGED <<directory, dotenv>>
      /\ environ' \in {environ, Over(environ, dotenv)}
  BY LoadFacts
<1>2. /\ EnvironWithDotenv' = EnvironWithDotenv
      /\ "ENVIRONMENT" \in DOMAIN environ' <=> "ENVIRONMENT" \in DOMAIN environ
      /\ "ENVIRONMENT" \in DOMAIN environ =>
           environ'["ENVIRONMENT"] = environ["ENVIRONMENT"]
  <2>1. LET env == Over(environ, dotenv) IN
        /\ Over(env, dotenv) = env
        /\ DOMAIN env = DOMAIN environ \cup DOMAIN dotenv
        /\ \A v \in DOMAIN environ : env[v] = environ[v]
    BY OverFacts, Zenon
  <2>2. CASE environ' = environ
    BY <1>1, <2>2 DEF EnvironWithDotenv
  <2>3. CASE environ' = Over(environ, dotenv)
    BY <1>1, <2>1, <2>3 DEF EnvironWithDotenv
  <2> QED
    BY <1>1, <2>2, <2>3
<1>3. /\ \A t : Matches(t)' = Matches(t)
      /\ \A t : Ambiguous(t)' <=> Ambiguous(t)
      /\ \A t : Preferred(t)' = Preferred(t)
  BY <1>1 DEF Matches, Ambiguous, Preferred
<1>4. /\ BaseFile' = BaseFile /\ (HasBase' <=> HasBase)
      /\ \A t : Files(t)' = Files(t)
  BY <1>3 DEF BaseFile, HasBase, Files
<1>5. VariableGiven' <=> VariableGiven
  BY <1>2 DEF VariableGiven
<1>6. Chosen(o)' = Chosen(o)
  BY <1>2, <1>4, <1>5 DEF Chosen, VariableGiven
<1>7. Accepted(o)' <=> Accepted(o)
  BY <1>3, <1>4, <1>5, <1>6 DEF Accepted, EnvironmentKnown, Trimmed
<1>8. \A files : Layered(files)' = Layered(files)
  BY <1>2 DEF Layered, LoadEnviron
<1> QED
  BY <1>4, <1>6, <1>7, <1>8 DEF Result, Trimmed, NotLoaded

LEMMA StableInvStep ==
  ASSUME TypeOK, EnvironInv, Next
  PROVE  StableInv'
<1>1. ASSUME NEW o \in Overrides \cup {None}, LoadConfiguration(o),
             "ENVIRONMENT" \notin DOMAIN dotenv
      PROVE  loaded' = Result(loaded.override)'
  <2>1. loaded' = Result(o) /\ Result(o)' = Result(o)
    BY <1>1, LoadFacts, ResultKept
  <2>2. loaded'.override = o
    BY <2>1, ResultFacts DEF TypeOK
  <2>3. ASSUME NEW r, r = loaded'.override
        PROVE  loaded' = Result(r)'
    BY <2>1, <2>2, <2>3
  <2> QED
    BY <2>3
<1>2. ASSUME NEW o, LoadConfiguration(o)
      PROVE  dotenv' = dotenv
  BY <1>2, LoadFacts
<1> QED
  BY <1>1, <1>2, Steps DEF StableInv

LEMMA PrecedenceStep ==
  ASSUME TypeOK, EnvironInv, Next
  PROVE  Precedence'
<1>1. ASSUME NEW o \in Overrides \cup {None}, LoadConfiguration(o),
             loaded'.result = "ok", NEW k \in Keys
      PROVE  loaded'.settings[k] = Expected(k)'
  <2> DEFINE env == Over(environ, dotenv)
             files == loaded'.files
  <2>1. /\ loaded' = Result(o)
        /\ UNCHANGED <<dotenv, exports>>
        /\ \/ Accepted(o) /\ environ' = env
           \/ ~Accepted(o) /\ environ' = environ
    BY <1>1, LoadFacts
  <2>2. /\ HasBase /\ ~Ambiguous(loaded'.name)
        /\ files = Files(loaded'.name) /\ loaded'.settings = Layered(files)
    BY <1>1, <2>1, ResultFacts DEF TypeOK
  <2>3. Accepted(o)
    <3>1. ~Accepted(o) => Result(o) = [NotLoaded("failed") EXCEPT !.override = o]
      BY DEF Result
    <3>2. ~Accepted(o) => Result(o).result = "failed"
      BY <3>1 DEF NotLoaded
    <3> QED
      BY <1>1, <2>1, <3>2
  <2>4. PICK f, g : files \in {<<f>>, <<f, g>>}
    BY <2>2 DEF Files
  <2> HIDE DEF files
  <2>5. loaded'.settings[k] = IF k \in DOMAIN env THEN <<env[k]>>
                             ELSE FromFiles(files, k)
    <3>1. LET all == EnvironWithDotenv IN
          Layered(files)[k] =
            IF k \in DOMAIN all THEN <<all[k]>> ELSE FromFiles(files, k)
      BY <2>4, LayeredFacts
    <3> QED
      BY <2>2, <3>1 DEF EnvironWithDotenv
  <2>6. /\ DOMAIN env = DOMAIN environ \cup DOMAIN dotenv
        /\ \A v \in DOMAIN environ : env[v] = environ[v]
        /\ \A v \in DOMAIN dotenv \ DOMAIN environ : env[v] = dotenv[v]
    BY OverFacts, Zenon
  <2>7. k \in DOMAIN exports => k \in DOMAIN env /\ env[k] = exports[k]
    BY <2>6 DEF EnvironInv
  <2>8. k \in DOMAIN env /\ k \notin DOMAIN exports => env[k] = Dotenv
    BY <2>6, ConfigurationAssumption DEF EnvironInv, TypeOK
  <2>9. Expected(k)' = IF k \in DOMAIN exports THEN <<exports[k]>>
                       ELSE IF k \in DOMAIN env THEN <<Dotenv>>
                       ELSE FromFiles(files, k)
    BY <2>1, <2>3, <2>6 DEF Expected, files, FromFiles
  <2> HIDE DEF env
  <2> QED
    BY <2>5, <2>7, <2>8, <2>9
<1> QED
  BY <1>1, Steps DEF Precedence, JustLoaded

LEMMA FilesFitStep ==
  ASSUME TypeOK, EnvironInv, FilesFit, Next
  PROVE  FilesFit'
<1>1. ASSUME NEW o \in Overrides \cup {None}, LoadConfiguration(o)
      PROVE  FilesFit'
  <2> SUFFICES ASSUME loaded'.result = "ok"
               PROVE  FilesFit'
    BY DEF FilesFit
  <2> DEFINE t == loaded'.name
             files == loaded'.files
             chosen == {files[i] : i \in 1..Len(files)}
             base == Preferred(BaseStem)
             overlay == Preferred(t)
  <2>1. /\ HasBase /\ ~Ambiguous(t) /\ files = Files(t)
        /\ directory' = directory /\ directory \in Directories
    BY <1>1, LoadFacts, ResultFacts DEF TypeOK
  <2>2. /\ Matches(t) # {} => chosen = {base, overlay}
        /\ Matches(t) = {} => chosen = {base}
    BY <2>1, FilesFacts
  <2>3. /\ base \in directory /\ base.of = BaseStem.word
        /\ \A f \in directory : f.of = BaseStem.word =>
             f.casing = base.casing /\ (f # base => base.suffix = ".toml")
    BY <2>1, PreferredFits DEF HasBase
  <2>4. Matches(t) # {} =>
        /\ overlay \in directory /\ overlay.of = t.word
        /\ \A f \in directory : f.of = t.word =>
             f.casing = overlay.casing /\ (f # overlay => overlay.suffix = ".toml")
    BY <2>1, PreferredFits
  <2>5. \A f \in directory : f.of = t.word => Matches(t) # {}
    BY DEF Matches
  <2> HIDE DEF t, base, overlay, chosen, files
  <2>6. ASSUME NEW f \in directory
        PROVE  /\ f \in chosen => f.of \in {BaseStem.word, t.word}
               /\ f.of \in {BaseStem.word, t.word} =>
                    \E g \in chosen :
                      /\ g.of = f.of /\ g.casing = f.casing
                      /\ g # f => g.suffix = ".toml"
    BY <2>2, <2>3, <2>4, <2>5
  <2> QED
    BY <2>1, <2>6 DEF FilesFit, t, chosen, files
<1>2. CASE UNCHANGED <<directory, loaded>>
  BY <1>2 DEF FilesFit
<1> QED
  BY <1>1, <1>2, Steps

LEMMA ReadyIsBackedStep ==
  ASSUME TypeOK, EnvironInv, Next
  PROVE  ReadyIsBacked'
<1> SUFFICES ASSUME host' = "ready", ~touched', NEW section \in Required
             PROVE  \E k \in section :
                      \/ k \in DOMAIN environ'
                      \/ \E i \in 1..Len(loaded'.files) : k \in loaded'.files[i].sets
  BY DEF ReadyIsBacked
<1>1. /\ loaded'.result = "ok" /\ SectionsRead(loaded')
      /\ LoadConfiguration(None)
  BY Steps
<1>2. PICK k \in section : loaded'.settings[k] # <<>>
  BY <1>1 DEF SectionsRead, SectionRead
<1>3. k \in Keys
  BY ConfigurationAssumption
<1>4. loaded'.settings[k] = Expected(k)'
  BY <1>1, <1>3, LoadFacts, PrecedenceStep DEF Precedence, JustLoaded
<1>5. TypeOK' /\ EnvironInv'
  BY TypeStep, EnvironInvStep
<1> DEFINE files == loaded'.files
           defining == {i \in 1..Len(files) : k \in files[i].sets}
<1>6. CASE k \in DOMAIN exports' \/ k \in DOMAIN environ'
  BY <1>5, <1>6 DEF TypeOK
<1>7. CASE k \notin DOMAIN exports' /\ k \notin DOMAIN environ'
  <2>1. dotenv' = dotenv /\ DOMAIN dotenv \subseteq DOMAIN environ'
    <3>1. Result(None).result = "ok" => Accepted(None)
      <4>1. ~Accepted(None) =>
              Result(None) = [NotLoaded("failed") EXCEPT !.override = None]
        BY DEF Result
      <4> QED
        BY <4>1 DEF NotLoaded
    <3>2. environ' = Over(environ, dotenv) /\ dotenv' = dotenv
      BY <1>1, <3>1, LoadFacts
    <3> QED
      BY <3>2, OverFacts
  <2>2. loaded'.settings[k] = FromFiles(files, k)
    BY <1>4, <1>7, <2>1 DEF Expected, FromFiles
  <2>3. defining # {}
    BY <1>2, <2>2 DEF FromFiles
  <2> QED
    BY <2>3
<1> QED
  BY <1>6, <1>7

----------------------------------------------------------------------------
(* The theorems. *)

LEMMA InitInv == Init => Inv
<1> SUFFICES ASSUME Init
             PROVE  Inv
  OBVIOUS
<1>1. TypeOK
  <2>1. 0 \in 0..MaxLoads /\ 0 \in 0..MaxEdits
    BY ConfigurationAssumption
  <2>2. loaded.result = "none" /\ loaded.override = None
    BY DEF Init, NotLoaded
  <2> QED
    BY <2>1, <2>2, ConfigurationAssumption DEF Init, TypeOK
<1>2. EnvironInv
  BY ConfigurationAssumption DEF Init, EnvironInv
<1>3. loaded.result = "none" /\ host = "none" /\ touched
  BY DEF Init, NotLoaded
<1>4. StableInv /\ Precedence /\ FilesFit /\ ReadyIsBacked
  BY <1>3 DEF StableInv, Precedence, JustLoaded, FilesFit, ReadyIsBacked
<1> QED
  BY <1>1, <1>2, <1>4 DEF Inv

LEMMA InvStep == Inv /\ [Next]_vars => Inv'
<1>1. Inv /\ Next => Inv'
  BY TypeStep, EnvironInvStep, StableInvStep, PrecedenceStep, FilesFitStep,
     ReadyIsBackedStep DEF Inv
<1>2. Inv /\ UNCHANGED vars => Inv'
  <2> SUFFICES ASSUME Inv, UNCHANGED vars
               PROVE  Inv'
    OBVIOUS
  <2>1. TypeOK' /\ EnvironInv'
    <3>1. TypeOK'
      BY DEF vars, Inv, TypeOK
    <3>2. EnvironInv'
      BY DEF vars, Inv, EnvironInv
    <3> QED
      BY <3>1, <3>2
  <2>2. Precedence' /\ FilesFit' /\ ReadyIsBacked'
    <3>1. \A k : Expected(k)' = Expected(k)
      BY DEF vars, Expected, FromFiles
    <3>2. Precedence'
      BY <3>1 DEF vars, Inv, Precedence, JustLoaded
    <3>3. FilesFit'
      BY DEF vars, Inv, FilesFit
    <3>4. ReadyIsBacked'
      BY DEF vars, Inv, ReadyIsBacked
    <3> QED
      BY <3>2, <3>3, <3>4
  <2>3. \A r : Result(r)' = Result(r)
    BY DEF vars, Result, Trimmed, Chosen, VariableGiven, BaseFile, Files,
       Accepted, HasBase, EnvironmentKnown, Ambiguous, Preferred, Matches,
       Layered, EnvironWithDotenv, LoadEnviron
  <2>4. StableInv'
    BY <2>3 DEF vars, Inv, StableInv
  <2> QED
    BY <2>1, <2>2, <2>4 DEF Inv
<1> QED
  BY <1>1, <1>2

LEMMA Invariance == Spec => []Inv
<1> QED
  BY InitInv, InvStep, PTL DEF Spec

(* The variables keep their types: a load that succeeds has named an       *)
(* environment by a trimmed word and has one file or two, and no load      *)
(* loses a variable the process exports.                                   *)
THEOREM Typing == Spec => []TypeOK
<1>1. Inv => TypeOK
  BY DEF Inv
<1> QED
  BY <1>1, Invariance, PTL

(* After any history of loads and edits a setting comes from the first of  *)
(* the documented sources to have it.                                      *)
THEOREM PrecedenceKept == Spec => []Precedence
<1>1. Inv => Precedence
  BY DEF Inv
<1> QED
  BY <1>1, Invariance, PTL

(* A load uses the files of its environment, all of them, however they are *)
(* written, and no other.                                                  *)
THEOREM FilesOfEnvironment == Spec => []FilesFit
<1>1. Inv => FilesFit
  BY DEF Inv
<1> QED
  BY <1>1, Invariance, PTL

(* A builder is ready only with every section it needs.                    *)
THEOREM SectionsBacked == Spec => []ReadyIsBacked
<1>1. Inv => ReadyIsBacked
  BY DEF Inv
<1> QED
  BY <1>1, Invariance, PTL

(* A load adds to os.environ what .env sets, and takes nothing away; one   *)
(* that found no usable files or environment adds nothing.                 *)
THEOREM EnvironOnlyGrows == Spec => EnvironKept
<1> DEFINE Step ==
      loads' # loads =>
       /\ \A v \in DOMAIN environ :
            v \in DOMAIN environ' /\ environ'[v] = environ[v]
       /\ \A v \in DOMAIN environ' \ DOMAIN environ :
            /\ v \in DOMAIN dotenv /\ environ'[v] = dotenv[v]
            /\ Accepted(loaded'.override)
<1>1. ASSUME Inv, Next, loads' # loads
      PROVE  Step
  <2>1. PICK o \in Overrides \cup {None} : LoadConfiguration(o)
    BY <1>1, Steps
  <2>o. loaded'.override = o
    <3>1. loaded' = Result(o)
      BY <2>1, LoadFacts
    <3>2. Result(o).override = o
      BY <1>1, ResultFacts DEF Inv, TypeOK
    <3> QED
      BY <3>1, <3>2
  <2>2. CASE environ' = environ
    BY <2>2
  <2>3. CASE Accepted(o) /\ environ' = Over(environ, dotenv)
    <3>1. LET env == Over(environ, dotenv) IN
          /\ DOMAIN env = DOMAIN environ \cup DOMAIN dotenv
          /\ \A v \in DOMAIN environ : env[v] = environ[v]
          /\ \A v \in DOMAIN dotenv \ DOMAIN environ : env[v] = dotenv[v]
      BY OverFacts, Zenon
    <3> QED
      BY <2>o, <2>3, <3>1
  <2> QED
    BY <2>1, <2>2, <2>3, LoadFacts
<1>2. Inv /\ [Next]_vars => [Step]_vars
  BY <1>1
<1> QED
  BY <1>2, Invariance, PTL DEF Spec, EnvironKept

(* Loading again, with nothing edited in between, gives the same, unless   *)
(* .env chooses the environment.                                           *)
THEOREM ReloadsAgree == Spec => ReloadStable
<1> DEFINE Step ==
      /\ loads' # loads /\ ~touched
      /\ loaded'.override = loaded.override
      /\ "ENVIRONMENT" \notin DOMAIN dotenv
      => loaded' = loaded
<1>1. ASSUME Inv, Next, loads' # loads
      PROVE  Step
  <2>1. PICK o \in Overrides \cup {None} : LoadConfiguration(o)
    BY <1>1, Steps
  <2>2. loaded' = Result(o) /\ Result(o).override = o
    BY <1>1, <2>1, LoadFacts, ResultFacts DEF Inv, TypeOK
  <2> QED
    BY <1>1, <2>2 DEF Inv, StableInv
<1>2. Inv /\ [Next]_vars => [Step]_vars
  BY <1>1
<1> QED
  BY <1>2, Invariance, PTL DEF Spec, ReloadStable
=============================================================================
