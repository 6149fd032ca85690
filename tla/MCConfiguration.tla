-------------------------- MODULE MCConfiguration --------------------------
(* Instances of Configuration for TLC. *)
EXTENDS Configuration, TLC

CONSTANTS none, exported, fromDotenv

Name(w, c) == [word |-> w, casing |-> c, padded |-> FALSE]
Padded(w)  == [word |-> w, casing |-> "Xx", padded |-> TRUE]

LocalText == Name("local", "Xx")
Prod      == Name("prod", "Xx")
BaseName  == Name("base", "xx")
OverridesHere == {Padded("prod")}

Settings2 == {"host.port", "logging.sinks"}
Sections  == {{"host.port"}, {"logging.sinks"}}

F(of, casing, suffix, sets) ==
  [of |-> of, casing |-> casing, suffix |-> suffix, sets |-> sets,
   environment |-> none, broken |-> FALSE]

Both    == {"host.port", "logging.sinks"}
Base    == F("base", "xx", ".toml", Both)
Partial == F("base", "xx", ".json", {"host.port"})

(* One or two base files, which may be ambiguous, broken or lack a         *)
(* section, with each kind of value of their `environment`.                *)
Bases ==
  {{}, {Base, Partial}, {[Base EXCEPT !.broken = TRUE]},
   {Base, F("base", "Xx", ".json", Both)}}
  \cup {{[Base EXCEPT !.environment = e]} : e \in {Prod, Name("", "xx")}}
  \cup {{[Partial EXCEPT !.environment = Padded("prod")]}}

(* The overlays beside them. *)
OverlayPool ==
  {F("prod", "Xx", ".toml", {"host.port"}),
   F("prod", "Xx", ".json", {"logging.sinks"}),
   F("prod", "XX", ".json", Both)}
Overlays ==
  SUBSET OverlayPool
  \cup {{F("local", "xx", ".json", {"logging.sinks"}),
         F("prod", "Xx", ".toml", {"logging.sinks"})},
        {[F("prod", "Xx", ".toml", Both) EXCEPT !.broken = TRUE]}}

DirectoriesHere == {b \cup o : b \in Bases, o \in Overlays}

(* .env and os.environ: ENVIRONMENT, a scalar and a list. *)
NoVariables == <<>>
Environments(texts) == {"ENVIRONMENT" :> t : t \in texts}
Port(tag)  == "host.port" :> tag
Sinks(tag) == "logging.sinks" :> tag

DotenvHere ==
  {NoVariables, "ENVIRONMENT" :> Prod, Port(fromDotenv),
   ("ENVIRONMENT" :> Prod) @@ Port(fromDotenv) @@ Sinks(fromDotenv)}

ExportsHere ==
  {NoVariables, Port(exported), Sinks(exported)}
  \cup Environments({Name("", "xx"), Padded(""), Padded("prod")})
  \cup {e @@ Port(exported) : e \in Environments({Name("local", "XX")})}
=============================================================================
