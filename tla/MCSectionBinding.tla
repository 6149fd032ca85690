-------------------------- MODULE MCSectionBinding --------------------------
(* Instances of SectionBinding for TLC: the models of a host, and those of *)
(* the repository's own tests of the binding.                              *)
EXTENDS SectionBinding, TLC

Model(name)  == Annotation("model", name, <<>>)
ListOf(a)    == Annotation("list", "", <<a>>)
DictOf(a)    == Annotation("dict", "", <<Plain, a>>)
Optional(a)  == Annotation("union", "", <<a, NoneType>>)
Annotated(a) == Annotation("annotated", "", <<a>>)
Either(a, b) == Annotation("union", "", <<a, b>>)

MCFields ==
  ("ServiceConfig" :> [f \in {"service_name", "instance_id"} |-> Plain])
  @@ ("ServerConfig" :> [f \in {"bind", "port"} |-> Plain])
  @@ ("HostConfig" :> ("server" :> Model("ServerConfig")
                       @@ "shutdown_timeout_seconds" :> Plain))
  @@ ("LoggingConfig" :> ("sinks" :> ListOf(Plain)
                          @@ "console" :> Annotated(Model("ConsoleSinkConfig"))
                          @@ "overrides" :> DictOf(Plain)))
  @@ ("ConsoleSinkConfig" :> [f \in {"json_logs"} |-> Plain])
  @@ ("MessageBusConfig" :> ("channels" :> Optional(ListOf(Model("Channel")))
                             @@ "mode" :> Either(Model("Channel"), Plain)))
  @@ ("Channel" :> [f \in {"name"} |-> Plain])
  @@ ("RoutingConfig" :> ("endpoints" :> DictOf(Model("Channel"))))

MCNumeral == "0" :> 0 @@ "1" :> 1 @@ "01" :> 1 @@ "10" :> 10

Text(word, casing) == [text |-> TRUE, word |-> word, casing |-> casing]
Number(word) == [text |-> FALSE, word |-> word, casing |-> "lower"]
Both(words) == {Text(w, c) : w \in words, c \in {"lower", "upper"}}

(* Every dict of at most n of these keys; the value tells the place. *)
DictsOf(keys, n, ValueAt(_)) ==
  {Dict([i \in DOMAIN ks |-> Item(ks[i], ValueAt(i))]) :
     ks \in {k \in UNION {[1..m -> keys] : m \in 0..n} :
               \A i, j \in DOMAIN k : i # j => k[i] # k[j]}}

Place(i) == Scalar(<<"first", "second", "third">>[i])
Named(i) == Dict(<<Item(Text("name", "upper"), Place(i))>>)
Single(key, v) == Dict(<<Item(key, v)>>)

NoDicts == {Missing, Scalar("text")}
Services == NoDicts \cup
  DictsOf(Both({"instance_id"}) \cup {Text("service_name", "upper")}, 3, Place)
Hosts == NoDicts \cup
  DictsOf(Both({"port", "shutdown_timeout_seconds"}), 3, Place)
Loggings == NoDicts \cup
  {Single(Text("console", "upper"), v) :
     v \in DictsOf(Both({"json_logs"}), 2, Place) \cup {Scalar("text")}}
  \cup {Single(Text(f, "upper"), v) : f \in {"overrides", "sinks"},
          v \in DictsOf({Text("app", "mixed"), Text("sinks", "upper"), Text("0", "lower")}, 2, Place)}
Buses == NoDicts \cup
  {Single(Text(f, "upper"), v) : f \in {"channels", "mode"},
     v \in DictsOf({Text(w, "lower") : w \in {"0", "1", "01", "10", "2sup", "x"}}
                     \cup {Number("1")}, 3, Named)
           \cup {List([i \in 1..n |-> Named(i)]) : n \in 0..2}
           \cup {List(<<Place(1), Named(2)>>), Scalar("text")}}
Routings ==
  {Single(Text("endpoints", "upper"), v) :
     v \in DictsOf({Text("primary", "mixed"), Text("name", "upper"),
                    Text("name", "lower")}, 2, Named) \cup {Scalar("text")}}
  \cup DictsOf(Both({"endpoints", "other"}) \cup {Number("1")}, 2, Named)

Usual == [service |-> Dict(<<>>), host |-> Dict(<<>>), logging |-> Dict(<<>>),
          observability |-> Missing, bus |-> Missing, routing |-> Missing]

MCSections ==
  {[Usual EXCEPT !["service"] = v] : v \in Services}
  \cup {[Usual EXCEPT !["host"] = v] : v \in Hosts}
  \cup {[Usual EXCEPT !["logging"] = v] : v \in Loggings}
  \cup {[Usual EXCEPT !["observability"] = v] : v \in NoDicts \cup {Dict(<<>>)}}
  \cup {[Usual EXCEPT !["bus"] = v] : v \in Buses}
  \cup {[Usual EXCEPT !["routing"] = v] : v \in Routings}

MCRequests ==
  {[model |-> "LoggingConfig", section |-> "logging"],
   [model |-> "MessageBusConfig", section |-> "bus"],
   [model |-> "RoutingConfig", section |-> "routing"]}
=============================================================================
