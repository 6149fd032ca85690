-------------------------- MODULE SectionBinding --------------------------
(***************************************************************************)
(* From a raw section of the configuration to the fields of a model:       *)
(* section_coercion.py and DynaconfConfiguration.get (pepelats/            *)
(* configuration), and the host's bootstrap that goes by them              *)
(* (pepelats/hosting/host_bootstrap.py).                                   *)
(*                                                                         *)
(* A key is a text or a number, with the word it comes to in lower case    *)
(* and the casing it was written in.  A dict is the sequence of its items, *)
(* since the order of insertion decides which of two spellings is seen     *)
(* first or last.  A model gives each field an annotation; the names of    *)
(* fields are in lower case.  What pydantic makes of the values            *)
(* afterwards, defaults included, is left out.                             *)
(***************************************************************************)
EXTENDS Naturals, FiniteSets, Sequences

CONSTANTS Fields,     \* model -> (field -> annotation)
          Sections,   \* the configurations: records of raw sections
          Requests,   \* [model, section] an application asks for
          Numeral,    \* the number each decimal word stands for
          OddDigits,  \* words that isdigit() accepts and int() does not
          Depth       \* how deep values and annotations nest

Models == DOMAIN Fields

Value(tag, val, items) == [tag |-> tag, val |-> val, items |-> items]
Missing     == Value("missing", "", <<>>)
Failure(by) == Value("failure", by, <<>>)
Scalar(v)   == Value("scalar", v, <<>>)
Dict(items) == Value("dict", "", items)
List(items) == Value("list", "", items)
Generated   == Scalar("uuid4")  \* the id of this boot

Item(key, value) == [key |-> key, value |-> value]
FieldKey(f) == [text |-> TRUE, word |-> f, casing |-> "lower"]
KeysOf(dict) == {dict.items[i].key : i \in DOMAIN dict.items}

Keys == [text : BOOLEAN, word : STRING, casing : {"lower", "upper", "mixed"}]
Scalars == [tag : {"scalar"}, val : STRING, items : {<<>>}] \cup {Generated}
Items(values) == [key : Keys, value : values]
Lists(values) == [tag : {"list"}, val : {""}, items : Seq(values)]
Dicts(values) ==
  {d \in [tag : {"dict"}, val : {""}, items : Seq(Items(values))] :
     \A i, j \in DOMAIN d.items : i # j => d.items[i].key # d.items[j].key}

(* What a configuration file can say, nested at most n deep. *)
Values[n \in 0..Depth] ==
  IF n = 0 THEN {}
  ELSE Scalars \cup Lists(Values[n - 1]) \cup Dicts(Values[n - 1])

(* dict[key] = value: a key that is there keeps its place. *)
Put(items, key, value) ==
  IF \E i \in DOMAIN items : items[i].key = key
  THEN [i \in DOMAIN items |->
          IF items[i].key = key THEN Item(key, value) ELSE items[i]]
  ELSE Append(items, Item(key, value))

----------------------------------------------------------------------------
(* Annotations *)

Annotation(origin, model, args) ==
  [origin |-> origin, model |-> model, args |-> args]
Plain == Annotation("plain", "", <<>>)
NoneType == Annotation("none", "", <<>>)
NoModel == ""

Inner(a) ==
  LET given == SelectSeq(a.args, LAMBDA b : b # NoneType) IN
  CASE a.origin = "annotated"                -> a.args[1]
    [] a.origin = "union" /\ Len(given) = 1  -> given[1]
    [] OTHER                                 -> a

(* _unwrap_optional: through Annotated, and a union with None. *)
Unwrapped(a) ==
  LET unwrapped[n \in 0..Depth] ==
        IF n = 0 THEN a ELSE Inner(unwrapped[n - 1])
  IN  unwrapped[Depth]

BaseModelOf(a) ==
  IF Unwrapped(a).origin = "model" THEN Unwrapped(a).model ELSE NoModel

(* The model of a list's items (n = 1), or of a dict's values (n = 2). *)
ArgumentModel(a, origin, n) ==
  LET u == Unwrapped(a) IN
  IF u.origin = origin /\ Len(u.args) = n THEN BaseModelOf(u.args[n]) ELSE NoModel

(* The models that one level of an annotation names. *)
ModelsIn(a) ==
  {BaseModelOf(a), ArgumentModel(a, "list", 1), ArgumentModel(a, "dict", 2)}

(* The host's own models bind flat sections. *)
ASSUME BindingAssumption ==
  /\ \A w \in DOMAIN Numeral : Numeral[w] \in Nat
  /\ OddDigits \cap DOMAIN Numeral = {}
  /\ Depth \in Nat /\ Depth > 1
  /\ NoModel \notin Models /\ DOMAIN Numeral \subseteq STRING
  /\ \A m \in Models : \A f \in DOMAIN Fields[m] :
       /\ f \in STRING /\ ModelsIn(Fields[m][f]) \subseteq Models \cup {NoModel}
       /\ Inner(Unwrapped(Fields[m][f])) = Unwrapped(Fields[m][f])
  /\ {"ServiceConfig", "ServerConfig", "HostConfig"} \subseteq Models
  /\ \A m \in {"ServiceConfig", "ServerConfig"} : \A f \in DOMAIN Fields[m] :
       ModelsIn(Fields[m][f]) = {NoModel}
  /\ "instance_id" \in DOMAIN Fields["ServiceConfig"]
  /\ DOMAIN Fields["HostConfig"] = {"server", "shutdown_timeout_seconds"}
  /\ BaseModelOf(Fields["HostConfig"]["server"]) = "ServerConfig"
  /\ ModelsIn(Fields["HostConfig"]["shutdown_timeout_seconds"]) = {NoModel}
  /\ \A s \in Sections :
       /\ {"service", "host", "logging", "observability"} \subseteq DOMAIN s
       /\ \A name \in DOMAIN s : s[name] \in Values[Depth] \cup {Missing}
       /\ \A r \in Requests : r.model \in Models /\ r.section \in DOMAIN s

----------------------------------------------------------------------------
(* Coercion *)

IsIndexKey(key) == key.word \in DOMAIN Numeral \cup OddDigits

(* Mutant: in the order in which the items were put there. *)
BeforeInsertion(items, i, j) == i < j

(* sorted() by number is stable: "1" and "01" keep their order. *)
Before(items, i, j) ==
  LET n == Numeral[items[i].key.word]
      k == Numeral[items[j].key.word]
  IN  n < k \/ (n = k /\ i < j)

Sorted(items) ==
  CHOOSE order \in [DOMAIN items -> DOMAIN items] :
    \A n, k \in DOMAIN items : n < k => Before(items, order[n], order[k])

Failed == Failure("ValueError")

(* _indexed_dict_to_list.  int() raises ValueError for an odd digit. *)
IndexedToList(v) ==
  CASE \/ v.tag # "dict" \/ v.items = <<>>
       \/ \E key \in KeysOf(v) : ~IsIndexKey(key)     -> v
    [] /\ v.tag = "dict" /\ v.items # <<>>
       /\ \A key \in KeysOf(v) : IsIndexKey(key)      ->
         IF \E key \in KeysOf(v) : key.word \in OddDigits THEN Failed
         ELSE List([n \in DOMAIN v.items |-> v.items[Sorted(v.items)[n]].value])

IsField(key, model) == key.text /\ key.word \in DOMAIN Fields[model]

(* What the items of a dict come to, assigned one after the other. *)
AssignAll(items) ==
  LET made[n \in 0..Len(items)] ==
        IF n = 0 THEN <<>>
        ELSE Put(made[n - 1], items[n].key, items[n].value)
  IN  made[Len(items)]

(* A ValueError in one of the parts is one of the whole. *)
Unless(parts, whole) ==
  IF \E i \in DOMAIN parts : parts[i] = Failed THEN Failed ELSE whole

ValuesOf(items) == [i \in DOMAIN items |-> items[i].value]

(* _coerce_field_value.  A nested model is coerced by "nested". *)
CoerceField(nested, v, a) ==
  LET itemModel  == ArgumentModel(a, "list", 1)
      valueModel == ArgumentModel(a, "dict", 2)
      listed     == IndexedToList(v)
      elements   == [n \in DOMAIN listed.items |->
                       nested[itemModel][listed.items[n]]]
      entries    == [n \in DOMAIN v.items |->
                       Item(v.items[n].key, nested[valueModel][v.items[n].value])]
  IN  CASE BaseModelOf(a) # NoModel /\ v.tag = "dict" -> nested[BaseModelOf(a)][v]
        [] itemModel # NoModel /\ listed.tag = "failure" -> Failed
        [] itemModel # NoModel /\ listed.tag = "list" ->
             Unless(elements, List(elements))
        [] valueModel # NoModel /\ v.tag = "dict" ->
             Unless(ValuesOf(entries), Dict(entries))
        [] OTHER -> v

(* A key that spells a field becomes the field's name; every other item is *)
(* passed on.                                                              *)
CoerceItem(nested, item, model) ==
  IF IsField(item.key, model)
  THEN Item(FieldKey(item.key.word),
            CoerceField(nested, item.value, Fields[model][item.key.word]))
  ELSE item

(* coerce_section_data_for_model *)
CoerceData(nested, v, model) ==
  LET items == [i \in DOMAIN v.items |-> CoerceItem(nested, v.items[i], model)]
  IN  IF v.tag # "dict" THEN v
      ELSE Unless(ValuesOf(items), Dict(AssignAll(items)))

(* ... to each model, by the depth of the data. *)
Coerced[n \in 0..Depth] ==
  [model \in Models |->
     [v \in Values[n] |-> CoerceData(Coerced[n - 1], v, model)]]

Coerce(v, model) == Coerced[Depth][model][v]

(* Mutant: the field is looked up by its exact name. *)
ReadFieldExact(v, model, field) ==
  LET at == {i \in DOMAIN v.items : v.items[i].key = FieldKey(field)} IN
  IF at = {} THEN Missing
  ELSE CoerceField(Coerced[Depth], v.items[CHOOSE i \in at : TRUE].value,
                   Fields[model][field])

(* read_section_field: the first spelling counts. *)
ReadField(v, model, field) ==
  LET at == {i \in DOMAIN v.items :
               v.items[i].key.text /\ v.items[i].key.word = field}
  IN  IF at = {} THEN Missing
      ELSE CoerceField(Coerced[Depth],
                       v.items[CHOOSE i \in at : \A j \in at : i <= j].value,
                       Fields[model][field])

----------------------------------------------------------------------------
(* The configuration, and the bootstrap of a host that reads it *)

VARIABLES sections,  \* the raw sections, by name
          pc,        \* what is read next, "ready", or "raised"
          service,   \* what ServiceConfig was validated from
          server,    \* what ServerConfig was validated from
          timeout,   \* the shutdown_timeout_seconds read from [host]
          request,   \* what the application asked for last, and
          answer     \* what its model is validated from

vars == <<sections, pc, service, server, timeout, request, answer>>

NoRequest == [model |-> NoModel, section |-> ""]

Init ==
  /\ sections \in Sections
  /\ pc = "service"
  /\ service = Missing /\ server = Missing /\ timeout = Missing
  /\ request = NoRequest /\ answer = Missing

(* get_section_dict succeeds. *)
IsSection(name) == sections[name].tag = "dict"

(* Mutant: what the section says of instance_id comes after it. *)
WithInstanceIdFirst(section) ==
  Dict(AssignAll(<<Item(FieldKey("instance_id"), Generated)>> \o section.items))

(* {**service, "instance_id": str(uuid.uuid4())} *)
WithInstanceId(section) ==
  Dict(Put(section.items, FieldKey("instance_id"), Generated))

(* _load_service_config *)
LoadService ==
  /\ pc = "service" /\ IsSection("service")
  /\ service' = Coerce(WithInstanceId(sections["service"]), "ServiceConfig")
  /\ pc' = "host"
  /\ UNCHANGED <<sections, server, timeout, request, answer>>

(* _load_host_config: the flat section is read for the server's fields and *)
(* again for the timeout.                                                  *)
LoadHost ==
  /\ pc = "host" /\ IsSection("host")
  /\ server' = Coerce(sections["host"], "ServerConfig")
  /\ timeout' = ReadField(sections["host"], "HostConfig",
                          "shutdown_timeout_seconds")
  /\ pc' = "observability"
  /\ UNCHANGED <<sections, service, request, answer>>

(* _load_observability_config: [observability] may be missing and must not *)
(* be anything but a section, [logging] must be one.                       *)
LoadObservability ==
  /\ pc = "observability" /\ IsSection("logging")
  /\ IsSection("observability") \/ sections["observability"] = Missing
  /\ pc' = "ready"
  /\ UNCHANGED <<sections, service, server, timeout, request, answer>>

(* ConfigurationError: a section is missing, or a scalar. *)
BootstrapRaises ==
  /\ \/ pc \in {"service", "host"} /\ ~IsSection(pc)
     \/ /\ pc = "observability"
        /\ \/ ~IsSection("logging")
           \/ sections["observability"].tag \notin {"dict", "missing"}
  /\ pc' = "raised"
  /\ UNCHANGED <<sections, service, server, timeout, request, answer>>

(* Configuration.get and try_get, which differ in what they make of a      *)
(* missing section.                                                        *)
Get(r) ==
  /\ pc = "ready"
  /\ request' = r
  /\ LET v == sections[r.section] IN
     answer' = CASE v.tag = "missing"             -> Missing
                 [] v.tag \notin {"missing", "dict"} ->
                      Failure("ConfigurationError")
                 [] v.tag = "dict"                -> Coerce(v, r.model)
  /\ UNCHANGED <<sections, pc, service, server, timeout>>

(* A host that could not be set up ends the process. *)
Exit == pc = "raised" /\ UNCHANGED vars

Next ==
  \/ LoadService \/ LoadHost \/ LoadObservability \/ BootstrapRaises
  \/ (\E r \in Requests : Get(r))
  \/ Exit

Spec == Init /\ [][Next]_vars

----------------------------------------------------------------------------
(* What the binding promises, stated without following its order of work *)

At(dict, i) == dict.items[i]

(* Where a dict spells a field of a model. *)
Spellings(dict, model, f) ==
  {i \in DOMAIN dict.items :
     IsField(At(dict, i).key, model) /\ At(dict, i).key.word = f}

(* The item that has n - 1 smaller ones before it. *)
Ranked(dict, n) ==
  At(dict, CHOOSE i \in DOMAIN dict.items :
    Cardinality({j \in DOMAIN dict.items :
      LET a == Numeral[At(dict, i).key.word]
          b == Numeral[At(dict, j).key.word]
      IN  b < a \/ (b = a /\ j < i)}) = n - 1).value

(* The pairs of values of which the second is what the first should come   *)
(* to, for an annotation and for a model; "nested" has those less deep.    *)
FieldAgrees(nested, raw, bound, a) ==
  LET itemModel  == ArgumentModel(a, "list", 1)
      valueModel == ArgumentModel(a, "dict", 2)
      indexed    == raw.tag = "dict" /\ raw.items # <<>>
                      /\ \A key \in KeysOf(raw) : IsIndexKey(key)
  IN  CASE BaseModelOf(a) # NoModel /\ raw.tag = "dict" ->
             <<raw, bound, BaseModelOf(a)>> \in nested
        [] itemModel # NoModel /\ (indexed \/ raw.tag = "list") ->
             /\ bound.tag = "list" /\ Len(bound.items) = Len(raw.items)
             /\ \A n \in DOMAIN bound.items :
                  <<IF indexed THEN Ranked(raw, n) ELSE raw.items[n],
                    bound.items[n], itemModel>> \in nested
        [] valueModel # NoModel /\ raw.tag = "dict" ->
             /\ bound.tag = "dict"
             /\ Len(bound.items) = Len(raw.items)
             /\ \A n \in DOMAIN bound.items :
                  /\ At(bound, n).key = At(raw, n).key
                  /\ <<At(raw, n).value, At(bound, n).value, valueModel>>
                       \in nested
        [] OTHER -> bound = raw

DataAgrees(nested, raw, bound, model) ==
  IF raw.tag # "dict" THEN bound = raw
  ELSE /\ bound.tag = "dict"
       /\ \A f \in DOMAIN Fields[model] :
            LET at == Spellings(raw, model, f) IN
            IF at = {} THEN FieldKey(f) \notin KeysOf(bound)
            ELSE \E i \in DOMAIN bound.items :
                   /\ At(bound, i).key = FieldKey(f)
                   /\ FieldAgrees(nested,
                        At(raw, CHOOSE k \in at : \A j \in at : j <= k).value,
                        At(bound, i).value, Fields[model][f])
       /\ {At(raw, i) : i \in {k \in DOMAIN raw.items :
                                 ~IsField(At(raw, k).key, model)}}
          = {At(bound, i) : i \in {k \in DOMAIN bound.items :
                                     ~IsField(At(bound, k).key, model)}}

Agreeing[n \in 0..Depth] ==
  {t \in Values[n] \X Values[n] \X Models :
     DataAgrees(Agreeing[n - 1], t[1], t[2], t[3])}

Agrees(raw, bound, model) == <<raw, bound, model>> \in Agreeing[Depth]

(* What an application gets: every field has the value of its last         *)
(* spelling, whatever the casing; an index dict is a list in the order of  *)
(* its numbers that has lost nothing, gaps or not; and the keys of a       *)
(* dict-valued field, of an unknown section or of an odd type are as they  *)
(* were, at every depth (section_coercion.py:3-5).                         *)
BoundAsDeclared ==
  answer.tag = "dict" =>
    Agrees(sections[request.section], answer, request.model)

(* Every boot has an instance id of its own, whatever [service] says of    *)
(* it (host_bootstrap.py:57-58), unless the section spells the name twice, *)
(* in lower case first: the other spelling then comes after the generated  *)
(* one, which takes the place of the first.                                *)
InstanceIdGenerated ==
  pc \in {"host", "observability", "ready"} =>
    \/ \E i \in DOMAIN service.items :
         At(service, i) = Item(FieldKey("instance_id"), Generated)
    \/ \E i, j \in DOMAIN sections["service"].items :
         /\ i < j
         /\ At(sections["service"], i).key = FieldKey("instance_id")
         /\ At(sections["service"], j).key.word = "instance_id"

(* The flat [host] section is read twice, by different rules               *)
(* (host_bootstrap.py:65-73, section_coercion.py:36-40, 55-66).  Whatever  *)
(* the casing and place of its items, the host's timeout is what the first *)
(* spelling of it says; binding the whole section to HostConfig would take *)
(* the last.  So the two differ just when these do, and agree on a timeout *)
(* that is spelled once or left out.  The server gets its fields.          *)
HostReadings ==
  pc \in {"observability", "ready"} =>
    LET host  == sections["host"]
        whole == Coerce(host, "HostConfig")
        name  == FieldKey("shutdown_timeout_seconds")
        at    == Spellings(host, "HostConfig", name.word)
    IN  /\ at = {} => timeout = Missing /\ name \notin KeysOf(whole)
        /\ at # {} =>
             \E first, last \in at :
               /\ \A j \in at : first <= j /\ j <= last
               /\ timeout = At(host, first).value
               /\ \E i \in DOMAIN whole.items :
                    At(whole, i) = Item(name, At(host, last).value)
        /\ Agrees(host, server, "ServerConfig")
=============================================================================
