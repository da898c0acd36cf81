-------------------------- MODULE ConvertersProofs --------------------------
(***************************************************************************)
(* Theorems of Converters, for every set of well-formed inputs: messages   *)
(* of any size, texts with any keys in any order, lists of any length.     *)
(***************************************************************************)
EXTENDS Converters, TLAPS

-----------------------------------------------------------------------------
(***************************************************************************)
(* An output is the conversion of its input.                               *)
(***************************************************************************)

InputOK ==
    \/ input.kind = "task" /\ input.of \in Tasks
    \/ input.kind = "asset" /\ input.of \in Assets
    \/ input.kind = "listed" /\ input.of \in Listed
    \/ input.kind = "execution" /\ input.of \in Executions
    \/ input.kind = "telemetry" /\ input.of \in Readings

Computed ==
    /\ InputOK
    /\ Converted("task") => output = ProtoToTask(input.of)
    /\ Converted("asset") => output = [kind |-> "sent", proto |-> AssetToProto(input.of),
                                       back |-> ProtoToAsset(AssetToProto(input.of))]
    /\ Converted("listed") => output = [kind |-> "asset", back |-> ProtoToAsset(input.of)]
    /\ Converted("execution") =>
           output = [kind |-> "execution", of |-> BuildCommandExecution(input.of)]
    /\ Converted("telemetry") => output = [kind |-> "telemetry", of |-> BuildTelemetry(input.of)]

LEMMA Invariance == Spec => []Computed
<1>1. Init => Computed
  BY DEF Init, Computed, InputOK, Converted
<1>2. Computed /\ [Next]_vars => Computed'
  <2> SUFFICES ASSUME Computed, [Next]_vars PROVE Computed'
    OBVIOUS
  <2>1. CASE UNCHANGED vars
    BY <2>1 DEF Computed, InputOK, Converted, vars
  <2>2. CASE ReadTask
    BY <2>2 DEF Computed, InputOK, Converted, Converts, ReadTask
  <2>3. CASE SendAsset
    BY <2>3 DEF Computed, InputOK, Converted, Converts, SendAsset
  <2>4. CASE ReadAsset
    BY <2>4 DEF Computed, InputOK, Converted, Converts, ReadAsset
  <2>5. CASE PublishExecution
    BY <2>5 DEF Computed, InputOK, Converted, Converts, PublishExecution
  <2>6. CASE PublishTelemetry
    BY <2>6 DEF Computed, InputOK, Converted, Converts, PublishTelemetry
  <2> QED BY <2>1, <2>2, <2>3, <2>4, <2>5, <2>6 DEF Next
<1> QED BY <1>1, <1>2, PTL DEF Spec

-----------------------------------------------------------------------------
(***************************************************************************)
(* The publishers.                                                         *)
(***************************************************************************)

LEMMA DatedEvent ==
    ASSUME NEW o, NEW v, IsFunctionOn(o, {"progress", "occurred_at", "output"}), v # Null
    PROVE  "occurred_at" \in DOMAIN Given([o EXCEPT !.occurred_at = v])
<1> DEFINE d == [o EXCEPT !.occurred_at = v]
<1>1. DOMAIN d = {"progress", "occurred_at", "output"} /\ d["occurred_at"] = v
  BY DEF IsFunctionOn
<1> HIDE DEF d
<1>2. "occurred_at" \in {f \in DOMAIN d : d[f] # Null}
  BY <1>1
<1>3. "occurred_at" \in DOMAIN Given(d)
  BY <1>2 DEF Given, Restrict
<1> QED BY <1>3 DEF d

LEMMA EventAccepted ==
    ASSUME NEW e \in Executions, e.sn # "", e.external_execution_id # ""
    PROVE  LiveDataAccepts(BuildCommandExecution(e)) /\ BuildCommandExecution(e).base_sn = e.sn
             /\ BuildCommandExecution(e).asset_sn = e.sn
<1> DEFINE o == e.optional
           v == IF o.occurred_at = Null THEN Plain("now") ELSE o.occurred_at
           g == Given([o EXCEPT !.occurred_at = v])
<1>1. IsFunctionOn(o, {"progress", "occurred_at", "output"})
  BY ConvertersAssumption
<1>2. v # Null
  BY DEF Null, Plain
<1> HIDE DEF v, o
<1>3. "occurred_at" \in DOMAIN g
  BY <1>1, <1>2, DatedEvent
<1> HIDE DEF g
<1> DEFINE b == IF e.sn # "" THEN e.sn ELSE PublisherSn
           sev == IF e.status = "FAILED" THEN "CRITICAL" ELSE "INFO"
           m == BuildCommandExecution(e)
<1>4. m = [base_sn |-> b, severity |-> sev, asset_sn |-> e.sn,
           external_execution_id |-> e.external_execution_id, status |-> e.status, optional |-> g]
  BY DEF BuildCommandExecution, g, v, o
<1>b. b = e.sn
  OBVIOUS
<1> HIDE DEF b, sev, m
<1>5. /\ m.external_execution_id = e.external_execution_id /\ m.asset_sn = e.sn /\ m.base_sn = e.sn
      /\ m.optional = g
  BY <1>4, <1>b
<1>6. LiveDataAccepts(m) /\ m.base_sn = e.sn /\ m.asset_sn = e.sn
  BY <1>3, <1>5 DEF LiveDataAccepts
<1> QED BY <1>6 DEF m

\* An execution event that names its asset is one LiveData takes, whatever else it says.
THEOREM NamedAlwaysAccepted == Spec => []NamedExecutionAccepted
<1>1. Computed => NamedExecutionAccepted
  <2> SUFFICES ASSUME Computed, Converted("execution"),
                      input.of.sn # "", input.of.external_execution_id # ""
               PROVE  LiveDataAccepts(output.of) /\ output.of.base_sn = output.of.asset_sn
    BY DEF NamedExecutionAccepted
  <2>1. output = [kind |-> "execution", of |-> BuildCommandExecution(input.of)]
    BY DEF Computed
  <2>2. input.of \in Executions
    BY DEF Computed, InputOK, Converted
  <2>3. output.of = BuildCommandExecution(input.of)
    BY <2>1
  <2> QED BY <2>2, <2>3, EventAccepted
<1> QED BY Invariance, <1>1, PTL

\* What is set in a selection of fields.
LEMMA GivenProperties ==
    ASSUME NEW r
    PROVE  /\ DOMAIN Given(r) = {f \in DOMAIN r : r[f] # Null}
           /\ \A f \in DOMAIN Given(r) : Given(r)[f] = r[f]
  BY DEF Given, Restrict

LEMMA GivenOf ==
    ASSUME NEW r, NEW S
    PROVE  /\ DOMAIN Given(Restrict(r, S)) = {f \in S : r[f] # Null}
           /\ \A f \in DOMAIN Given(Restrict(r, S)) : Given(Restrict(r, S))[f] = r[f]
<1> DEFINE q == Restrict(r, S)
<1>1. DOMAIN q = S /\ \A f \in S : q[f] = r[f]
  BY DEF Restrict
<1> HIDE DEF q
<1>2. /\ DOMAIN Given(q) = {f \in DOMAIN q : q[f] # Null}
      /\ \A f \in DOMAIN Given(q) : Given(q)[f] = q[f]
  BY GivenProperties
<1>3. DOMAIN Given(q) = {f \in S : r[f] # Null}
  BY <1>1, <1>2
<1>4. \A f \in DOMAIN Given(q) : Given(q)[f] = r[f]
  BY <1>1, <1>2, <1>3
<1> QED BY <1>3, <1>4 DEF q

LEMMA GroupArrives ==
    ASSUME NEW t \in Readings, NEW g \in Groups[t.of], NEW f \in {"number", "quality"},
           t.groups[g] # Null, t.groups[g].fields[f] # Null
    PROVE  LET r == t.groups[g].fields
               w == [x \in DOMAIN r |-> OnWire(g, x, r[x])]
           IN  g \in SentGroups(t) /\ f \in DOMAIN Given(w) /\ Given(w)[f] = OnWire(g, f, r[f])
<1> DEFINE r == t.groups[g].fields
           w == [x \in DOMAIN r |-> OnWire(g, x, r[x])]
<1>1. DOMAIN r = {"number", "quality"}
  BY ConvertersAssumption DEF IsReading
<1> HIDE DEF r
<1>2. r[f] # Null
  BY DEF r
<1>3. f \in DOMAIN Given(r) /\ Given(r)[f] = r[f]
  BY <1>1, <1>2, GivenProperties
<1>7. w[f] = OnWire(g, f, r[f]) /\ f \in DOMAIN w /\ w[f] # Null
  <2>1. OnWire(g, f, r[f]) # Null
    BY <1>2 DEF OnWire, Word, Null
  <2> QED BY <1>1, <2>1
<1>8. f \in DOMAIN Given(w) /\ Given(w)[f] = OnWire(g, f, r[f])
  <2> HIDE DEF w
  <2> QED BY <1>7, GivenProperties
<1>4. DOMAIN << >> = {}
  OBVIOUS
<1>5. Given(r) # << >>
  BY <1>3, <1>4
<1>6. g \in SentGroups(t)
  BY <1>5 DEF SentGroups, r
<1> QED BY <1>6, <1>8 DEF r

\* Every reading that is set arrives in the one place for it, and none that is not set does.
THEOREM ReadingsAlwaysArrive == Spec => []ReadingsArrive
<1>1. Computed => ReadingsArrive
  <2> SUFFICES ASSUME Computed, Converted("telemetry")
               PROVE  ReadingsArrive
    BY DEF ReadingsArrive
  <2> DEFINE t == input.of
             r == t.readings
             m == output.of
             env == Given(Restrict(r, EnvelopeFields))
             det == Given(Restrict(r, DetailFields[t.of]))
  <2>1. output = [kind |-> "telemetry", of |-> BuildTelemetry(t)]
    BY DEF Computed
  <2>2. t \in Readings
    BY DEF Computed, InputOK, Converted
  <2>3. /\ m.envelope = env /\ m.details = det
        /\ m.groups = [g \in SentGroups(t) |->
                        Given([f \in DOMAIN t.groups[g].fields |-> OnWire(g, f, t.groups[g].fields[f])])]
    BY <2>1 DEF BuildTelemetry
  <2>4. t.of \in {"asset", "sub_asset"} /\ DOMAIN r = EnvelopeFields \cup DetailFields[t.of]
    BY <2>2, ConvertersAssumption DEF IsReading
  <2>5. EnvelopeFields \cap DetailFields[t.of] = {}
    BY <2>4 DEF EnvelopeFields, DetailFields
  <2>6. /\ DOMAIN env = {f \in EnvelopeFields : r[f] # Null} /\ \A f \in DOMAIN env : env[f] = r[f]
        /\ DOMAIN det = {f \in DetailFields[t.of] : r[f] # Null} /\ \A f \in DOMAIN det : det[f] = r[f]
    BY GivenOf
  <2> HIDE DEF env, det, r
  <2>7. ASSUME NEW f \in DOMAIN r
        PROVE  LET places == {p \in {env, det} : f \in DOMAIN p}
               IN  /\ r[f] = Null => places = {}
                   /\ r[f] # Null => \E p \in places : p[f] = r[f]
    BY <2>4, <2>6
  <2>8. DOMAIN env \cap DOMAIN det = {}
    BY <2>5, <2>6
  <2>9. ASSUME NEW g \in Groups[t.of], NEW f \in {"number", "quality"},
               t.groups[g] # Null /\ t.groups[g].fields[f] # Null
        PROVE  g \in DOMAIN m.groups /\ f \in DOMAIN m.groups[g]
                 /\ m.groups[g][f] =
                      IF g = "battery" /\ f = "number" THEN Word("text", t.groups[g].fields[f].word)
                      ELSE t.groups[g].fields[f]
    <3> DEFINE w == [x \in DOMAIN t.groups[g].fields |-> OnWire(g, x, t.groups[g].fields[x])]
    <3>1. /\ g \in SentGroups(t) /\ f \in DOMAIN Given(w)
          /\ Given(w)[f] = OnWire(g, f, t.groups[g].fields[f])
      BY <2>2, <2>9, GroupArrives
    <3>2. g \in DOMAIN m.groups /\ m.groups[g] = Given(w)
      BY <2>3, <3>1
    <3>3. OnWire(g, f, t.groups[g].fields[f]) =
            IF g = "battery" /\ f = "number" THEN Word("text", t.groups[g].fields[f].word)
            ELSE t.groups[g].fields[f]
      BY <2>9 DEF OnWire
    <3> HIDE DEF w
    <3> QED BY <3>1, <3>2, <3>3
  <2> HIDE DEF t, m
  <2>10. /\ \A f \in DOMAIN r :
              LET places == {p \in {m.envelope, m.details} : f \in DOMAIN p}
              IN  /\ r[f] = Null => places = {}
                  /\ r[f] # Null => \E p \in places : p[f] = r[f]
         /\ DOMAIN m.envelope \cap DOMAIN m.details = {}
    BY <2>3, <2>7, <2>8
  <2> QED BY <2>9, <2>10 DEF ReadingsArrive, t, m, r
<1> QED BY Invariance, <1>1, PTL

-----------------------------------------------------------------------------
(***************************************************************************)
(* Texts.                                                                  *)
(***************************************************************************)

\* Every spelling of a field is matched.
LEMMA KeysFold ==
    ASSUME NEW k PROVE FieldOf(k) = k.name
  BY DEF FieldOf, NormKey, Key

\* The pair that counts for a field gives its value.
LEMMA LastCounts ==
    ASSUME NEW pairs, IsPairs(pairs), NEW f, NEW i \in DOMAIN pairs, Says(pairs, f, i)
    PROVE  f \in Keys(pairs) /\ ValueOf(pairs, f) = pairs[i].value
<1> DEFINE S == {k \in DOMAIN pairs : FieldOf(pairs[k].key) = f}
<1>1. f \in Keys(pairs)
  BY KeysFold DEF Says, Keys
<1>2. i \in S /\ \A k \in S : ~(k > i)
  BY KeysFold DEF Says
<1>3. S \subseteq Int
  BY DEF IsPairs
<1> HIDE DEF S
<1>4. \A k \in S : i >= k
  BY <1>2, <1>3
<1>5. \A m \in S : (\A k \in S : m >= k) => m = i
  BY <1>2, <1>3, <1>4
<1>6. Max(S) = i
  BY <1>2, <1>4, <1>5 DEF Max
<1> QED BY <1>1, <1>6 DEF ValueOf, S

LEMMA KeysAreStated ==
    ASSUME NEW pairs, NEW f
    PROVE  f \in Keys(pairs) <=> States(pairs, f)
  BY KeysFold DEF Keys, States

\* What is built has all its fields, and nothing is built without what has no default.
LEMMA BuildProperties ==
    ASSUME NEW cls, NEW pairs, NEW coerced
    PROVE  LET b == Build(cls, pairs, coerced)
           IN  /\ b # Null <=> Buildable(cls, pairs)
               /\ b # Null =>
                     /\ b = Object([f \in Fields[cls] |->
                                      IF f \in Keys(pairs) THEN coerced[f]
                                      ELSE IF f \in Lists THEN List(<<>>) ELSE Null])
                     /\ b.kind = "object" /\ DOMAIN b.fields = Fields[cls]
                     /\ \A f \in Required[cls] : States(pairs, f)
<1> DEFINE r == [f \in Fields[cls] |-> IF f \in Keys(pairs) THEN coerced[f]
                                       ELSE IF f \in Lists THEN List(<<>>) ELSE Null]
<1>1. DOMAIN r = Fields[cls]
  OBVIOUS
<1> HIDE DEF r
<1>2. Object(r) # Null /\ Object(r).kind = "object" /\ Object(r).fields = r
  BY DEF Object, Null
<1>3. Build(cls, pairs, coerced) = IF Buildable(cls, pairs) THEN Object(r) ELSE Null
  BY DEF Build, r
<1>4. Buildable(cls, pairs) => \A f \in Required[cls] : States(pairs, f)
  BY KeysAreStated DEF Buildable
<1> DEFINE b == Build(cls, pairs, coerced)
<1>5. b = IF Buildable(cls, pairs) THEN Object(r) ELSE Null
  BY <1>3
<1> HIDE DEF b
<1>6. /\ b # Null <=> Buildable(cls, pairs)
      /\ b # Null => b = Object(r) /\ b.kind = "object" /\ DOMAIN b.fields = Fields[cls]
                     /\ \A f \in Required[cls] : States(pairs, f)
  BY <1>1, <1>2, <1>4, <1>5
<1> QED BY <1>6 DEF b, r

LEMMA BuiltShape ==
    ASSUME NEW cls, NEW pairs, NEW coerced, Build(cls, pairs, coerced) # Null
    PROVE  /\ Build(cls, pairs, coerced).kind = "object"
           /\ DOMAIN Build(cls, pairs, coerced).fields = Fields[cls]
  BY BuildProperties

LEMMA DispatchKnown ==
    /\ DOMAIN LegacyConfigDispatch \subseteq TaskTypes
    /\ \A w \in DOMAIN LegacyConfigDispatch : LegacyConfigDispatch[w] \in Configs
  BY DEF LegacyConfigDispatch, TaskTypes, Configs

\* The configuration a task gets from its text.
LEMMA LegacyConfig ==
    ASSUME NEW type, NEW json, NEW c \in ParseLegacyConfig(type, json)
    PROVE  /\ json.kind = "dict" /\ c.attr \in Configs
           /\ c.value = BuildConfig(c.attr, json.pairs) /\ c.value # Null
           /\ ParseLegacyConfig(type, json) = {c}
<1> DEFINE attr == LegacyConfigDispatch[type.word]
           obj == BuildConfig(attr, json.pairs)
<1>1. /\ type # Null /\ type.word \in DOMAIN LegacyConfigDispatch /\ json.kind = "dict"
      /\ obj # Null
      /\ ParseLegacyConfig(type, json) = {[attr |-> attr, value |-> obj]}
  BY DEF ParseLegacyConfig
<1>2. attr \in Configs
  BY <1>1, DispatchKnown
<1> HIDE DEF attr
<1>3. c = [attr |-> attr, value |-> obj]
  BY <1>1
<1>4. c.attr = attr /\ c.value = obj
  <2> HIDE DEF obj
  <2> QED BY <1>3
<1> QED BY <1>1, <1>2, <1>3, <1>4

-----------------------------------------------------------------------------
(***************************************************************************)
(* Tasks.                                                                  *)
(***************************************************************************)

LEMMA TaskRead ==
    ASSUME NEW t
    PROVE  /\ ProtoToTask(t).kind \in {"task", "raised"} /\ ProtoToTask(t) # Null
           /\ TaskRaises(t) <=> ProtoToTask(t).kind = "raised"
           /\ ~TaskRaises(t) => ProtoToTask(t).configs = ConfigsOf(t)
<1>1. CASE TaskRaises(t)
  <2>1. ProtoToTask(t) = [kind |-> "raised"]
    BY <1>1 DEF ProtoToTask
  <2> QED BY <1>1, <2>1 DEF Null
<1>2. CASE ~TaskRaises(t)
  <2> DEFINE m == ProtoToTask(t)
             cs == ConfigsOf(t)
             ty == ParseTaskType(t.task_type)
  <2>1. m = [kind |-> "task", task_type |-> ty, configs |-> cs]
    BY <1>2 DEF ProtoToTask
  <2> HIDE DEF m, cs, ty
  <2>2. m.kind = "task" /\ m.configs = cs /\ m # Null
    BY <2>1 DEF Null
  <2> QED BY <1>2, <2>2 DEF m, cs
<1> QED BY <1>1, <1>2

\* A step that reads a task, in terms of its input.
LEMMA TaskOutput ==
    ASSUME Computed, Converted("task")
    PROVE  /\ input.of \in Tasks /\ output.kind \in {"task", "raised"}
           /\ TaskRaises(input.of) <=> output.kind = "raised"
           /\ output.kind = "task" => output.configs = ConfigsOf(input.of)
<1>1. output = ProtoToTask(input.of)
  BY DEF Computed
<1>2. input.of \in Tasks
  BY DEF Computed, InputOK, Converted
<1> DEFINE t == input.of
<1>3. /\ output = ProtoToTask(t) /\ t \in Tasks
      /\ ProtoToTask(t).kind \in {"task", "raised"}
      /\ TaskRaises(t) <=> ProtoToTask(t).kind = "raised"
      /\ ~TaskRaises(t) => ProtoToTask(t).configs = ConfigsOf(t)
  BY <1>1, <1>2, TaskRead
<1> HIDE DEF t
<1>4. /\ t \in Tasks /\ output.kind \in {"task", "raised"}
      /\ TaskRaises(t) <=> output.kind = "raised"
      /\ output.kind = "task" => output.configs = ConfigsOf(t)
  BY <1>3
<1> QED BY <1>4 DEF t

\* The configurations of a task: the oneof's alone if that is set, the text's otherwise.
LEMMA ConfigSource ==
    ASSUME NEW t
    PROVE  /\ t.which # "none" =>
                 ConfigsOf(t) = {[attr |-> t.which, value |-> ReadConfig(t.which, t.typed)]}
           /\ t.which = "none" =>
                 ConfigsOf(t) = ParseLegacyConfig(ParseTaskType(t.task_type), t.config)
  BY DEF ConfigsOf

\* A task has at most one configuration, and if the oneof is set it is the oneof's, whatever text
\* comes with it.
THEOREM AlwaysOneConfig == Spec => []OneConfig
<1>1. ASSUME NEW t
      PROVE  /\ \A c, d \in ConfigsOf(t) : c = d
             /\ t.which # "none" => \A c \in ConfigsOf(t) : c.attr = t.which
  <2> DEFINE w == t.which
             v == ReadConfig(t.which, t.typed)
             cs == ConfigsOf(t)
  <2>1. CASE w # "none"
    <3>1. cs = {[attr |-> w, value |-> v]}
      BY <2>1, ConfigSource
    <3> HIDE DEF w, v, cs
    <3>2. \A c \in cs : c.attr = w
      BY <3>1
    <3> QED BY <3>1, <3>2 DEF w, cs
  <2>2. CASE w = "none"
    <3>1. ConfigsOf(t) = ParseLegacyConfig(ParseTaskType(t.task_type), t.config)
      BY <2>2, ConfigSource
    <3>2. ASSUME NEW c \in ConfigsOf(t) PROVE ConfigsOf(t) = {c}
      BY <3>1, LegacyConfig
    <3> QED BY <2>2, <3>2
  <2> QED BY <2>1, <2>2
<1>2. Computed => OneConfig
  <2> SUFFICES ASSUME Computed, Converted("task"), output.kind = "task"
               PROVE  /\ \A c, d \in output.configs : c = d
                      /\ input.of.which # "none" =>
                            \A c \in output.configs : c.attr = input.of.which
    BY DEF OneConfig
  <2>1. output.configs = ConfigsOf(input.of)
    BY TaskOutput
  <2> QED BY <1>1, <2>1
<1> QED BY Invariance, <1>2, PTL

\* A configuration is one of the task's kinds, with all the fields of its kind.
LEMMA ConfigShape ==
    ASSUME NEW t \in Tasks, NEW c \in ConfigsOf(t)
    PROVE  c.attr \in Configs /\ c.value.kind = "object" /\ DOMAIN c.value.fields = Fields[c.attr]
<1>1. CASE t.which # "none"
  <2> DEFINE w == t.which
             r == [f \in Fields[w] |->
                     IF f \in ObjectLists
                       THEN List([i \in DOMAIN t.typed[f].items |-> ReadElement(f, t.typed[f].items[i].fields)])
                       ELSE t.typed[f]]
  <2>1. w \in Configs
    BY <1>1, ConvertersAssumption
  <2>2. ConfigsOf(t) = {[attr |-> w, value |-> Object(r)]}
    BY <1>1, ConfigSource DEF ReadConfig
  <2>3. DOMAIN r = Fields[w]
    OBVIOUS
  <2> HIDE DEF w, r
  <2>4. c = [attr |-> w, value |-> [kind |-> "object", fields |-> r]]
    BY <2>2 DEF Object
  <2>5. c.attr = w /\ c.value = [kind |-> "object", fields |-> r]
    BY <2>4
  <2>6. c.value.kind = "object" /\ c.value.fields = r
    BY <2>5
  <2> QED BY <2>1, <2>3, <2>5, <2>6
<1>2. CASE t.which = "none"
  <2> DEFINE json == t.config
             pairs == json.pairs
             coerced == [f \in Keys(pairs) |-> CoerceValue(f, ValueOf(pairs, f))]
  <2>1. c \in ParseLegacyConfig(ParseTaskType(t.task_type), json)
    BY <1>2, ConfigSource
  <2>2. c.attr \in Configs /\ c.value = BuildConfig(c.attr, pairs) /\ c.value # Null
    BY <2>1, LegacyConfig
  <2>3. BuildConfig(c.attr, pairs) = Build(c.attr, pairs, coerced)
    BY DEF BuildConfig
  <2> DEFINE a == c.attr
             b == Build(a, pairs, coerced)
  <2>4. c.attr \in Configs /\ c.value = b /\ b # Null /\ a = c.attr
    BY <2>2, <2>3
  <2>5. b.kind = "object" /\ DOMAIN b.fields = Fields[a]
    BY <2>4, BuiltShape
  <2> HIDE DEF b
  <2> QED BY <2>4, <2>5
<1> QED BY <1>1, <1>2

\* Every output has its shape; a configuration has all the fields of its kind, and an asset that
\* is read all its optional fields.
THEOREM TypeCorrect == Spec => []TypeOK
<1>1. Computed => TypeOK
  <2> SUFFICES ASSUME Computed PROVE TypeOK
    OBVIOUS
  <2>1. input.kind \in {"task", "asset", "listed", "execution", "telemetry"}
    BY DEF Computed, InputOK
  <2>2. Converted("task") => output.kind \in {"task", "raised"}
    BY TaskOutput
  <2>3. ASSUME Converted("task"), output.kind = "task", NEW c \in output.configs
        PROVE  c.attr \in Configs /\ c.value.kind = "object" /\ DOMAIN c.value.fields = Fields[c.attr]
    <3>1. input.of \in Tasks /\ c \in ConfigsOf(input.of)
      BY <2>3, TaskOutput
    <3> QED BY <3>1, ConfigShape
  <2>4. ASSUME Converted("listed")
        PROVE  DOMAIN output.back.optional = AssetOptionals \cup {"created_at"}
    <3>1. output = [kind |-> "asset", back |-> ProtoToAsset(input.of)]
      BY <2>4 DEF Computed
    <3> DEFINE opt == [f \in AssetOptionals \cup {"created_at"} |->
                         IF f = "created_at" THEN Null ELSE Opt(input.of.optional, f)]
    <3>2. DOMAIN opt = AssetOptionals \cup {"created_at"}
      OBVIOUS
    <3>3. ProtoToAsset(input.of).optional = opt
      BY DEF ProtoToAsset
    <3> HIDE DEF opt
    <3>4. output.back.optional = opt
      BY <3>1, <3>3
    <3> QED BY <3>2, <3>4
  <2> QED BY <2>1, <2>2, <2>3, <2>4 DEF TypeOK
<1> QED BY Invariance, <1>1, PTL

\* What a text's list of objects becomes.
LEMMA ListRead ==
    ASSUME NEW attr \in Configs, NEW pairs, IsPairs(pairs), BuildConfig(attr, pairs) # Null,
           NEW l \in ObjectLists \cap Fields[attr], NEW i \in DOMAIN pairs, Says(pairs, l, i),
           pairs[i].value.kind = "list"
    PROVE  BuildConfig(attr, pairs).fields[l].items =
             [j \in DOMAIN pairs[i].value.items |->
                IF pairs[i].value.items[j].kind = "dict" THEN BuildElement(l, pairs[i].value.items[j].pairs)
                ELSE pairs[i].value.items[j]]
<1> DEFINE coerced == [f \in Keys(pairs) |-> CoerceValue(f, ValueOf(pairs, f))]
           v == pairs[i].value
           read == [j \in DOMAIN v.items |->
                      IF v.items[j].kind = "dict" THEN BuildElement(l, v.items[j].pairs) ELSE v.items[j]]
           b == BuildConfig(attr, pairs)
           r == [f \in Fields[attr] |-> IF f \in Keys(pairs) THEN coerced[f]
                                        ELSE IF f \in Lists THEN List(<<>>) ELSE Null]
<1>1. l \in Keys(pairs) /\ ValueOf(pairs, l) = v
  BY LastCounts
<1>2. CoerceValue(l, v) = List(read)
  BY DEF CoerceValue
<1>3. coerced[l] = CoerceValue(l, v)
  BY <1>1
<1>4. b = Build(attr, pairs, coerced)
  BY DEF BuildConfig
<1>5. r[l] = coerced[l]
  BY <1>1
<1> HIDE DEF coerced
<1>6. b = Object(r)
  BY <1>4, BuildProperties
<1> HIDE DEF b, r, read
<1>7. b.fields = r /\ List(read).items = read
  BY <1>6 DEF Object, List
<1>8. b.fields[l].items = read
  BY <1>2, <1>3, <1>5, <1>7
<1> QED BY <1>8 DEF b, read

\* No configuration and no element of one is built from a text that has nothing for a field
\* without a default, however the text is ordered and whatever it repeats.
THEOREM NeverPartial == Spec => []NoPartialConfig
<1>1. ASSUME NEW t \in Tasks, t.which = "none", NEW c \in ConfigsOf(t)
      PROVE  /\ \A f \in Required[c.attr] : States(t.config.pairs, f)
             /\ \A l \in ObjectLists \cap Fields[c.attr], i \in DOMAIN t.config.pairs :
                   Says(t.config.pairs, l, i) /\ t.config.pairs[i].value.kind = "list" =>
                       \A j \in DOMAIN t.config.pairs[i].value.items :
                           c.value.fields[l].items[j].kind = "object" =>
                               \A f \in Required[l] : States(t.config.pairs[i].value.items[j].pairs, f)
  <2> DEFINE pairs == t.config.pairs
             coerced == [f \in Keys(pairs) |-> CoerceValue(f, ValueOf(pairs, f))]
  <2>1. /\ t.config.kind = "dict" /\ c.attr \in Configs
        /\ c.value = BuildConfig(c.attr, pairs) /\ c.value # Null
    BY <1>1, ConfigSource, LegacyConfig
  <2>2. /\ IsPairs(pairs)
        /\ \A i \in DOMAIN pairs :
              pairs[i].value.kind = "list" =>
                  \A j \in DOMAIN pairs[i].value.items : pairs[i].value.items[j].kind # "object"
    BY <2>1, ConvertersAssumption DEF IsText
  <2>3. BuildConfig(c.attr, pairs) = Build(c.attr, pairs, coerced)
    BY DEF BuildConfig
  <2> HIDE DEF coerced, pairs
  <2>4. \A f \in Required[c.attr] : States(pairs, f)
    BY <2>1, <2>3, BuildProperties
  <2>5. ASSUME NEW l \in ObjectLists \cap Fields[c.attr], NEW i \in DOMAIN pairs, Says(pairs, l, i),
               pairs[i].value.kind = "list", NEW j \in DOMAIN pairs[i].value.items,
               c.value.fields[l].items[j].kind = "object", NEW f \in Required[l]
        PROVE  States(pairs[i].value.items[j].pairs, f)
    <3> DEFINE w == pairs[i].value.items[j]
               inner == [g \in Keys(w.pairs) |-> CoerceField(g, ValueOf(w.pairs, g))]
    <3>1. c.value.fields[l].items =
            [k \in DOMAIN pairs[i].value.items |->
               IF pairs[i].value.items[k].kind = "dict" THEN BuildElement(l, pairs[i].value.items[k].pairs)
               ELSE pairs[i].value.items[k]]
      BY <2>1, <2>2, <2>5, ListRead
    <3>2. c.value.fields[l].items[j] = IF w.kind = "dict" THEN BuildElement(l, w.pairs) ELSE w
      BY <2>5, <3>1
    <3>3. w.kind # "object"
      BY <2>2, <2>5
    <3>4. BuildElement(l, w.pairs).kind = "object"
      BY <2>5, <3>2, <3>3
    <3>5. BuildElement(l, w.pairs) = Build(l, w.pairs, inner)
      BY DEF BuildElement
    <3>6. BuildElement(l, w.pairs) # Null
      BY <3>4 DEF Null
    <3> HIDE DEF w, inner
    <3>7. States(w.pairs, f)
      BY <2>5, <3>5, <3>6, BuildProperties
    <3> QED BY <3>7 DEF w
  <2> QED BY <2>4, <2>5 DEF pairs
<1>2. Computed => NoPartialConfig
  <2> SUFFICES ASSUME Computed, Converted("task"), output.kind = "task", input.of.which = "none"
               PROVE  NoPartialConfig
    BY DEF NoPartialConfig
  <2>1. output.configs = ConfigsOf(input.of) /\ input.of \in Tasks
    BY TaskOutput
  <2> DEFINE t == input.of
  <2>2. /\ t \in Tasks /\ t.which = "none" /\ output.configs = ConfigsOf(t)
    BY <2>1
  <2> HIDE DEF t
  <2>3. \A c \in output.configs :
          /\ \A f \in Required[c.attr] : States(t.config.pairs, f)
          /\ \A l \in ObjectLists \cap Fields[c.attr], i \in DOMAIN t.config.pairs :
                Says(t.config.pairs, l, i) /\ t.config.pairs[i].value.kind = "list" =>
                    \A j \in DOMAIN t.config.pairs[i].value.items :
                        c.value.fields[l].items[j].kind = "object" =>
                            \A f \in Required[l] : States(t.config.pairs[i].value.items[j].pairs, f)
    BY <1>1, <2>2
  <2> QED BY <2>3 DEF NoPartialConfig, t
<1> QED BY Invariance, <1>2, PTL

-----------------------------------------------------------------------------
(***************************************************************************)
(* Assets.                                                                 *)
(***************************************************************************)

LEMMA ReadKnown ==
    ASSUME NEW e, KnownEnums(e)
    PROVE  ReadEnums(e) = e
  BY DEF KnownEnums, ReadEnums, ParseEnum

\* The optional fields as they are read of a message, with the platform's time stamp left out.
ReadOptionals(o, S) == [f \in S \cup {"created_at"} |-> IF f = "created_at" THEN Null ELSE Opt(o, f)]

\* What is set of a record arrives, and what is None is read as None.
LEMMA OptionalsReturn ==
    ASSUME NEW o, NEW S, "created_at" \notin S, IsFunctionOn(o, S \cup {"created_at"})
    PROVE  ReadOptionals(Given(Restrict(o, S)), S) = [o EXCEPT !.created_at = Null]
<1> DEFINE g == Given(Restrict(o, S))
           D == S \cup {"created_at"}
<1>1. DOMAIN g = {f \in S : o[f] # Null} /\ \A f \in DOMAIN g : g[f] = o[f]
  BY GivenOf
<1> HIDE DEF g
<1>2. \A f \in S : Opt(g, f) = o[f]
  BY <1>1 DEF Opt
<1>3. o = [f \in D |-> o[f]]
  BY DEF IsFunctionOn
<1>4. [o EXCEPT !.created_at = Null] = [f \in D |-> IF f = "created_at" THEN Null ELSE o[f]]
  BY <1>3
<1>5. ReadOptionals(g, S) = [f \in D |-> IF f = "created_at" THEN Null ELSE o[f]]
  BY <1>2 DEF ReadOptionals
<1> QED BY <1>4, <1>5 DEF g

\* What a message has set is sent again as it was read.
LEMMA OptionalsStay ==
    ASSUME NEW o, NEW S, "created_at" \notin S, IsSet(o, S)
    PROVE  Given(Restrict(ReadOptionals(o, S), S)) = o
<1> DEFINE q == ReadOptionals(o, S)
           g == Given(Restrict(q, S))
<1>1. \A f \in S : q[f] = Opt(o, f)
  BY DEF ReadOptionals
<1> HIDE DEF q
<1>2. DOMAIN g = {f \in S : q[f] # Null} /\ \A f \in DOMAIN g : g[f] = q[f]
  BY GivenOf
<1>3. DOMAIN o \subseteq S /\ o = [f \in DOMAIN o |-> o[f]]
  BY DEF IsSet, IsFunctionOn
<1>4. \A f \in DOMAIN o : o[f] # Null
  BY DEF IsSet
<1>5. DOMAIN g = DOMAIN o
  BY <1>1, <1>2, <1>3, <1>4 DEF Opt
<1>6. \A f \in DOMAIN g : g[f] = o[f]
  BY <1>1, <1>2, <1>3, <1>5 DEF Opt
<1>7. g = [f \in DOMAIN g |-> g[f]]
  BY DEF Given, Restrict
<1> HIDE DEF g
<1>8. g = o
  BY <1>3, <1>5, <1>6, <1>7
<1> QED BY <1>8 DEF g, q

LEMMA SubAssetReturns ==
    ASSUME NEW s, IsSubAsset(s)
    PROVE  ProtoToSubAsset(SubAssetToProto(s)) = Unstamped(s)
<1> DEFINE e == s.enums
           p == s.plain
           o == s.optional
           g == Given(Restrict(o, SubAssetOptionals))
           m == SubAssetToProto(s)
<1>1. s = [enums |-> e, plain |-> p, optional |-> o] /\ KnownEnums(e)
        /\ IsFunctionOn(o, SubAssetOptionals \cup {"created_at"})
  BY DEF IsSubAsset
<1>2. m = [enums |-> e, plain |-> p, optional |-> g]
  BY DEF SubAssetToProto
<1>3. ProtoToSubAsset(m) = [enums |-> ReadEnums(m.enums), plain |-> m.plain,
                            optional |-> ReadOptionals(m.optional, SubAssetOptionals)]
  BY DEF ProtoToSubAsset, ReadOptionals
<1>4. "created_at" \notin SubAssetOptionals
  BY DEF SubAssetOptionals
<1>5. ReadOptionals(g, SubAssetOptionals) = [o EXCEPT !.created_at = Null]
  BY <1>1, <1>4, OptionalsReturn
<1>6. ReadEnums(e) = e
  BY <1>1, ReadKnown
<1> DEFINE u == [o EXCEPT !.created_at = Null]
<1>7. Unstamped(s) = [s EXCEPT !.optional = u]
  BY <1>1 DEF Unstamped
<1> HIDE DEF e, p, o, g, m, u
<1>8. m.enums = e /\ m.plain = p /\ m.optional = g
  BY <1>2
<1>9. ProtoToSubAsset(m) = [enums |-> e, plain |-> p, optional |-> u]
  BY <1>3, <1>5, <1>6, <1>8 DEF u
<1>10. [s EXCEPT !.optional = u] = [enums |-> e, plain |-> p, optional |-> u]
  BY <1>1
<1> QED BY <1>7, <1>9, <1>10 DEF m

LEMMA SubAssetStays ==
    ASSUME NEW n, n = [enums |-> n.enums, plain |-> n.plain, optional |-> n.optional],
           IsSet(n.optional, SubAssetOptionals), ProtoToSubAsset(n).enums = n.enums
    PROVE  SubAssetToProto(ProtoToSubAsset(n)) = n
<1> DEFINE e == n.enums
           p == n.plain
           o == n.optional
           q == ReadOptionals(o, SubAssetOptionals)
           s == ProtoToSubAsset(n)
<1>1. s.enums = e
  OBVIOUS
<1>2. s = [enums |-> ReadEnums(e), plain |-> p, optional |-> q]
  BY DEF ProtoToSubAsset, ReadOptionals
<1>3. SubAssetToProto(s) = [enums |-> s.enums, plain |-> s.plain,
                            optional |-> Given(Restrict(s.optional, SubAssetOptionals))]
  BY DEF SubAssetToProto
<1>4. "created_at" \notin SubAssetOptionals
  BY DEF SubAssetOptionals
<1>5. Given(Restrict(q, SubAssetOptionals)) = o
  BY <1>4, OptionalsStay
<1>6. n = [enums |-> e, plain |-> p, optional |-> o]
  OBVIOUS
<1> HIDE DEF e, p, o, q, s
<1>7. s.plain = p /\ s.optional = q
  BY <1>2
<1> QED BY <1>1, <1>3, <1>5, <1>6, <1>7 DEF s

LEMMA AssetReturns ==
    ASSUME NEW a, IsAsset(a)
    PROVE  ProtoToAsset(AssetToProto(a)) =
             [Unstamped(a) EXCEPT !.sub_assets = [i \in DOMAIN @ |-> Unstamped(@[i])]]
<1> DEFINE e == a.enums
           p == a.plain
           o == a.optional
           z == a.sub_assets
           g == Given(Restrict(o, AssetOptionals))
           y == [i \in DOMAIN z |-> SubAssetToProto(z[i])]
           x == [i \in DOMAIN z |-> Unstamped(z[i])]
           u == [o EXCEPT !.created_at = Null]
           m == AssetToProto(a)
<1>1. /\ a = [enums |-> e, plain |-> p, optional |-> o, sub_assets |-> z] /\ KnownEnums(e)
      /\ IsFunctionOn(o, AssetOptionals \cup {"created_at"})
      /\ \A i \in DOMAIN z : IsSubAsset(z[i])
  BY DEF IsAsset
<1>2. m = [enums |-> e, plain |-> p, optional |-> g, sub_assets |-> y]
  BY DEF AssetToProto
<1>3. ProtoToAsset(m) = [enums |-> ReadEnums(m.enums), plain |-> m.plain,
                         optional |-> ReadOptionals(m.optional, AssetOptionals),
                         sub_assets |-> [i \in DOMAIN m.sub_assets |-> ProtoToSubAsset(m.sub_assets[i])]]
  BY DEF ProtoToAsset, ReadOptionals
<1>4. "created_at" \notin AssetOptionals
  BY DEF AssetOptionals, SubAssetOptionals
<1>5. ReadOptionals(g, AssetOptionals) = u
  BY <1>1, <1>4, OptionalsReturn
<1>6. ReadEnums(e) = e
  BY <1>1, ReadKnown
<1>7. Unstamped(a) = [a EXCEPT !.optional = u]
  BY <1>1 DEF Unstamped
<1>8. [i \in DOMAIN y |-> ProtoToSubAsset(y[i])] = x
  BY <1>1, SubAssetReturns
<1> DEFINE v == Unstamped(a)
<1>9. [v EXCEPT !.sub_assets = [i \in DOMAIN @ |-> Unstamped(@[i])]]
        = [v EXCEPT !.sub_assets = [i \in DOMAIN v.sub_assets |-> Unstamped(v.sub_assets[i])]]
  OBVIOUS
<1> HIDE DEF e, p, o, g, m, u, y, v
<1>10. v = [enums |-> e, plain |-> p, optional |-> u, sub_assets |-> z]
  <2> HIDE DEF z, x
  <2>1. v = [a EXCEPT !.optional = u]
    BY <1>7 DEF v
  <2> QED BY <1>1, <2>1
<1>11. v.sub_assets = z
  <2> HIDE DEF z, x
  <2> QED BY <1>10
<1>12. [i \in DOMAIN v.sub_assets |-> Unstamped(v.sub_assets[i])] = x
  BY <1>11
<1> HIDE DEF z, x
<1>13. [v EXCEPT !.sub_assets = x] = [enums |-> e, plain |-> p, optional |-> u, sub_assets |-> x]
  BY <1>10
<1>14. m.enums = e /\ m.plain = p /\ m.optional = g /\ m.sub_assets = y
  BY <1>2
<1>15. ProtoToAsset(m) = [enums |-> e, plain |-> p, optional |-> u, sub_assets |-> x]
  BY <1>3, <1>5, <1>6, <1>8, <1>14
<1> QED BY <1>9, <1>12, <1>13, <1>15 DEF m, v

LEMMA AssetStays ==
    ASSUME NEW m, IsListed(m), ProtoToAsset(m).enums = m.enums,
           \A i \in DOMAIN m.sub_assets : ProtoToAsset(m).sub_assets[i].enums = m.sub_assets[i].enums
    PROVE  AssetToProto(ProtoToAsset(m)) = m
<1> DEFINE e == m.enums
           p == m.plain
           o == m.optional
           z == m.sub_assets
           q == ReadOptionals(o, AssetOptionals)
           y == [i \in DOMAIN z |-> ProtoToSubAsset(z[i])]
           a == ProtoToAsset(m)
<1>1. /\ m = [enums |-> e, plain |-> p, optional |-> o, sub_assets |-> z]
      /\ IsSet(o, AssetOptionals) /\ z = [i \in DOMAIN z |-> z[i]]
      /\ \A i \in DOMAIN z :
            /\ z[i] = [enums |-> z[i].enums, plain |-> z[i].plain, optional |-> z[i].optional]
            /\ IsSet(z[i].optional, SubAssetOptionals)
  BY DEF IsListed, IsFunctionOn
<1>2. a = [enums |-> ReadEnums(e), plain |-> p, optional |-> q, sub_assets |-> y]
  BY DEF ProtoToAsset, ReadOptionals
<1>3. a.enums = e /\ \A i \in DOMAIN z : a.sub_assets[i].enums = z[i].enums
  OBVIOUS
<1>4. a.plain = p /\ a.optional = q /\ a.sub_assets = y
  <2> HIDE DEF e, p, o, q, z, y, a
  <2> QED BY <1>2
<1>5. AssetToProto(a) = [enums |-> a.enums, plain |-> a.plain,
                         optional |-> Given(Restrict(a.optional, AssetOptionals)),
                         sub_assets |-> [i \in DOMAIN a.sub_assets |-> SubAssetToProto(a.sub_assets[i])]]
  BY DEF AssetToProto
<1>6. "created_at" \notin AssetOptionals
  BY DEF AssetOptionals, SubAssetOptionals
<1>7. Given(Restrict(q, AssetOptionals)) = o
  BY <1>1, <1>6, OptionalsStay
<1>8. \A i \in DOMAIN z : SubAssetToProto(y[i]) = z[i]
  <2> SUFFICES ASSUME NEW i \in DOMAIN z PROVE SubAssetToProto(ProtoToSubAsset(z[i])) = z[i]
    OBVIOUS
  <2> DEFINE n == z[i]
  <2>1. /\ n = [enums |-> n.enums, plain |-> n.plain, optional |-> n.optional]
        /\ IsSet(n.optional, SubAssetOptionals)
    BY <1>1
  <2>2. ProtoToSubAsset(n).enums = n.enums
    <3>1. a.sub_assets[i].enums = z[i].enums
      BY <1>3
    <3> HIDE DEF a
    <3>2. a.sub_assets[i] = ProtoToSubAsset(z[i])
      BY <1>4
    <3> QED BY <3>1, <3>2
  <2> HIDE DEF n
  <2>3. SubAssetToProto(ProtoToSubAsset(n)) = n
    BY <2>1, <2>2, SubAssetStays
  <2> QED BY <2>3 DEF n
<1>9. [i \in DOMAIN y |-> SubAssetToProto(y[i])] = z
  BY <1>1, <1>8
<1> HIDE DEF e, p, o, q, z, y, a
<1>10. AssetToProto(a) = m
  BY <1>1, <1>3, <1>4, <1>5, <1>7, <1>9
<1> QED BY <1>10 DEF a

\* An asset comes back as it was sent, but for the platform's time stamps, and one of the platform
\* that names no unknown type, vendor or connection is sent back as it was read.
THEOREM AssetAlwaysSurvives == Spec => []AssetSurvives
<1>1. Computed => AssetSurvives
  <2> SUFFICES ASSUME Computed PROVE AssetSurvives
    OBVIOUS
  <2> DEFINE a == input.of
             sent == AssetToProto(a)
             read == ProtoToAsset(a)
             same == [Unstamped(a) EXCEPT !.sub_assets = [i \in DOMAIN @ |-> Unstamped(@[i])]]
  <2>1. ASSUME Converted("asset") PROVE output.back = same
    <3>1. output = [kind |-> "sent", proto |-> sent, back |-> ProtoToAsset(sent)]
      BY <2>1 DEF Computed
    <3>2. a \in Assets
      BY <2>1 DEF Computed, InputOK, Converted
    <3>3. IsAsset(a)
      BY <3>2, ConvertersAssumption
    <3> HIDE DEF a
    <3>4. ProtoToAsset(sent) = same
      BY <3>3, AssetReturns
    <3> HIDE DEF sent, same
    <3> QED BY <3>1, <3>4
  <2>2. ASSUME Converted("listed"), output.back.enums = a.enums,
               \A i \in DOMAIN a.sub_assets : output.back.sub_assets[i].enums = a.sub_assets[i].enums
        PROVE  AssetToProto(output.back) = a
    <3>1. output = [kind |-> "asset", back |-> read]
      BY <2>2 DEF Computed
    <3>2. a \in Listed
      BY <2>2 DEF Computed, InputOK, Converted
    <3>3. IsListed(a)
      BY <3>2, ConvertersAssumption
    <3> HIDE DEF a, read
    <3>4. output.back = read
      BY <3>1
    <3>5. AssetToProto(read) = a
      BY <2>2, <3>3, <3>4, AssetStays DEF read
    <3> QED BY <3>4, <3>5
  <2> QED BY <2>1, <2>2 DEF AssetSurvives
<1> QED BY Invariance, <1>1, PTL

-----------------------------------------------------------------------------
(***************************************************************************)
(* What the writer of a task meant.                                        *)
(***************************************************************************)

LEMMA ElementCarried ==
    ASSUME NEW l, NEW e, NEW v, IsObject(v, l), DOMAIN e = Fields[l],
           \A g \in Fields[l] : Spells(g, e[g], v.fields[g], {"number"})
    PROVE  ReadElement(l, e) = v /\ ~WaypointRaises(e)
<1> DEFINE r == v.fields
<1>1. v = Object(r) /\ r = [f \in Fields[l] |-> r[f]]
  BY DEF IsObject, IsFunctionOn
<1> HIDE DEF r
<1>2. ASSUME "vehicle_action" \in Fields[l], e["vehicle_action"] # Null
      PROVE  /\ Word("action", e["vehicle_action"].word) = r["vehicle_action"]
             /\ e["vehicle_action"].word \in VehicleActions
  <2> DEFINE w == e["vehicle_action"]
             x == r["vehicle_action"]
  <2>1. Spells("vehicle_action", w, x, {"number"})
    BY <1>2 DEF r
  <2>2. w # Null
    BY <1>2
  <2> HIDE DEF w, x
  <2>3. x # Null /\ x = Word("action", x.word) /\ x.word \in VehicleActions
          /\ w = Word("number", x.word)
    BY <2>1, <2>2 DEF Spells
  <2>4. w.word = x.word
    BY <2>3 DEF Word
  <2> QED BY <2>3, <2>4 DEF w, x
<1>3. ASSUME NEW f \in Fields[l]
      PROVE  (IF f = "vehicle_action" /\ e[f] # Null THEN Word("action", e[f].word) ELSE e[f]) = r[f]
  <2>1. CASE f = "vehicle_action"
    <3>1. CASE e[f] # Null
      BY <1>2, <2>1, <3>1
    <3>2. CASE e[f] = Null
      <4>1. Spells("vehicle_action", e[f], r[f], {"number"})
        BY <2>1 DEF r
      <4>2. \A z : Word("number", z) # Null
        BY DEF Word, Null
      <4>3. r[f] = Null
        BY <3>2, <4>1, <4>2 DEF Spells
      <4> QED BY <3>2, <4>3
    <3> QED BY <3>1, <3>2
  <2>2. CASE f # "vehicle_action"
    <3>1. Spells(f, e[f], r[f], {"number"})
      BY DEF r
    <3>2. e[f] = r[f]
      BY <2>2, <3>1 DEF Spells
    <3> QED BY <2>2, <3>2
  <2> QED BY <2>1, <2>2
<1>4. ReadElement(l, e) = Object([f \in Fields[l] |-> r[f]])
  BY <1>3 DEF ReadElement
<1>5. ~WaypointRaises(e)
  BY <1>2 DEF WaypointRaises
<1> QED BY <1>1, <1>4, <1>5

LEMMA TypedRead ==
    ASSUME NEW attr, NEW m, NEW v, IsObject(v, attr), Carries(m, v.fields, attr)
    PROVE  ReadConfig(attr, m) = v /\ ~ReadRaises(attr, m)
<1> DEFINE r == v.fields
<1>1. v = Object(r) /\ r = [f \in Fields[attr] |-> r[f]]
  BY DEF IsObject, IsFunctionOn
<1> HIDE DEF r
<1>2. Carries(m, r, attr)
  BY DEF r
<1>3. ASSUME NEW f \in Fields[attr], f \in ObjectLists, NEW j \in DOMAIN m[f].items
      PROVE  ReadElement(f, m[f].items[j].fields) = r[f].items[j]
               /\ ~WaypointRaises(m[f].items[j].fields)
  <2> DEFINE e == m[f].items[j].fields
             x == r[f].items[j]
  <2>1. /\ IsObject(x, f) /\ DOMAIN e = Fields[f]
        /\ \A g \in Fields[f] : Spells(g, e[g], x.fields[g], {"number"})
    BY <1>2, <1>3 DEF Carries, IsObjectList
  <2> HIDE DEF e, x
  <2>2. ReadElement(f, e) = x /\ ~WaypointRaises(e)
    BY <2>1, ElementCarried
  <2> QED BY <2>2 DEF e, x
<1>4. ASSUME NEW f \in Fields[attr]
      PROVE  (IF f \in ObjectLists
                THEN List([i \in DOMAIN m[f].items |-> ReadElement(f, m[f].items[i].fields)])
                ELSE m[f]) = r[f]
  <2>1. CASE f \in ObjectLists
    <3>1. r[f] = List([j \in DOMAIN m[f].items |-> r[f].items[j]])
      BY <1>2, <2>1 DEF Carries, IsObjectList
    <3>2. [i \in DOMAIN m[f].items |-> ReadElement(f, m[f].items[i].fields)]
            = [j \in DOMAIN m[f].items |-> r[f].items[j]]
      BY <1>3, <2>1
    <3> QED BY <2>1, <3>1, <3>2
  <2>2. CASE f \notin ObjectLists
    BY <1>2, <2>2 DEF Carries
  <2> QED BY <2>1, <2>2
<1>5. ReadConfig(attr, m) = Object([f \in Fields[attr] |-> r[f]])
  BY <1>4 DEF ReadConfig
<1>6. ~ReadRaises(attr, m)
  BY <1>3 DEF ReadRaises
<1> QED BY <1>1, <1>5, <1>6

LEMMA RequiredAreFields ==
    ASSUME NEW cls \in Configs \cup ObjectLists
    PROVE  Required[cls] \subseteq Fields[cls]
  BY DEF Configs, ObjectLists, Required, Fields

\* A text that covers an object, and whose values are read as the object's, builds that object.
LEMMA BuiltAsWritten ==
    ASSUME NEW cls \in Configs \cup ObjectLists, NEW pairs, IsPairs(pairs), NEW v, IsObject(v, cls),
           Covers(pairs, v.fields, cls), NEW coerced,
           \A f \in Fields[cls], i \in DOMAIN pairs : Says(pairs, f, i) => coerced[f] = v.fields[f]
    PROVE  Build(cls, pairs, coerced) = v
<1> DEFINE r == v.fields
<1>1. v = Object(r) /\ r = [f \in Fields[cls] |-> r[f]]
  BY DEF IsObject, IsFunctionOn
<1> HIDE DEF r
<1>2. ASSUME NEW f \in Fields[cls]
      PROVE  \/ f \in Keys(pairs) /\ coerced[f] = r[f]
             \/ f \notin Keys(pairs) /\ f \notin Required[cls]
                  /\ r[f] = IF f \in Lists THEN List(<<>>) ELSE Null
  <2>1. \/ \E i \in DOMAIN pairs : Says(pairs, f, i)
        \/ ~States(pairs, f) /\ f \notin Required[cls] /\ r[f] = IF f \in Lists THEN List(<<>>) ELSE Null
    BY DEF Covers, r
  <2>2. ASSUME NEW i \in DOMAIN pairs, Says(pairs, f, i)
        PROVE  f \in Keys(pairs) /\ coerced[f] = r[f]
    <3>1. f \in Keys(pairs)
      BY <2>2, LastCounts
    <3>2. coerced[f] = r[f]
      BY <2>2 DEF r
    <3> QED BY <3>1, <3>2
  <2> QED BY <2>1, <2>2, KeysAreStated
<1>3. Buildable(cls, pairs)
  BY <1>2, RequiredAreFields DEF Buildable
<1>4. [f \in Fields[cls] |-> IF f \in Keys(pairs) THEN coerced[f]
                             ELSE IF f \in Lists THEN List(<<>>) ELSE Null]
        = [f \in Fields[cls] |-> r[f]]
  BY <1>2
<1> QED BY <1>1, <1>3, <1>4 DEF Build

LEMMA SpeltRead ==
    ASSUME NEW f, NEW w, NEW v, Spells(f, w, v, {"name", "number", "numeral"})
    PROVE  CoerceField(f, w) = v
<1>1. CASE f = "vehicle_action" /\ v # Null
  <2>1. v = Word("action", v.word) /\ v.word \in VehicleActions
    BY <1>1 DEF Spells
  <2>2. PICK x \in {"name", "number", "numeral"} : w = Word(x, v.word)
    BY <1>1 DEF Spells
  <2>3. w.kind = x /\ w.word = v.word /\ w # Null
    BY <2>2 DEF Word, Null
  <2>4. CoerceEnum(w) = Word("action", v.word)
    BY <2>1, <2>3 DEF CoerceEnum
  <2> QED BY <1>1, <2>1, <2>3, <2>4 DEF CoerceField
<1>2. CASE ~(f = "vehicle_action" /\ v # Null)
  <2>1. w = v
    BY <1>2 DEF Spells
  <2> QED BY <1>2, <2>1 DEF CoerceField
<1> QED BY <1>1, <1>2

LEMMA ElementWritten ==
    ASSUME NEW l \in ObjectLists, NEW pairs, IsPairs(pairs), NEW v, IsObject(v, l),
           WritesElement(pairs, v.fields, l)
    PROVE  BuildElement(l, pairs) = v
<1> DEFINE coerced == [f \in Keys(pairs) |-> CoerceField(f, ValueOf(pairs, f))]
<1>1. ASSUME NEW f \in Fields[l], NEW i \in DOMAIN pairs, Says(pairs, f, i)
      PROVE  coerced[f] = v.fields[f]
  <2>1. f \in Keys(pairs) /\ ValueOf(pairs, f) = pairs[i].value
    BY <1>1, LastCounts
  <2>2. CoerceField(f, pairs[i].value) = v.fields[f]
    BY <1>1, SpeltRead DEF WritesElement
  <2> QED BY <2>1, <2>2
<1>2. Covers(pairs, v.fields, l)
  BY DEF WritesElement
<1> HIDE DEF coerced
<1>3. Build(l, pairs, coerced) = v
  BY <1>1, <1>2, BuiltAsWritten
<1> QED BY <1>3 DEF BuildElement, coerced

LEMMA ConfigWritten ==
    ASSUME NEW attr \in Configs, NEW json, json.kind = "dict", IsText(json), NEW v, IsObject(v, attr),
           WritesConfig(json.pairs, v.fields, attr)
    PROVE  BuildConfig(attr, json.pairs) = v
<1> DEFINE pairs == json.pairs
           r == v.fields
           coerced == [f \in Keys(pairs) |-> CoerceValue(f, ValueOf(pairs, f))]
<1>1. /\ IsPairs(pairs)
      /\ \A i \in DOMAIN pairs :
            pairs[i].value.kind = "list" =>
                \A j \in DOMAIN pairs[i].value.items :
                    pairs[i].value.items[j].kind = "dict" => IsPairs(pairs[i].value.items[j].pairs)
  BY DEF IsText
<1>2. WritesConfig(pairs, r, attr) /\ IsObject(v, attr)
  OBVIOUS
<1> HIDE DEF pairs
<1>3. ASSUME NEW f \in Fields[attr], NEW i \in DOMAIN pairs, Says(pairs, f, i)
      PROVE  CoerceValue(f, pairs[i].value) = r[f]
  <2> DEFINE w == pairs[i].value
  <2>1. CASE f \notin ObjectLists
    BY <1>2, <1>3, <2>1 DEF WritesConfig, CoerceValue
  <2>2. CASE f \in ObjectLists
    <3>1. /\ w.kind = "list" /\ IsObjectList(r[f], w, f)
          /\ \A j \in DOMAIN w.items :
                w.items[j].kind = "dict" /\ WritesElement(w.items[j].pairs, r[f].items[j].fields, f)
      BY <1>2, <1>3, <2>2 DEF WritesConfig
    <3>2. ASSUME NEW j \in DOMAIN w.items
          PROVE  BuildElement(f, w.items[j].pairs) = r[f].items[j]
      <4>1. IsPairs(w.items[j].pairs)
        BY <1>1, <1>3, <3>1, <3>2
      <4>2. IsObject(r[f].items[j], f) /\ WritesElement(w.items[j].pairs, r[f].items[j].fields, f)
        BY <3>1, <3>2 DEF IsObjectList
      <4> QED BY <2>2, <4>1, <4>2, ElementWritten
    <3>3. r[f] = List([j \in DOMAIN w.items |-> r[f].items[j]])
      BY <3>1 DEF IsObjectList
    <3>4. [j \in DOMAIN w.items |->
             IF w.items[j].kind = "dict" THEN BuildElement(f, w.items[j].pairs) ELSE w.items[j]]
            = [j \in DOMAIN w.items |-> r[f].items[j]]
      BY <3>1, <3>2
    <3> QED BY <2>2, <3>1, <3>3, <3>4 DEF CoerceValue
  <2> QED BY <2>1, <2>2
<1>4. ASSUME NEW f \in Fields[attr], NEW i \in DOMAIN pairs, Says(pairs, f, i)
      PROVE  coerced[f] = r[f]
  <2>1. f \in Keys(pairs) /\ ValueOf(pairs, f) = pairs[i].value
    BY <1>1, <1>4, LastCounts
  <2> QED BY <1>3, <1>4, <2>1
<1>5. Covers(pairs, r, attr)
  BY <1>2 DEF WritesConfig
<1> HIDE DEF coerced
<1>6. Build(attr, pairs, coerced) = v
  BY <1>1, <1>2, <1>4, <1>5, BuiltAsWritten
<1> QED BY <1>6 DEF BuildConfig, coerced, pairs

LEMMA TypesMatch ==
    \A a \in Configs : /\ TextType[a] \in DOMAIN LegacyConfigDispatch
                        /\ LegacyConfigDispatch[TextType[a]] = a
  BY DEF Configs, TextType, LegacyConfigDispatch

\* The configuration that a task's writer meant is the only one that is read, and nothing raises.
LEMMA MeantRead ==
    ASSUME NEW t \in Tasks, NEW c, Means(t, c)
    PROVE  ~TaskRaises(t) /\ ConfigsOf(t) = {c}
<1> DEFINE a == c.attr
           v == c.value
<1>1. c = [attr |-> a, value |-> v] /\ IsObject(v, a)
  BY DEF Means
<1>2. t.status \in TaskStatuses /\ (t.break_reason # Null => t.break_reason.word \in BreakReasons)
  BY DEF Means
<1>3. CASE t.which # "none"
  <2>1. t.which = a /\ Carries(t.typed, v.fields, a)
    BY <1>3 DEF Means
  <2> HIDE DEF a, v
  <2>2. ReadConfig(a, t.typed) = v /\ ~ReadRaises(a, t.typed)
    BY <1>1, <2>1, TypedRead
  <2>3. ConfigsOf(t) = {[attr |-> a, value |-> v]}
    BY <1>3, <2>1, <2>2, ConfigSource
  <2> QED BY <1>1, <1>2, <2>1, <2>2, <2>3 DEF TaskRaises
<1>4. CASE t.which = "none"
  <2> DEFINE type == t.task_type
             json == t.config
  <2>1. /\ type.kind # "null" /\ a \in Configs /\ type.word = TextType[a]
        /\ json.kind = "dict" /\ WritesConfig(json.pairs, v.fields, a)
    BY <1>4 DEF Means
  <2>2. IsText(json)
    BY ConvertersAssumption
  <2> HIDE DEF a, v, json, type
  <2>3. /\ type.word \in DOMAIN LegacyConfigDispatch /\ a = LegacyConfigDispatch[type.word]
        /\ a \in Configs
    BY <2>1, TypesMatch
  <2>4. BuildConfig(a, json.pairs) = v
    BY <1>1, <2>1, <2>2, <2>3, ConfigWritten
  <2>5. v # Null /\ type # Null
    <3>1. \A x : Object(x) # Null
      BY DEF Object, Null
    <3>2. Null.kind = "null"
      BY DEF Null
    <3> QED BY <1>1, <2>1, <3>1, <3>2 DEF IsObject
  <2>6. ParseTaskType(type) = type
    BY <2>1, <2>3, DispatchKnown DEF ParseTaskType
  <2>7. ParseLegacyConfig(type, json) = {[attr |-> a, value |-> v]}
    BY <2>1, <2>3, <2>4, <2>5 DEF ParseLegacyConfig
  <2>8. ConfigsOf(t) = ParseLegacyConfig(ParseTaskType(type), json)
    BY <1>4, ConfigSource DEF type, json
  <2> QED BY <1>1, <1>2, <1>4, <2>6, <2>7, <2>8 DEF TaskRaises
<1> QED BY <1>3, <1>4

\* Whatever the source, the configuration that was meant is read, and no other.
THEOREM MeantAlwaysRead == Spec => []MeantIsRead
<1>1. Computed => MeantIsRead
  <2> SUFFICES ASSUME Computed, Converted("task"), input.of.meant # {}
               PROVE  output.kind = "task" /\ output.configs = input.of.meant
    BY DEF MeantIsRead
  <2> DEFINE t == input.of
  <2>1. /\ t \in Tasks /\ output.kind \in {"task", "raised"}
        /\ TaskRaises(t) <=> output.kind = "raised"
        /\ output.kind = "task" => output.configs = ConfigsOf(t)
    BY TaskOutput
  <2>2. t.meant # {}
    OBVIOUS
  <2> HIDE DEF t
  <2>3. PICK c \in t.meant : t.meant = {c} /\ Means(t, c)
    BY <2>1, <2>2, ConvertersAssumption
  <2>4. ~TaskRaises(t) /\ ConfigsOf(t) = {c}
    BY <2>1, <2>3, MeantRead
  <2> QED BY <2>1, <2>3, <2>4 DEF t
<1> QED BY Invariance, <1>1, PTL

=============================================================================
