---------------------------- MODULE MCConverters ----------------------------
(***************************************************************************)
(* The inputs: every configuration with a few values, in each form the     *)
(* platform or an older system gives it, and texts that go wrong.          *)
(***************************************************************************)
EXTENDS Converters, SequencesExt

Value == {Plain(""), Plain("x")}
Maybe == Value \cup {Null}

\* Elements of the lists, as the model has them.
Elements(l) ==
    CASE l = "waypoints" ->
           {Object([latitude |-> Plain(""), longitude |-> Plain("x"), vehicle_action |-> a]) :
               a \in {Null, Word("action", "TAKEOFF")}}
      [] l = "detection_parameters" ->
           {Object([name |-> Plain("x"), value |-> Plain(""), description |-> d]) : d \in {Null, Plain("x")}}
      [] l = "area_vertices" ->
           {Object([latitude |-> Plain("x"), longitude |-> Plain(""), order |-> o]) : o \in {Null, Plain("x")}}
      [] l = "detection_targets" -> {Plain("x"), Plain("y")}

\* The values of a field of a configuration.
FieldValues(c, f) ==
    IF f \in Lists THEN {List(s) : s \in SeqOf(Elements(f), 2)}
    ELSE IF f \in Required[c] THEN Value ELSE Maybe

MCConfigs == UNION {{[attr |-> c, value |-> Object(r)] :
                r \in {q \in [Fields[c] -> UNION {FieldValues(c, f) : f \in Fields[c]}] :
                          \A f \in Fields[c] : q[f] \in FieldValues(c, f)}} :
             c \in Configs}

-----------------------------------------------------------------------------
\* The typed message of a configuration: enums are numbers.

Typed(c) ==
    [f \in DOMAIN c.value.fields |->
        LET v == c.value.fields[f]
        IN  IF f \notin ObjectLists THEN v
            ELSE List([i \in DOMAIN v.items |->
                   Object([g \in DOMAIN v.items[i].fields |->
                      LET w == v.items[i].fields[g]
                      IN  IF w.kind = "action" THEN Word("number", w.word) ELSE w])])]

\* The spellings of a field.
Spelled(f, spelling) ==
    CASE spelling = "snake" -> Key(f, "lower", TRUE)
      [] spelling = "kebab" -> Key(f, "camel", TRUE)
      [] OTHER -> Key(f, spelling, FALSE)

\* The text of a record: its keys as they are spelled, what is None left out or null.
Text(r, spelling, nulls, Write(_, _)) ==
    LET names == {f \in DOMAIN r : r[f] # Null \/ nulls}
    IN  [i \in 1..Cardinality(names) |->
            LET f == SetToSeq(names)[i]
            IN  [key |-> Spelled(f, spelling), value |-> Write(f, r[f])]]

\* The text of a configuration, its enums in this form.
Written(c, spelling, form, nulls) ==
    LET Leaf(f, v) == IF v.kind = "action" THEN Word(form, v.word) ELSE v
        Field(f, v) == IF f \in ObjectLists
                         THEN List([i \in DOMAIN v.items |->
                                Dict(Text(v.items[i].fields, spelling, nulls, Leaf))])
                         ELSE v
    IN  Dict(Text(c.value.fields, spelling, nulls, Field))

Task(type, which, typed, config, meant) ==
    [task_type |-> type, which |-> which, typed |-> typed, config |-> config, meant |-> meant,
     status |-> "RUNNING", break_reason |-> Null]

TypedTasks == {Task(Word("number", TextType[c.attr]), c.attr, Typed(c), Null, {c}) : c \in MCConfigs}

LegacyTasks ==
    {Task(Word(IF x[1] = "camel" THEN "name" ELSE "number", TextType[x[4].attr]), "none", Null,
          Written(x[4], x[1], x[2], x[3]), {x[4]}) :
        x \in {"camel", "snake", "pascal", "upper", "kebab"} \X {"name", "numeral"} \X BOOLEAN \X MCConfigs}

\* One configuration of each kind, with an element in each list.
Samples == {c \in MCConfigs :
              \A f \in DOMAIN c.value.fields :
                 LET v == c.value.fields[f]
                 IN  IF f \in Lists THEN Len(v.items) = 2 /\ v.items[1] # v.items[2]
                     ELSE v = Plain("x")}

\* Both sources at once, of the same and of another kind.
BothTasks ==
    {Task(Word("number", TextType[x[2].attr]), x[1].attr, Typed(x[1]),
          Written(x[2], "camel", "name", FALSE), {x[1]}) : x \in Samples \X Samples}

Pair(name, value) == [key |-> Spelled(name, "snake"), value |-> value]

\* A text with a key that is no field, or with a key in another spelling before it.
ExtendedTasks ==
    UNION {LET pairs == Written(c, "camel", "name", FALSE).pairs
           IN  {Task(Word("name", TextType[c.attr]), "none", Null, Dict(more), {c}) :
                  more \in {Append(pairs, Pair("unknown", Plain("y")))}
                            \cup {<<Pair(pairs[i].key.name, v)>> \o pairs :
                                     i \in DOMAIN pairs, v \in {Null, Plain("y"), List(<<>>)}}} :
           c \in Samples}

\* A text without its i-th key, with that key null, or with it a second time in another spelling.
Broken(d, i) ==
    {Dict(RemoveAt(d.pairs, i)),
     Dict([d.pairs EXCEPT ![i].value = Null])}
    \cup {Dict(Append(d.pairs, Pair(d.pairs[i].key.name, v))) :
              v \in {Plain("y"), List(<<Dict(<<>>)>>)}}

\* The same of an element of a list, and an element that is no object.
BrokenElements(d, i) ==
    LET v == d.pairs[i].value
    IN  IF v.kind # "list" THEN {}
        ELSE {Dict([d.pairs EXCEPT ![i].value.items[j] = b]) :
                <<j, b>> \in {<<k, Plain("y")>> : k \in DOMAIN v.items}
                   \cup UNION {{<<k, b>> : b \in UNION {Broken(v.items[k], n) : n \in DOMAIN v.items[k].pairs}} :
                               k \in {m \in DOMAIN v.items : v.items[m].kind = "dict"}}}

BrokenTasks ==
    UNION {LET d == Written(c, "camel", "name", FALSE)
               broken == UNION {Broken(d, i) \cup BrokenElements(d, i) : i \in DOMAIN d.pairs}
           IN  {Task(Word("name", TextType[c.attr]), "none", Null, b, {}) :
                  b \in broken \cup {Plain("y"), List(<<d>>), Null}} : c \in Samples}

\* A task type without a configuration, a type, a status, a reason or an action yet unknown.
OddTasks ==
    UNION {LET t == Task(Null, "none", Null, Written(c, "snake", "number", FALSE), {})
               u == [t EXCEPT !.which = c.attr, !.typed = Typed(c)]
           IN  {t, [t EXCEPT !.task_type = Word("number", "NEWER")],
                [t EXCEPT !.task_type = Word("name", "COUNTER_DRONE")],
                [u EXCEPT !.status = "NEWER"], [u EXCEPT !.break_reason = Word("number", "NEWER")],
                [u EXCEPT !.break_reason = Word("number", "LOW_BATTERY")]} : c \in Samples}

NewerAction ==
    Task(Word("number", "WAYPOINT"), "waypoint_config",
         [flight_id |-> Plain("x"), rth_altitude |-> Null,
          waypoints |-> List(<<Object([latitude |-> Plain("x"), longitude |-> Plain("x"),
                                       vehicle_action |-> Word("number", "NEWER")])>>)],
         Null, {})

MCTasks == TypedTasks \cup LegacyTasks \cup BothTasks \cup ExtendedTasks \cup BrokenTasks \cup OddTasks \cup {NewerAction}

-----------------------------------------------------------------------------

Enums == [type : {"DOCK"}, vendor : {"DJI", "SAPIENT"}, connection : {"TCP"}]

\* A sub-asset: all its optional fields vary, of an asset two do.
MCSubAssets ==
    {[enums |-> e, plain |-> p, optional |-> o] :
        e \in Enums, p \in {Plain("drone")},
        o \in {q \in [SubAssetOptionals \cup {"created_at"} -> Maybe] :
                 q.id = q.external_id /\ q.live_stream_push_url = Null /\ q.created_at # Plain("")}}

SubAssetLists ==
    {<<>>} \cup {<<s>> : s \in MCSubAssets}
      \cup {<<s, t>> : s \in MCSubAssets, t \in {u \in MCSubAssets : u.optional.created_at = u.optional.id}}

MCAssets ==
    {[enums |-> e, plain |-> Plain("dock"), optional |-> o, sub_assets |-> <<>>] :
        e \in Enums, o \in [AssetOptionals \cup {"created_at"} -> Maybe]}
    \cup
    {[enums |-> e, plain |-> Plain("dock"), sub_assets |-> l,
      optional |-> [f \in AssetOptionals \cup {"created_at"} |-> Null]] :
        e \in {[type |-> "DOCK", vendor |-> "DJI", connection |-> "MQTT"]}, l \in SubAssetLists}

\* What the platform lists: a message of any of these, and some from a later version.
MCListed ==
    {[enums |-> e, plain |-> Plain("dock"), optional |-> Given(o), sub_assets |-> s] :
        e \in Enums \cup {[type |-> "NEWER", vendor |-> "NEWER", connection |-> "MQTT"]},
        o \in [AssetOptionals -> Maybe],
        s \in {<<>>} \cup {<<SubAssetToProto([x EXCEPT !.enums.vendor = v])>> :
                            v \in {"SAPIENT", "NEWER"},
                            x \in {u \in MCSubAssets : u.optional.created_at = Null
                                                        /\ u.optional.stream_url_predefined # Null}}}

MCExecutions ==
    {[external_execution_id |-> "e1", status |-> s, sn |-> n, optional |-> o] :
        s \in {"RUNNING", "SUCCEEDED", "FAILED"}, n \in {"", "dock", "other"},
        o \in [{"progress", "occurred_at", "output"} -> Maybe]}

GroupValues == {Null} \cup {Object(r) : r \in [{"number", "quality"} -> {Null, Plain(""), Plain("x")}]}

MCReadings ==
    UNION {{[of |-> k, id |-> "dock", readings |-> r, groups |-> g] :
              r \in [EnvelopeFields \cup DetailFields[k] -> Maybe],
              g \in {h \in [Groups[k] -> GroupValues] : \A a, b \in Groups[k] : a # b => Null \in {h[a], h[b]}}} :
           k \in {"asset", "sub_asset"}}
=============================================================================
