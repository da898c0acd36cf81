----------------------------- MODULE Converters -----------------------------
(***************************************************************************)
(* Between the wire and the SDK's models: how a task with its              *)
(* configuration is read, also from the JSON text of older systems, how an *)
(* asset goes to the platform and comes back (server/_converters.py), and  *)
(* how a publisher builds the events and the telemetry it sends            *)
(* (client/notification_publisher.py, client/telemetry_publisher.py).      *)
(* A conversion is one step from an input to its output.  Of the fields    *)
(* that are treated alike the model keeps one or two of each record.       *)
(***************************************************************************)
EXTENDS Naturals, Sequences, FiniteSetsExt, Functions

CONSTANTS
    Tasks,              \* the task messages to read
    Assets,             \* the assets to send
    Listed,             \* the asset messages of the platform to read
    Executions,         \* the command execution events to publish
    Readings,           \* the telemetry to publish
    PublisherSn         \* the serial number of the publisher's own asset

VARIABLES input, output

vars == <<input, output>>

\* Values: of a Python model, of JSON, and of a message.  An enum's member is a word.
Null == [kind |-> "null"]
Plain(x) == [kind |-> "plain", word |-> x]      \* "" stands for what is falsy: "", 0, False
Word(form, x) == [kind |-> form, word |-> x]    \* an enum's member by "name", "number", "numeral"
List(s) == [kind |-> "list", items |-> s]
Dict(s) == [kind |-> "dict", pairs |-> s]       \* a sequence of [key, value]
Object(r) == [kind |-> "object", fields |-> r]

-----------------------------------------------------------------------------

TaskTypes == {"UNSPECIFIED", "DETECT", "AREA_MAPPING", "WAYPOINT", "POI", "FOLLOW", "TRACK",
              "COUNTER_DRONE"}
TaskStatuses == {"UNKNOWN", "DRAFT", "SCHEDULED", "RUNNING", "ERROR", "COMPLETED", "PREPARED", "PAUSED"}
BreakReasons == {"NORMAL", "LOW_BATTERY"}
VehicleActions == {"NONE", "TAKEOFF", "LAND"}

\* The task configurations, the fields of each and those without a default.
Configs == {"waypoint_config", "detect_config", "area_mapping_config", "poi_config",
            "follow_config", "track_config"}

Fields == [waypoint_config |-> {"flight_id", "waypoints", "rth_altitude"},
           detect_config |-> {"detection_targets", "detection_parameters", "gimbal_pitch"},
           area_mapping_config |-> {"survey_altitude", "area_vertices", "gimbal_pitch"},
           poi_config |-> {"poi_latitude", "poi_longitude", "poi_altitude", "capture_interval"},
           follow_config |-> {"target_type", "capture_interval"},
           track_config |-> {"target_type", "capture_interval"},
           waypoints |-> {"latitude", "longitude", "vehicle_action"},
           detection_parameters |-> {"name", "value", "description"},
           area_vertices |-> {"latitude", "longitude", "order"}]

Required == [waypoint_config |-> {"flight_id"},
             detect_config |-> {},
             area_mapping_config |-> {"survey_altitude"},
             poi_config |-> {"poi_latitude", "poi_longitude", "poi_altitude"},
             follow_config |-> {"target_type"},
             track_config |-> {"target_type"},
             waypoints |-> {"latitude", "longitude"},
             detection_parameters |-> {"name", "value"},
             area_vertices |-> {"latitude", "longitude"}]

\* The lists of dataclasses, under the name of the field, and the list of strings.
ObjectLists == {"waypoints", "detection_parameters", "area_vertices"}
Lists == ObjectLists \cup {"detection_targets"}

\* The task type of a message: a number, or a name with or without its prefix.
ParseTaskType(raw) == IF raw.kind # "null" /\ raw.word \in TaskTypes THEN raw ELSE Null

-----------------------------------------------------------------------------
(***************************************************************************)
(* The typed configuration: the members of the task_config oneof.          *)
(***************************************************************************)

\* VehicleAction(raw) of an action this SDK does not know yet raises.
WaypointRaises(m) ==
    "vehicle_action" \in DOMAIN m /\ m.vehicle_action # Null /\ m.vehicle_action.word \notin VehicleActions

ReadElement(l, m) ==
    Object([f \in Fields[l] |->
              IF f = "vehicle_action" /\ m[f] # Null THEN Word("action", m[f].word) ELSE m[f]])

\* The message has every field: one that is not optional has a value on the wire.
ReadConfig(which, m) ==
    Object([f \in Fields[which] |->
              IF f \in ObjectLists
                THEN List([i \in DOMAIN m[f].items |-> ReadElement(f, m[f].items[i].fields)])
                ELSE m[f]])

ReadRaises(which, m) ==
    \E f \in Fields[which] \cap ObjectLists :
        \E i \in DOMAIN m[f].items : WaypointRaises(m[f].items[i].fields)

-----------------------------------------------------------------------------
(***************************************************************************)
(* The configuration as JSON text, when the oneof is not set.              *)
(***************************************************************************)

\* A key: the words of a name, its letters' case ("lower", "camel", "pascal" or "upper"), and
\* whether there are other characters than letters and digits between the words.
Key(name, case, marks) == [name |-> name, case |-> case, marks |-> marks]

\* Fault: the case of the letters is kept.
NormKeyCased(k) == Key(k.name, k.case, FALSE)

\* _norm_key(): all letters in lower case, without other characters.
NormKey(k) == Key(k.name, "lower", FALSE)

\* A dataclass spells its fields in snake_case, and field_map normalises them like the keys.
FieldOf(k) == IF NormKey(k) = NormKey(Key(k.name, "lower", TRUE)) THEN k.name ELSE "none"

CoerceEnum(v) == IF v.kind \in {"name", "number", "numeral"} /\ v.word \in VehicleActions
                   THEN Word("action", v.word) ELSE Null

CoerceField(f, v) == IF f = "vehicle_action" /\ v # Null THEN CoerceEnum(v) ELSE v

Keys(pairs) == {FieldOf(pairs[i].key) : i \in DOMAIN pairs}

\* Of two spellings of a field the last one counts.
ValueOf(pairs, f) == pairs[Max({i \in DOMAIN pairs : FieldOf(pairs[i].key) = f})].value

\* Fault: a required field that is missing is left without a value.
AlwaysBuilt(cls, pairs) == TRUE

\* cls(**kwargs) raises a TypeError without one of the required fields.
Buildable(cls, pairs) == Required[cls] \subseteq Keys(pairs)

\* _dict_to_dataclass(), with the value of each key as it is coerced: a key that is no field
\* is ignored, a field without a key has its default.
Build(cls, pairs, coerced) ==
    IF Buildable(cls, pairs)
      THEN Object([f \in Fields[cls] |->
                     IF f \in Keys(pairs) THEN coerced[f]
                     ELSE IF f \in Lists THEN List(<<>>) ELSE Null])
      ELSE Null

\* An element of a list of dataclasses.
BuildElement(l, pairs) ==
    Build(l, pairs, [f \in Keys(pairs) |-> CoerceField(f, ValueOf(pairs, f))])

\* _coerce_value() of a field of a configuration.  What is not of the field's type stays as it is.
CoerceValue(f, v) ==
    IF f \in ObjectLists /\ v.kind = "list"
      THEN List([i \in DOMAIN v.items |->
                   IF v.items[i].kind = "dict" THEN BuildElement(f, v.items[i].pairs)
                   ELSE v.items[i]])
      ELSE v

BuildConfig(attr, pairs) ==
    Build(attr, pairs, [f \in Keys(pairs) |-> CoerceValue(f, ValueOf(pairs, f))])

LegacyConfigDispatch == [DETECT |-> "detect_config", AREA_MAPPING |-> "area_mapping_config",
                         WAYPOINT |-> "waypoint_config", POI |-> "poi_config",
                         FOLLOW |-> "follow_config", TRACK |-> "track_config"]

\* The configurations a text gives a task of this type: one, or none.
ParseLegacyConfig(type, json) ==
    IF type = Null \/ type.word \notin DOMAIN LegacyConfigDispatch \/ json.kind # "dict" THEN {}
    ELSE LET attr == LegacyConfigDispatch[type.word]
             obj == BuildConfig(attr, json.pairs)
         IN  IF obj = Null THEN {} ELSE {[attr |-> attr, value |-> obj]}

-----------------------------------------------------------------------------

TaskRaises(t) ==
    \/ t.status \notin TaskStatuses
    \/ t.break_reason # Null /\ t.break_reason.word \notin BreakReasons
    \/ t.which # "none" /\ ReadRaises(t.which, t.typed)

\* The configurations of the task that is read.
ConfigsOf(t) ==
    IF t.which # "none" THEN {[attr |-> t.which, value |-> ReadConfig(t.which, t.typed)]}
    ELSE ParseLegacyConfig(ParseTaskType(t.task_type), t.config)

ProtoToTask(t) ==
    IF TaskRaises(t) THEN [kind |-> "raised"]
    ELSE [kind |-> "task", task_type |-> ParseTaskType(t.task_type), configs |-> ConfigsOf(t)]

-----------------------------------------------------------------------------
(***************************************************************************)
(* A record of a model is a message once what is None is left out: a       *)
(* message has the fields of its domain, the others are not set.           *)
(***************************************************************************)

\* Fault: what is zero, empty or false is left out as well.
Truthy(r) == Restrict(r, {f \in DOMAIN r : r[f] \notin {Null, Plain("")}})

Given(r) == Restrict(r, {f \in DOMAIN r : r[f] # Null})

\* _opt_field: an optional field that is not set reads as None.
Opt(m, f) == IF f \in DOMAIN m THEN m[f] ELSE Null

AssetTypes == {"UNKNOWN", "AIRCRAFT", "DOCK", "SENSOR", "CAMERA", "OTHER", "JAMMER", "CYBER_ATTACK",
               "SAPIENT", "RNS"}
Vendors == {"DJI", "AUTEL", "ROS", "MAVLINK", "RTMP_RTSP", "SAPIENT", "BETAFLIGHT", "RNS", "ZQNT",
            "SIMULATOR", "AI"}
Connections == {"MQTT", "TCP", "SERIAL"}

SubAssetOptionals == {"id", "external_id", "stream_url_predefined", "live_stream_push_url",
                      "live_stream_pull_url"}
AssetOptionals == SubAssetOptionals \ {"stream_url_predefined"}

\* parse_enum: a value this SDK does not know reads as the default.
ParseEnum(members, v, default) == IF v \in members THEN v ELSE default

\* The enums go by name; created_at and modified_at are the platform's and do not go at all.
SubAssetToProto(s) ==
    [enums |-> s.enums, plain |-> s.plain, optional |-> Given(Restrict(s.optional, SubAssetOptionals))]

AssetToProto(a) ==
    [enums |-> a.enums, plain |-> a.plain,
     optional |-> Given(Restrict(a.optional, AssetOptionals)),
     sub_assets |-> [i \in DOMAIN a.sub_assets |-> SubAssetToProto(a.sub_assets[i])]]

ReadEnums(e) == [type |-> ParseEnum(AssetTypes, e.type, "UNKNOWN"),
                 vendor |-> ParseEnum(Vendors, e.vendor, "DJI"),
                 connection |-> ParseEnum(Connections, e.connection, "MQTT")]

ProtoToSubAsset(m) ==
    [enums |-> ReadEnums(m.enums), plain |-> m.plain,
     optional |-> [f \in SubAssetOptionals \cup {"created_at"} |->
                     IF f = "created_at" THEN Null ELSE Opt(m.optional, f)]]

ProtoToAsset(m) ==
    [enums |-> ReadEnums(m.enums), plain |-> m.plain,
     optional |-> [f \in AssetOptionals \cup {"created_at"} |->
                     IF f = "created_at" THEN Null ELSE Opt(m.optional, f)],
     sub_assets |-> [i \in DOMAIN m.sub_assets |-> ProtoToSubAsset(m.sub_assets[i])]]

-----------------------------------------------------------------------------
(***************************************************************************)
(* What a publisher builds.                                                *)
(***************************************************************************)

\* Fault: the event goes with the time its record has, also if that is none.
ExecutionUndated(e) ==
    [base_sn |-> IF e.sn # "" THEN e.sn ELSE PublisherSn,
     severity |-> IF e.status = "FAILED" THEN "CRITICAL" ELSE "INFO",
     asset_sn |-> e.sn, external_execution_id |-> e.external_execution_id, status |-> e.status,
     optional |-> Given(e.optional)]

\* _build_command_execution_event_request: an event without a time gets the current one.
BuildCommandExecution(e) ==
    [base_sn |-> IF e.sn # "" THEN e.sn ELSE PublisherSn,
     severity |-> IF e.status = "FAILED" THEN "CRITICAL" ELSE "INFO",
     asset_sn |-> e.sn, external_execution_id |-> e.external_execution_id, status |-> e.status,
     optional |-> Given([e.optional EXCEPT !.occurred_at = IF @ = Null THEN Plain("now") ELSE @])]

\* LiveData refuses an execution event without its id, its asset or its time.
LiveDataAccepts(m) ==
    m.external_execution_id # "" /\ m.asset_sn # "" /\ "occurred_at" \in DOMAIN m.optional

EnvelopeFields == {"latitude", "heading"}

\* What an asset and a sub-asset report of themselves, and the groups of readings they may add.
DetailFields == [asset |-> {"mode", "humidity", "sub_asset_at_home"},
                 sub_asset |-> {"mode", "gear"}]
Groups == [asset |-> {"network_info", "position_state"},
           sub_asset |-> {"battery", "sensor"}]

\* Every group has readings, two of which are kept: "number" and "quality".  The "number" of a
\* battery is its percentage, which the wire wants as text.
OnWire(g, f, v) == IF g = "battery" /\ f = "number" /\ v # Null THEN Word("text", v.word) ELSE v

\* A group that is there goes with its readings; the sensor only with its temperature.
SentGroups(t) ==
    {g \in Groups[t.of] : t.groups[g] # Null /\ (g = "sensor" => Given(t.groups[g].fields) # << >>)}

\* _build_asset_request and _build_subasset_request: the place goes in the envelope both share,
\* with the time of sending, whatever time the telemetry has.
BuildTelemetry(t) ==
    [base_sn |-> t.id, of |-> t.of, timestamp |-> Plain("now"),
     envelope |-> Given(Restrict(t.readings, EnvelopeFields)),
     details |-> Given(Restrict(t.readings, DetailFields[t.of])),
     groups |-> [g \in SentGroups(t) |->
                   Given([f \in DOMAIN t.groups[g].fields |-> OnWire(g, f, t.groups[g].fields[f])])]]

-----------------------------------------------------------------------------
(***************************************************************************)
(* The inputs.  A task also has, as history, the configuration that its    *)
(* writer meant: "meant" is {} if the message means none or none in        *)
(* particular.                                                             *)
(***************************************************************************)

IsFunctionOn(r, S) == r = [f \in S |-> r[f]]

\* The text has a value, or null, for a field; the i-th pair is the one that counts for it.
States(pairs, f) == \E i \in DOMAIN pairs : pairs[i].key.name = f

Says(pairs, f, i) ==
    pairs[i].key.name = f /\ \A j \in DOMAIN pairs : j > i => pairs[j].key.name # f

\* A text as JSON has it: arrays, objects and scalars, and no dataclass.
IsPairs(pairs) == DOMAIN pairs = 1..Len(pairs)

IsText(v) ==
    /\ v.kind # "object"
    /\ v.kind = "dict" =>
          /\ IsPairs(v.pairs)
          /\ \A i \in DOMAIN v.pairs :
                v.pairs[i].value.kind = "list" =>
                    \A j \in DOMAIN v.pairs[i].value.items :
                        LET w == v.pairs[i].value.items[j]
                        IN  w.kind # "object" /\ (w.kind = "dict" => IsPairs(w.pairs))

\* The value v of a field is written as w: an action by its number, in a text also by its name.
Spells(f, w, v, forms) ==
    IF f = "vehicle_action" /\ v # Null
      THEN v = Word("action", v.word) /\ v.word \in VehicleActions /\ w \in {Word(x, v.word) : x \in forms}
      ELSE w = v

IsObject(v, cls) == v = Object(v.fields) /\ IsFunctionOn(v.fields, Fields[cls])

\* The list v has as many objects as the list w has items.
IsObjectList(v, w, l) ==
    v = List([j \in DOMAIN w.items |-> v.items[j]]) /\ \A j \in DOMAIN w.items : IsObject(v.items[j], l)

\* A text has what has no default, and what it says nothing of has its default; it may have keys
\* that are no fields.
Covers(pairs, r, cls) ==
    \A f \in Fields[cls] :
        \/ \E i \in DOMAIN pairs : Says(pairs, f, i)
        \/ ~States(pairs, f) /\ f \notin Required[cls] /\ r[f] = IF f \in Lists THEN List(<<>>) ELSE Null

WritesElement(pairs, r, l) ==
    /\ Covers(pairs, r, l)
    /\ \A f \in Fields[l], i \in DOMAIN pairs :
          Says(pairs, f, i) => Spells(f, pairs[i].value, r[f], {"name", "number", "numeral"})

WritesConfig(pairs, r, attr) ==
    /\ Covers(pairs, r, attr)
    /\ \A f \in Fields[attr], i \in DOMAIN pairs :
          Says(pairs, f, i) =>
              LET w == pairs[i].value
              IN  IF f \notin ObjectLists THEN w = r[f]
                  ELSE /\ w.kind = "list" /\ IsObjectList(r[f], w, f)
                       /\ \A j \in DOMAIN w.items :
                             /\ w.items[j].kind = "dict"
                             /\ WritesElement(w.items[j].pairs, r[f].items[j].fields, f)

\* A message carries a configuration.
Carries(m, r, attr) ==
    \A f \in Fields[attr] :
        IF f \notin ObjectLists THEN m[f] = r[f]
        ELSE /\ IsObjectList(r[f], m[f], f)
             /\ \A j \in DOMAIN m[f].items :
                   LET e == m[f].items[j].fields
                   IN  /\ DOMAIN e = Fields[f]
                       /\ \A g \in Fields[f] : Spells(g, e[g], r[f].items[j].fields[g], {"number"})

\* The task type an older system sends with the text of a configuration.
TextType == [waypoint_config |-> "WAYPOINT", detect_config |-> "DETECT",
             area_mapping_config |-> "AREA_MAPPING", poi_config |-> "POI",
             follow_config |-> "FOLLOW", track_config |-> "TRACK"]

Means(t, c) ==
    /\ t.status \in TaskStatuses /\ (t.break_reason # Null => t.break_reason.word \in BreakReasons)
    /\ c = [attr |-> c.attr, value |-> c.value] /\ c.attr \in Configs /\ IsObject(c.value, c.attr)
    /\ IF t.which # "none"
         THEN t.which = c.attr /\ Carries(t.typed, c.value.fields, c.attr)
         ELSE /\ t.task_type.kind # "null" /\ t.task_type.word = TextType[c.attr]
              /\ t.config.kind = "dict" /\ WritesConfig(t.config.pairs, c.value.fields, c.attr)

\* Enums of this version, and optional fields.
KnownEnums(e) ==
    /\ e.type \in AssetTypes /\ e.vendor \in Vendors /\ e.connection \in Connections
    /\ e = [type |-> e.type, vendor |-> e.vendor, connection |-> e.connection]

IsSubAsset(s) ==
    /\ s = [enums |-> s.enums, plain |-> s.plain, optional |-> s.optional]
    /\ KnownEnums(s.enums) /\ IsFunctionOn(s.optional, SubAssetOptionals \cup {"created_at"})

IsAsset(a) ==
    /\ a = [enums |-> a.enums, plain |-> a.plain, optional |-> a.optional, sub_assets |-> a.sub_assets]
    /\ KnownEnums(a.enums) /\ IsFunctionOn(a.optional, AssetOptionals \cup {"created_at"})
    /\ IsFunctionOn(a.sub_assets, DOMAIN a.sub_assets)
    /\ \A i \in DOMAIN a.sub_assets : IsSubAsset(a.sub_assets[i])

\* The optional fields of a message that are set.
IsSet(m, optionals) ==
    DOMAIN m \subseteq optionals /\ IsFunctionOn(m, DOMAIN m) /\ \A f \in DOMAIN m : m[f] # Null

IsListed(m) ==
    /\ m = [enums |-> m.enums, plain |-> m.plain, optional |-> m.optional, sub_assets |-> m.sub_assets]
    /\ IsSet(m.optional, AssetOptionals)
    /\ IsFunctionOn(m.sub_assets, DOMAIN m.sub_assets)
    /\ \A i \in DOMAIN m.sub_assets :
          LET n == m.sub_assets[i]
          IN  n = [enums |-> n.enums, plain |-> n.plain, optional |-> n.optional]
                /\ IsSet(n.optional, SubAssetOptionals)

IsReading(t) ==
    /\ t.of \in {"asset", "sub_asset"}
    /\ DOMAIN t.readings = EnvelopeFields \cup DetailFields[t.of]
    /\ \A g \in Groups[t.of] : t.groups[g] # Null => DOMAIN t.groups[g].fields = {"number", "quality"}

ASSUME ConvertersAssumption ==
    /\ \A t \in Tasks :
          /\ t.which \in Configs \cup {"none"}
          /\ IsText(t.config)
          /\ t.meant # {} => \E c \in t.meant : t.meant = {c} /\ Means(t, c)
    /\ \A a \in Assets : IsAsset(a)
    /\ \A m \in Listed : IsListed(m)
    /\ \A e \in Executions : IsFunctionOn(e.optional, {"progress", "occurred_at", "output"})
    /\ \A t \in Readings : IsReading(t)

-----------------------------------------------------------------------------

Init ==
    /\ input \in [kind : {"task"}, of : Tasks] \cup [kind : {"asset"}, of : Assets]
                   \cup [kind : {"listed"}, of : Listed] \cup [kind : {"execution"}, of : Executions]
                   \cup [kind : {"telemetry"}, of : Readings]
    /\ output = Null

Converts(kind) == output = Null /\ input.kind = kind /\ UNCHANGED input

ReadTask == Converts("task") /\ output' = ProtoToTask(input.of)

SendAsset ==
    /\ Converts("asset")
    /\ output' = [kind |-> "sent", proto |-> AssetToProto(input.of),
                  back |-> ProtoToAsset(AssetToProto(input.of))]

ReadAsset == Converts("listed") /\ output' = [kind |-> "asset", back |-> ProtoToAsset(input.of)]

PublishExecution ==
    Converts("execution") /\ output' = [kind |-> "execution", of |-> BuildCommandExecution(input.of)]

PublishTelemetry ==
    Converts("telemetry") /\ output' = [kind |-> "telemetry", of |-> BuildTelemetry(input.of)]

Next == ReadTask \/ SendAsset \/ ReadAsset \/ PublishExecution \/ PublishTelemetry

Spec == Init /\ [][Next]_vars

-----------------------------------------------------------------------------

Converted(kind) == output # Null /\ input.kind = kind

TypeOK ==
    /\ input.kind \in {"task", "asset", "listed", "execution", "telemetry"}
    /\ Converted("task") => output.kind \in {"task", "raised"}
    /\ Converted("task") /\ output.kind = "task" =>
           \A c \in output.configs :
               c.attr \in Configs /\ c.value.kind = "object" /\ DOMAIN c.value.fields = Fields[c.attr]
    /\ Converted("listed") => DOMAIN output.back.optional = AssetOptionals \cup {"created_at"}

\* Whatever the source: the configuration an older system writes as JSON text, in whatever
\* case and with whatever marks its keys are spelled, with its enums by name or by number, and
\* with what is not set left out or null, is read as the one the oneof would have carried.
MeantIsRead ==
    Converted("task") /\ input.of.meant # {} => output.kind = "task" /\ output.configs = input.of.meant

\* A task has at most one configuration, and if the oneof is set it is the oneof's, whatever
\* text and whatever task type come with it.
OneConfig ==
    Converted("task") /\ output.kind = "task" =>
        /\ \A c, d \in output.configs : c = d
        /\ input.of.which # "none" => \A c \in output.configs : c.attr = input.of.which

\* No configuration, and no waypoint, vertex or parameter in one, is built from a text that has
\* nothing for a field without a default: the configuration is dropped, and in a list the
\* element, whose place is taken by a None.
NoPartialConfig ==
    Converted("task") /\ output.kind = "task" /\ input.of.which = "none" =>
        LET text == input.of.config.pairs
        IN  \A c \in output.configs :
                /\ \A f \in Required[c.attr] : States(text, f)
                /\ \A l \in ObjectLists \cap Fields[c.attr], i \in DOMAIN text :
                       Says(text, l, i) /\ text[i].value.kind = "list" =>
                           \A j \in DOMAIN text[i].value.items :
                               c.value.fields[l].items[j].kind = "object" =>
                                   \A f \in Required[l] : States(text[i].value.items[j].pairs, f)

Unstamped(r) == [r EXCEPT !.optional.created_at = Null]

\* An asset that is sent and read back is the same but for the platform's own time stamps: an
\* optional field that is empty, zero or false stays so, one that is None stays None, and the
\* sub-assets keep their order.  What is read of the platform and sent back is unchanged too,
\* unless it or one of its sub-assets names a type, a vendor or a connection this SDK does not
\* know.
AssetSurvives ==
    /\ Converted("asset") =>
           output.back = [Unstamped(input.of) EXCEPT
                            !.sub_assets = [i \in DOMAIN @ |-> Unstamped(@[i])]]
    /\ Converted("listed") /\ output.back.enums = input.of.enums
         /\ (\A i \in DOMAIN input.of.sub_assets :
               output.back.sub_assets[i].enums = input.of.sub_assets[i].enums) =>
           AssetToProto(output.back) = input.of

\* An execution event that names its asset is one LiveData takes, filed under that asset:
\* LiveData drops one without its time, and the publisher is never told.
NamedExecutionAccepted ==
    Converted("execution") /\ input.of.sn # "" /\ input.of.external_execution_id # "" =>
        LiveDataAccepts(output.of) /\ output.of.base_sn = output.of.asset_sn

\* Every reading that is set arrives, also a zero, in the one place the reader looks for it and
\* in the type the wire has there, and none that is not set does
\* (client/telemetry_publisher.py:247-256, 396-399).
ReadingsArrive ==
    Converted("telemetry") =>
        LET t == input.of
            m == output.of
        IN  /\ \A f \in DOMAIN t.readings :
                   LET places == {p \in {m.envelope, m.details} : f \in DOMAIN p}
                   IN  /\ t.readings[f] = Null => places = {}
                       /\ t.readings[f] # Null => \E p \in places : p[f] = t.readings[f]
            /\ DOMAIN m.envelope \cap DOMAIN m.details = {}
            /\ \A g \in Groups[t.of], f \in {"number", "quality"} :
                   t.groups[g] # Null /\ t.groups[g].fields[f] # Null =>
                       g \in DOMAIN m.groups /\ f \in DOMAIN m.groups[g]
                         /\ m.groups[g][f] =
                              IF g = "battery" /\ f = "number" THEN Word("text", t.groups[g].fields[f].word)
                              ELSE t.groups[g].fields[f]

\* What notification_publisher.py's own example publishes (lines 17-19): an execution event of
\* the publisher's asset, which the event itself need not name.  LiveData refuses it, since only
\* the request is filed under the publisher's serial number and the event's asset_sn is empty.
ExecutionAccepted ==
    Converted("execution") /\ input.of.external_execution_id # "" => LiveDataAccepts(output.of)
=============================================================================
