------------------------------ MODULE Commands ------------------------------
(***************************************************************************)
(* What an EdgeAdapter advertises, what it admits and what it runs         *)
(* (adapter/base.py, adapter/commands.py).  A command can be implemented by*)
(* overriding its typed method, by registering a handler for its id, or by *)
(* both.  It can be called through its typed RPC or by id, and four tables *)
(* written by hand lead from one to the other.                             *)
(***************************************************************************)
EXTENDS Naturals

CONSTANTS
    VendorIds,          \* command ids outside the catalog
    Adapters,           \* the adapters there may be, each by the methods it overrides
    Registrable         \* the declarations it may make: ids with their states

-----------------------------------------------------------------------------
(***************************************************************************)
(* The tables.                                                             *)
(***************************************************************************)

\* The methods and the command ids they implement.
MethodCommands ==
    {<<"take_off", "flight.takeoff">>, <<"go_to", "navigation.go_to">>,
     <<"return_to_home", "flight.return_to_home">>,
     <<"enter_manual_control", "flight.manual.enter">>,
     <<"exit_manual_control", "flight.manual.exit">>,
     <<"manual_control_input", "flight.manual.input">>,
     <<"look_at", "gimbal.look_at">>, <<"enable_gimbal_tracking", "gimbal.tracking">>,
     <<"take_photo", "camera.take_photo">>, <<"capture_photo", "camera.capture_photo">>,
     <<"change_lens", "camera.change_lens">>, <<"change_zoom", "camera.change_zoom">>,
     <<"start_recording", "camera.start_recording">>,
     <<"stop_recording", "camera.stop_recording">>,
     <<"start_live_stream", "stream.start">>, <<"stop_live_stream", "stream.stop">>,
     <<"get_detections", "detections.stream">>,
     <<"open_cover", "dock.open_cover">>, <<"close_cover", "dock.close_cover">>,
     <<"start_charging", "dock.start_charging">>, <<"stop_charging", "dock.stop_charging">>,
     <<"reboot_asset", "asset.reboot">>, <<"boot_up_sub_asset", "asset.boot_sub_asset">>,
     <<"boot_down_sub_asset", "asset.boot_sub_asset">>,
     <<"enter_or_close_remote_debug_mode", "asset.remote_debug">>,
     <<"change_ac_mode", "asset.change_ac_mode">>, <<"prepare_task", "mission.prepare">>,
     <<"start_task", "mission.start">>, <<"stop_task", "mission.stop">>}

\* The commands that are advertised but never dispatched by id.
StreamingCommands == {"flight.manual.input", "detections.stream"}

Position == {"latitude", "longitude", "altitude"}

\* The catalog: an id, the parameters its schema requires and those it allows as well.
Catalog ==
    {<<"flight.takeoff", {}, Position>>, <<"flight.return_to_home", {}, {"altitude"}>>,
     <<"flight.manual.enter", {}, {}>>, <<"flight.manual.exit", {}, {}>>,
     <<"flight.manual.input", {"roll", "pitch", "yaw", "throttle"}, {"gimbalPitch"}>>,
     <<"navigation.go_to", {"latitude", "longitude"}, {"altitude"}>>,
     <<"gimbal.look_at", {"latitude", "longitude"}, {"altitude", "payloadIndex", "locked"}>>,
     <<"gimbal.tracking", {"enabled"}, {}>>, <<"camera.take_photo", {}, {}>>,
     <<"camera.capture_photo", {}, {}>>, <<"camera.change_lens", {"lens"}, {}>>,
     <<"camera.change_zoom", {"lens", "zoom"}, {}>>, <<"camera.start_recording", {}, {}>>,
     <<"camera.stop_recording", {}, {}>>, <<"stream.start", {"videoId", "streamServer"}, {}>>,
     <<"stream.stop", {"videoId"}, {}>>, <<"stream.split_screen", {"enabled"}, {}>>,
     <<"dock.open_cover", {}, {}>>, <<"dock.close_cover", {}, {"force"}>>,
     <<"dock.start_charging", {}, {}>>, <<"dock.stop_charging", {}, {}>>,
     <<"asset.reboot", {}, {}>>, <<"asset.boot_sub_asset", {"enabled"}, {}>>,
     <<"asset.remote_debug", {"enabled"}, {}>>, <<"asset.change_ac_mode", {"mode"}, {}>>,
     <<"mission.waypoint.execute", {"waypoints"}, {}>>, <<"mission.pause", {}, {}>>,
     <<"mission.resume", {}, {}>>, <<"mission.stop", {}, {"taskId"}>>,
     <<"mission.prepare", {"taskId"}, {}>>, <<"mission.start", {"taskId"}, {}>>,
     <<"detections.stream", {}, {}>>}

\* What a command's schema requires, and all it knows.
RequiredParams(id) == UNION {c[2] : c \in {d \in Catalog : d[1] = id}}

Params(id) == UNION {c[2] \cup c[3] : c \in {d \in Catalog : d[1] = id}}

Parameters == UNION {c[2] \cup c[3] : c \in Catalog}

\* The fields of typed requests that may be left unset.
UnsetFields ==
    {<<"return_to_home", "altitude">>, <<"look_at", "payloadIndex">>, <<"look_at", "locked">>,
     <<"close_cover", "force">>, <<"change_lens", "lens">>, <<"change_zoom", "lens">>,
     <<"change_zoom", "zoom">>}

\* What the inherited body of a typed method delegates to: the id, and the keys of the
\* parameters it builds for the handler, each there whether or not its field is set.
FlightBodies ==
    {<<"take_off", "flight.takeoff", Position>>, <<"go_to", "navigation.go_to", Position>>,
     <<"return_to_home", "flight.return_to_home", {"altitude"}>>,
     <<"enter_manual_control", "flight.manual.enter", {}>>,
     <<"exit_manual_control", "flight.manual.exit", {}>>,
     <<"look_at", "gimbal.look_at", Position \cup {"payloadIndex", "locked"}>>,
     <<"take_photo", "camera.take_photo", {}>>,
     <<"enable_gimbal_tracking", "gimbal.tracking", {"enabled"}>>}

AssetBodies ==
    {<<"open_cover", "dock.open_cover", {}>>, <<"close_cover", "dock.close_cover", {"force"}>>,
     <<"start_charging", "dock.start_charging", {}>>,
     <<"stop_charging", "dock.stop_charging", {}>>, <<"reboot_asset", "asset.reboot", {}>>,
     <<"boot_up_sub_asset", "asset.boot_sub_asset", {"enabled"}>>,
     <<"boot_down_sub_asset", "asset.boot_sub_asset", {"enabled"}>>,
     <<"enter_or_close_remote_debug_mode", "asset.remote_debug", {"enabled"}>>,
     <<"change_ac_mode", "asset.change_ac_mode", {"mode"}>>,
     <<"start_live_stream", "stream.start", {"videoId", "streamServer"}>>,
     <<"stop_live_stream", "stream.stop", {"videoId"}>>,
     <<"change_lens", "camera.change_lens", {"lens"}>>,
     <<"change_zoom", "camera.change_zoom", {"lens", "zoom"}>>,
     <<"capture_photo", "camera.capture_photo", {}>>,
     <<"start_recording", "camera.start_recording", {}>>,
     <<"stop_recording", "camera.stop_recording", {}>>,
     <<"prepare_task", "mission.prepare", {"taskId"}>>,
     <<"start_task", "mission.start", {"taskId"}>>, <<"stop_task", "mission.stop", {"taskId"}>>}

Bodies == FlightBodies \cup AssetBodies

\* The parameters that the body of m builds if the caller has set those given.  Of a
\* field that is not set None is handed on, which the schemas do not allow as a value;
\* only force is made FALSE.
BodyArguments(m, given) ==
    [p \in UNION {b[3] : b \in {d \in Bodies : d[1] = m}} |->
        IF p \in given THEN "own" ELSE IF p = "force" THEN "default" ELSE "none"]

Delegations == {<<b[1], b[2]>> : b \in Bodies}

\* The ids that are dispatched to a typed method, each with its method.  Of the two of
\* asset.boot_sub_asset the parameters of the call decide.
TypedDispatch ==
    {<<"flight.takeoff", "take_off">>, <<"navigation.go_to", "go_to">>,
     <<"flight.return_to_home", "return_to_home">>,
     <<"flight.manual.enter", "enter_manual_control">>,
     <<"flight.manual.exit", "exit_manual_control">>,
     <<"gimbal.look_at", "look_at">>, <<"gimbal.tracking", "enable_gimbal_tracking">>,
     <<"camera.take_photo", "take_photo">>, <<"camera.capture_photo", "capture_photo">>,
     <<"camera.change_lens", "change_lens">>, <<"camera.change_zoom", "change_zoom">>,
     <<"camera.start_recording", "start_recording">>,
     <<"camera.stop_recording", "stop_recording">>,
     <<"stream.start", "start_live_stream">>, <<"stream.stop", "stop_live_stream">>,
     <<"dock.open_cover", "open_cover">>, <<"dock.close_cover", "close_cover">>,
     <<"dock.start_charging", "start_charging">>, <<"dock.stop_charging", "stop_charging">>,
     <<"asset.reboot", "reboot_asset">>, <<"asset.boot_sub_asset", "boot_up_sub_asset">>,
     <<"asset.boot_sub_asset", "boot_down_sub_asset">>,
     <<"asset.remote_debug", "enter_or_close_remote_debug_mode">>,
     <<"asset.change_ac_mode", "change_ac_mode">>, <<"mission.prepare", "prepare_task">>,
     <<"mission.start", "start_task">>, <<"mission.stop", "stop_task">>}

\* The parameters that are read of a command sent by id, to build the method's request.
DispatchReads ==
    {<<"flight.takeoff", Position>>, <<"navigation.go_to", Position>>,
     <<"flight.return_to_home", {"altitude"}>>,
     <<"flight.manual.enter", {"clientId", "userId", "sessionId", "reason"}>>,
     <<"flight.manual.exit", {"clientId", "userId", "sessionId", "reason"}>>,
     <<"gimbal.look_at", Position \cup {"payloadIndex", "locked"}>>,
     <<"gimbal.tracking", {"enabled"}>>, <<"camera.change_lens", {"lens"}>>,
     <<"camera.change_zoom", {"lens", "zoom"}>>, <<"stream.start", {"videoId", "streamServer"}>>,
     <<"stream.stop", {"videoId"}>>, <<"dock.close_cover", {"force"}>>,
     <<"asset.boot_sub_asset", {"enabled"}>>, <<"asset.remote_debug", {"enabled"}>>,
     <<"asset.change_ac_mode", {"mode"}>>, <<"mission.prepare", {"taskId"}>>,
     <<"mission.start", {"taskId"}>>, <<"mission.stop", {"taskId"}>>}

\* Fault: a coordinate that is not sent is zero, which is a place.
AbsentZero(p) == IF p \in {"payloadIndex", "locked", "lens", "reason"} THEN "none" ELSE "default"

\* What stands for a parameter that was not sent: None, NaN in a coordinate, or the value
\* of a type: an empty string, zero, FALSE, IDLE.
Absent(p) ==
    IF p \in Position \cup {"payloadIndex", "locked", "lens", "reason"} THEN "none" ELSE "default"

\* The request that the typed method gets if the caller has sent the parameters given.
DispatchArguments(id, given) ==
    [p \in UNION {r[2] : r \in {s \in DispatchReads : s[1] = id}} |->
        IF p \in given THEN "own" ELSE Absent(p)]

\* What the parameters sent with an id may select.
Selectable(id) ==
    IF \E t \in TypedDispatch : t[1] = id THEN {t[2] : t \in {u \in TypedDispatch : u[1] = id}}
    ELSE {"none"}

CatalogIds == {c[1] : c \in Catalog}

Ids == CatalogIds \cup VendorIds

Methods ==
    {t[1] : t \in MethodCommands} \cup {"register_asset", "deregister_asset", "send_custom_command"}

CapabilityStates ==
    {"AVAILABLE", "TEMPORARILY_UNAVAILABLE", "UNSUPPORTED", "REQUIRES_AUTHORIZATION"}

ASSUME CommandsAssumption ==
    /\ VendorIds \cap CatalogIds = {}
    /\ Adapters \subseteq SUBSET Methods
    /\ Registrable \subseteq Ids \X CapabilityStates

VARIABLES
    overrides,          \* the methods the adapter's class overrides
    registry,           \* the state it has declared for an id, or "absent"
    handlers            \* the ids registered with a handler

commandVars == <<overrides, registry, handlers>>

CommandsTypeOK ==
    /\ overrides \subseteq Methods
    /\ registry \in [Ids -> CapabilityStates \cup {"absent"}]
    /\ handlers \subseteq Ids

CommandsInit ==
    /\ overrides \in Adapters
    /\ registry = [id \in Ids |-> "absent"]
    /\ handlers = {}

\* register_command(): a new declaration of an id replaces the earlier one.
RegisterCommand(id, state, handler) ==
    /\ registry' = [registry EXCEPT ![id] = state]
    /\ handlers' = IF handler THEN handlers \cup {id} ELSE handlers \ {id}
    /\ UNCHANGED overrides

CommandsNext ==
    \E d \in Registrable, handler \in BOOLEAN : RegisterCommand(d[1], d[2], handler)

-----------------------------------------------------------------------------
(***************************************************************************)
(* The three computations that have to agree.                              *)
(***************************************************************************)

\* Fault: a method counts only if it is overridden.
SupportsOverridden(m) == m = "send_custom_command" \/ m \in overrides

\* Fault: a declaration counts even without a handler.
SupportsDeclared(m) ==
    \/ m = "send_custom_command"
    \/ m \in overrides
    \/ \E id \in Ids : registry[id] # "absent" /\ <<m, id>> \in MethodCommands

\* What the server admits.
SupportsMethod(m) ==
    \/ m = "send_custom_command"
    \/ m \in overrides
    \/ \E id \in handlers : <<m, id>> \in MethodCommands

\* The code that runs when method m is called: the adapter's own method, the handler
\* the inherited body delegates to, or nobody's.
Delegate(m) == IF \E id \in handlers : <<m, id>> \in Delegations THEN "handler" ELSE "nobody"

MethodServedBy(m) == IF m \in overrides THEN "method" ELSE Delegate(m)

\* Fault: only handlers are dispatched to.
HandlerServedBy(id, m) == IF id \in handlers THEN "handler" ELSE "nobody"

\* ... and when command id is sent whose parameters, if it is dispatched, select m.
IdServedBy(id, m) ==
    IF id \in handlers THEN "handler"
    ELSE IF <<id, m>> \in TypedDispatch THEN MethodServedBy(m) ELSE "nobody"

\* Command id runs, for some parameters.
Runs(id) == \E m \in Selectable(id) : IdServedBy(id, m) # "nobody"

\* Fault: the catalog wins over the declarations.
CatalogCapability(id) ==
    IF \E m \in overrides : <<m, id>> \in MethodCommands THEN "AVAILABLE"
    ELSE IF id \in CatalogIds THEN "UNSUPPORTED" ELSE registry[id]

\* The state under which id appears in _auto_capabilities(), if it does.
Capability(id) ==
    IF registry[id] # "absent" THEN registry[id]
    ELSE IF \E m \in overrides : <<m, id>> \in MethodCommands THEN "AVAILABLE"
    ELSE IF id \in CatalogIds THEN "UNSUPPORTED" ELSE "absent"

-----------------------------------------------------------------------------

\* "An adapter that registers flight.takeoff serves both TakeOff and
\* SendCustomCommand{command_id: "flight.takeoff"} without writing either twice"
\* (adapter/base.py:338-340): however a command is implemented and declared again, the
\* typed RPC is admitted if and only if it is served, and served if and only if the
\* same command sent by id is.
SameBothWays ==
    \A t \in TypedDispatch :
        LET m == t[2] IN
        /\ SupportsMethod(m) <=> MethodServedBy(m) # "nobody"
        /\ MethodServedBy(m) # "nobody" <=> IdServedBy(t[1], m) # "nobody"

\* What the adapter says it can do, it can: a command that is advertised AVAILABLE,
\* not by a declaration without a handler, runs by id for some parameters
\* (adapter/base.py:306-316).  Streams are not dispatched by id.
AdvertisedRuns ==
    \A id \in Ids \ StreamingCommands :
        Capability(id) = "AVAILABLE" /\ (registry[id] # "absent" => id \in handlers)
            => Runs(id)

\* And what it can do, it says: a command that runs by id is advertised as it was
\* declared, or else AVAILABLE (adapter/commands.py:7-16).
ServedIsAdvertised ==
    \A id \in Ids :
        Runs(id) => Capability(id) = (IF registry[id] = "absent" THEN "AVAILABLE" ELSE registry[id])
=============================================================================
