--------------------------- MODULE CommandsProofs ---------------------------
(***************************************************************************)
(* The two ways to a command agree, whatever an adapter overrides and      *)
(* declares.  It rests on the four tables alone.                           *)
(***************************************************************************)
EXTENDS Commands, TLAPS

\* Every id that is dispatched to a method is the id that this method's body delegates to.
LEMMA DispatchMirrorsBodies ==
    \A t \in TypedDispatch : <<t[2], t[1]>> \in Delegations
<1>1. ASSUME NEW t \in TypedDispatch PROVE \E b \in Bodies : b[1] = t[2] /\ b[2] = t[1]
    BY DEF TypedDispatch, Bodies, FlightBodies, AssetBodies
<1> QED BY <1>1 DEF Delegations

\* The methods and ids of the first table are those of the bodies, and the two streams.
LEMMA MethodsAreBodies ==
    MethodCommands = Delegations \cup {<<"manual_control_input", "flight.manual.input">>,
                                      <<"get_detections", "detections.stream">>}
<1>1. ASSUME NEW t \in MethodCommands
      PROVE  \/ t = <<"manual_control_input", "flight.manual.input">>
             \/ t = <<"get_detections", "detections.stream">>
             \/ \E b \in Bodies : t = <<b[1], b[2]>>
    BY DEF MethodCommands, Bodies, FlightBodies, AssetBodies
<1>2. ASSUME NEW b \in Bodies PROVE <<b[1], b[2]>> \in MethodCommands
    BY DEF MethodCommands, Bodies, FlightBodies, AssetBodies
<1>3. /\ <<"manual_control_input", "flight.manual.input">> \in MethodCommands
      /\ <<"get_detections", "detections.stream">> \in MethodCommands
    BY DEF MethodCommands
<1> QED BY <1>1, <1>2, <1>3 DEF Delegations

\* No stream is dispatched by id, and neither is the call by id itself.
LEMMA StreamsAreNotDispatched ==
    \A t \in TypedDispatch :
        t[2] \notin {"manual_control_input", "get_detections", "send_custom_command"}
BY DEF TypedDispatch

\* A method's body delegates to one id only.
LEMMA OneIdPerMethod ==
    ASSUME NEW m, NEW id, NEW h, <<m, id>> \in Delegations, <<m, h>> \in Delegations
    PROVE  id = h
<1>1. PICK b \in Bodies, d \in Bodies : /\ m = b[1] /\ id = b[2]
                                       /\ m = d[1] /\ h = d[2]
    BY DEF Delegations
<1>2. ASSUME NEW x \in FlightBodies, NEW y \in FlightBodies, x[1] = y[1] PROVE x[2] = y[2]
    BY <1>2 DEF FlightBodies
<1>3. ASSUME NEW x \in AssetBodies, NEW y \in AssetBodies, x[1] = y[1] PROVE x[2] = y[2]
    BY <1>3 DEF AssetBodies
<1>4. ASSUME NEW x \in FlightBodies, NEW y \in AssetBodies PROVE x[1] # y[1]
    BY DEF FlightBodies, AssetBodies
<1> QED BY <1>1, <1>2, <1>3, <1>4 DEF Bodies

\* What SameBothWays claims of the server's answers holds of every adapter: a typed RPC
\* is admitted if and only if it is served, and served if and only if its id is, for any
\* set of overridden methods and any declarations.
THEOREM TwoWaysAgree == SameBothWays
<1> SUFFICES ASSUME NEW t \in TypedDispatch
             PROVE  /\ SupportsMethod(t[2]) <=> MethodServedBy(t[2]) # "nobody"
                    /\ MethodServedBy(t[2]) # "nobody" <=> IdServedBy(t[1], t[2]) # "nobody"
    BY DEF SameBothWays
<1> DEFINE m == t[2]
<1>1. <<m, t[1]>> \in Delegations /\ <<t[1], m>> \in TypedDispatch
    <2>1. t = <<t[1], t[2]>>
        BY DEF TypedDispatch
    <2> QED BY <2>1, DispatchMirrorsBodies
<1>2. ASSUME NEW id PROVE <<m, id>> \in MethodCommands <=> <<m, id>> \in Delegations
    BY MethodsAreBodies, StreamsAreNotDispatched
<1>3. SupportsMethod(m) <=> m \in overrides \/ \E id \in handlers : <<m, id>> \in Delegations
    BY <1>2, StreamsAreNotDispatched DEF SupportsMethod
<1>4. MethodServedBy(m) # "nobody"
        <=> m \in overrides \/ \E id \in handlers : <<m, id>> \in Delegations
    BY DEF MethodServedBy, Delegate
<1>5. IdServedBy(t[1], m) # "nobody" <=> t[1] \in handlers \/ MethodServedBy(m) # "nobody"
    BY <1>1 DEF IdServedBy
<1> QED BY <1>1, <1>3, <1>4, <1>5

\* What runs by id is advertised, as it was declared or else AVAILABLE, whatever has been
\* overridden: a handler comes with a declaration (DeclaredHandlers, kept by every step).
DeclaredHandlers == \A id \in handlers : registry[id] # "absent"

LEMMA RunsIsAdvertised ==
    ASSUME DeclaredHandlers PROVE ServedIsAdvertised
<1> SUFFICES ASSUME NEW id \in Ids, Runs(id), registry[id] = "absent"
             PROVE  Capability(id) = "AVAILABLE"
    BY DEF ServedIsAdvertised, Capability
<1>1. id \notin handlers
    BY DEF DeclaredHandlers
<1>2. PICK m : <<id, m>> \in TypedDispatch /\ MethodServedBy(m) # "nobody"
    BY <1>1 DEF Runs, IdServedBy
<1>3. CASE m \in overrides
    <2>1. <<m, id>> \in MethodCommands
        BY <1>2, DispatchMirrorsBodies, MethodsAreBodies
    <2> QED BY <1>3, <2>1 DEF Capability
<1>4. CASE \E h \in handlers : <<m, h>> \in Delegations
    <2>1. PICK h \in handlers : <<m, h>> \in Delegations
        BY <1>4
    <2>2. <<m, id>> \in Delegations
        BY <1>2, DispatchMirrorsBodies
    <2>3. h = id
        BY <2>1, <2>2, OneIdPerMethod
    <2> QED BY <1>1, <2>1, <2>3
<1> QED BY <1>2, <1>3, <1>4 DEF MethodServedBy, Delegate

\* What AdvertisedRuns claims of the capability snapshot holds of every adapter: only a
\* stream or a declaration without a handler is AVAILABLE and does not run by id.
THEOREM AdvertisedAlwaysRuns == AdvertisedRuns
<1> SUFFICES ASSUME NEW id \in Ids, id \notin StreamingCommands, Capability(id) = "AVAILABLE",
                    registry[id] # "absent" => id \in handlers
             PROVE  Runs(id)
    BY DEF AdvertisedRuns
<1>1. CASE id \in handlers
    <2>1. Selectable(id) # {}
        BY DEF Selectable
    <2> QED BY <1>1, <2>1 DEF Runs, IdServedBy
<1>2. CASE id \notin handlers
    <2>1. PICK m \in overrides : <<m, id>> \in MethodCommands
        BY <1>2 DEF Capability
    <2>2. <<id, m>> \in TypedDispatch
        <3>1. ASSUME NEW t \in MethodCommands, t[2] \notin StreamingCommands
              PROVE  <<t[2], t[1]>> \in TypedDispatch
            BY <3>1 DEF MethodCommands, StreamingCommands, TypedDispatch
        <3> QED BY <2>1, <3>1
    <2>3. m \in Selectable(id)
        BY <2>2 DEF Selectable
    <2> QED BY <1>2, <2>1, <2>2, <2>3 DEF Runs, IdServedBy, MethodServedBy
<1> QED BY <1>1, <1>2

-----------------------------------------------------------------------------
(***************************************************************************)
(* Parameters.                                                             *)
(***************************************************************************)

\* A body builds what the schema of its id knows.
LEMMA BodiesFollowSchemas ==
    \A b \in Bodies : b[3] = Params(b[2])
<1>1. ASSUME NEW b \in FlightBodies, NEW cat \in Catalog, cat[1] = b[2]
      PROVE  cat[2] \cup cat[3] = b[3]
    BY <1>1 DEF FlightBodies, Catalog, Position
<1>2. ASSUME NEW b \in AssetBodies, NEW cat \in Catalog, cat[1] = b[2]
      PROVE  cat[2] \cup cat[3] = b[3]
    BY <1>2 DEF AssetBodies, Catalog
<1>3. ASSUME NEW b \in Bodies PROVE \E cat \in Catalog : cat[1] = b[2]
    BY DEF Bodies, FlightBodies, AssetBodies, Catalog
<1> QED BY <1>1, <1>2, <1>3 DEF Bodies, Params

\* Of a command that is dispatched, all that its schema knows is read.
LEMMA DispatchReadsSchemas ==
    ASSUME NEW t \in TypedDispatch, NEW p \in Params(t[1])
    PROVE  \E r \in DispatchReads : r[1] = t[1] /\ p \in r[2]
<1>1. PICK cat \in Catalog : cat[1] = t[1] /\ p \in cat[2] \cup cat[3]
    BY DEF Params
<1>2. \E r \in DispatchReads : r[1] = cat[1] /\ cat[2] \cup cat[3] \subseteq r[2]
    BY <1>1 DEF Catalog, DispatchReads, TypedDispatch, Position
<1> QED BY <1>1, <1>2

\* A parameter that need not be sent is read as not set, but for a flag and a task id.
LEMMA AbsentIsNone ==
    ASSUME NEW r \in DispatchReads, NEW p \in r[2], p \in Parameters, p \notin RequiredParams(r[1])
    PROVE  Absent(p) = "none" \/ p \in {"force", "taskId"}
<1>1. ASSUME NEW cat \in Catalog, cat[1] = r[1] PROVE p \notin cat[2]
    BY <1>1 DEF RequiredParams
<1>2. p \notin {"clientId", "userId", "sessionId"}
    BY DEF Parameters, Catalog, Position
<1> DEFINE needed == {<<"gimbal.tracking", "enabled">>, <<"camera.change_zoom", "zoom">>,
                      <<"stream.start", "videoId">>, <<"stream.start", "streamServer">>,
                      <<"stream.stop", "videoId">>, <<"asset.boot_sub_asset", "enabled">>,
                      <<"asset.remote_debug", "enabled">>, <<"asset.change_ac_mode", "mode">>}
<1>3. \/ p \in Position \cup {"payloadIndex", "locked", "lens", "reason", "force", "taskId"}
      \/ p \in {"clientId", "userId", "sessionId"}
      \/ <<r[1], p>> \in needed
    <2>1. \/ r[2] \in {Position, {"altitude"}, Position \cup {"payloadIndex", "locked"}, {"lens"},
                     {"force"}, {"taskId"}, {"clientId", "userId", "sessionId", "reason"}}
          \/ r \in {<<"gimbal.tracking", {"enabled"}>>, <<"camera.change_zoom", {"lens", "zoom"}>>,
                   <<"stream.start", {"videoId", "streamServer"}>>, <<"stream.stop", {"videoId"}>>,
                   <<"asset.boot_sub_asset", {"enabled"}>>, <<"asset.remote_debug", {"enabled"}>>,
                   <<"asset.change_ac_mode", {"mode"}>>}
        BY DEF DispatchReads
    <2>2. "altitude" \in Position
        BY DEF Position
    <2>3. CASE r[2] \in {Position, {"altitude"}, Position \cup {"payloadIndex", "locked"}, {"lens"},
                        {"force"}, {"taskId"}, {"clientId", "userId", "sessionId", "reason"}}
        BY <2>2, <2>3
    <2>4. CASE r \in {<<"gimbal.tracking", {"enabled"}>>, <<"camera.change_zoom", {"lens", "zoom"}>>,
                     <<"stream.start", {"videoId", "streamServer"}>>, <<"stream.stop", {"videoId"}>>,
                     <<"asset.boot_sub_asset", {"enabled"}>>, <<"asset.remote_debug", {"enabled"}>>,
                     <<"asset.change_ac_mode", {"mode"}>>}
        BY <2>4
    <2> QED BY <2>1, <2>3, <2>4
<1>4. ASSUME NEW n \in needed PROVE \E cat \in Catalog : cat[1] = n[1] /\ n[2] \in cat[2]
    BY DEF Catalog
<1>5. <<r[1], p>> \notin needed
    <2> HIDE DEF needed
    <2> QED BY <1>1, <1>4
<1> QED BY <1>2, <1>3, <1>5 DEF Absent
=============================================================================
