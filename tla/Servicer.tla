------------------------------ MODULE Servicer ------------------------------
(***************************************************************************)
(* A call of the platform into the adapter, from the interceptor to its    *)
(* answer (server/edge_server.py, auth.py, server/_converters.py): who may *)
(* call, what is admitted, which code of the adapter runs, and what the    *)
(* caller is told of it.  While a call waits, the adapter may declare its  *)
(* commands anew.  An action is the code between two awaits.               *)
(***************************************************************************)
EXTENDS Commands, Authentication, Sequences

CONSTANTS
    Calls,              \* the calls that are made
    Rpcs,               \* the RPCs the platform calls, by the name of their method
    SentIds,            \* the command ids it sends
    MaxFrames           \* bound on the messages of a stream

ASSUME ServicerAssumption ==
    /\ Rpcs \subseteq Methods \cup {"health", "get_capabilities"}
    /\ SentIds \subseteq Ids
    /\ MaxFrames \in Nat

VARIABLES
    pc,                 \* where the call is
    req,                \* the request
    token,              \* the token it carries
    servedBy,           \* the adapter's code that runs it
    response,           \* history: how that ended
    answer,             \* what the caller is told
    sent,               \* messages put into the stream, by the client or by the adapter
    ended,              \* the client has closed its half of the stream
    first,              \* the message taken off the stream to find the asset
    inbox,              \* the client's messages that have not been read
    handed              \* the messages handed to the other side

streamVars == <<sent, ended, first, inbox, handed>>
callVars == <<pc, req, token, servedBy, response, answer, streamVars>>
vars == <<commandVars, authVars, callVars>>

-----------------------------------------------------------------------------

\* The calls that are not gated on what the adapter supports.
Ungated == {"health", "get_capabilities"}

\* decodes: the enumerations in the request have values known to this SDK.
\* given: the parameters that the caller has set.
Requests ==
    [method : Methods \cup Ungated, id : Ids \cup {"none"}, selects : Methods \cup {"none"},
     decodes : BOOLEAN, given : SUBSET Parameters]

\* The parameters of the command that a method implements.
ParamsOf(m) == UNION {Params(t[2]) : t \in {u \in MethodCommands : u[1] = m}}

\* The RPCs whose request holds an enumeration.
EnumRpcs == {"change_ac_mode", "start_live_stream"}

\* A caller sets the fields of a typed request, but for some that may be left unset.
TypedRequestsOf(m) ==
    [method : {m}, id : {"none"}, selects : {"none"},
     decodes : IF m \in EnumRpcs THEN BOOLEAN ELSE {TRUE},
     given : {g \in SUBSET ParamsOf(m) : \A p \in ParamsOf(m) \ g : <<m, p>> \in UnsetFields}]

TypedRequests == UNION {TypedRequestsOf(m) : m \in Rpcs \ {"send_custom_command"}}

\* Nobody compares what is sent with an id with its schema: all it requires may be there,
\* or nothing.  Only a flag that is set boots the sub-asset up.
IdRequestsOf(id) ==
    {q \in [method : {"send_custom_command"}, id : {id}, selects : Selectable(id), decodes : {TRUE},
            given : {g \in SUBSET Params(id) : RequiredParams(id) \subseteq g \/ g = {}}] :
        q.selects = "boot_up_sub_asset" => "enabled" \in q.given}

IdRequests == UNION {IdRequestsOf(id) : id \in SentIds}

\* What the adapter's code returns: an EdgeResponse or a CustomCommandResponse.
Responses ==
    [success : BOOLEAN, error : BOOLEAN, execution : {"none", "own"}]

\* The gRPC status, and the message that comes with OK.
Answers ==
    [status : {"none", "OK", "UNAUTHENTICATED", "UNIMPLEMENTED", "UNKNOWN", "INTERNAL", "CANCELLED"},
     errors : BOOLEAN, body : {"other", "error"}, execution : {"none", "own"}]

Status(s) == [status |-> s, errors |-> s # "OK", body |-> "other", execution |-> "none"]

-----------------------------------------------------------------------------
(***************************************************************************)
(* Conversion of results.                                                  *)
(***************************************************************************)

\* Fault: the execution id is dropped.
RelayedAnonymous(r) ==
    IF r.success THEN [success |-> TRUE, error |-> FALSE, execution |-> "none"]
    ELSE [success |-> FALSE, error |-> TRUE, execution |-> "none"]

\* _delegate() and _dispatch_typed() turn the response of one kind into one of the
\* other: only the execution id of a success and the error of a failure survive.
Relayed(r) ==
    IF r.success THEN [success |-> TRUE, error |-> FALSE, execution |-> r.execution]
    ELSE [success |-> FALSE, error |-> TRUE, execution |-> "none"]

\* Fault: a response is a failure if it brings an error.
ToProtoByError(r) ==
    [status |-> "OK", errors |-> r.error, execution |-> r.execution,
     body |-> IF r.error THEN "error" ELSE "other"]

\* A response on the wire: it brings the error, or else the stream, progress or result.
ToProto(r) ==
    [status |-> "OK", errors |-> ~r.success, execution |-> r.execution,
     body |-> IF r.error THEN "error" ELSE "other"]

NotSupported == [success |-> FALSE, error |-> TRUE, execution |-> "none"]

NoResponse == [success |-> FALSE, error |-> FALSE, execution |-> "none"]

\* An exception of the adapter's code is answered like a failure.
Raised == [success |-> FALSE, error |-> TRUE, execution |-> "none"]

\* A call may come one way and the code that runs be of the other.
FromTyped(q, by) == q.method # "send_custom_command" /\ by = "handler"

FromId(q, by) ==
    q.method = "send_custom_command" /\ by = "method" /\ "send_custom_command" \notin overrides

\* Then the response is relayed ...
Converted(r, q, by) == ToProto(IF FromTyped(q, by) \/ FromId(q, by) THEN Relayed(r) ELSE r)

\* ... and the parameters are those that _delegate() or _dispatch_typed() builds.
Arguments(q, by) ==
    IF FromTyped(q, by) THEN BodyArguments(q.method, q.given)
    ELSE IF FromId(q, by) THEN DispatchArguments(q.id, q.given)
    ELSE [p \in q.given |-> "own"]

-----------------------------------------------------------------------------

TypeOK ==
    /\ CommandsTypeOK
    /\ AuthTypeOK
    /\ pc \in [Calls -> {"idle", "sent", "admitted", "peeking", "running", "answered"}]
    /\ req \in [Calls -> Requests]
    /\ token \in [Calls -> Tokens]
    /\ servedBy \in [Calls -> {"method", "handler", "nobody"}]
    /\ response \in [Calls -> Responses]
    /\ answer \in [Calls -> Answers]
    /\ sent \in [Calls -> 0..MaxFrames]
    /\ ended \in [Calls -> BOOLEAN]
    /\ first \in [Calls -> 0..MaxFrames]
    /\ inbox \in [Calls -> Seq(1..MaxFrames)]
    /\ handed \in [Calls -> Seq(1..MaxFrames)]

NoRequest ==
    [method |-> "health", id |-> "none", selects |-> "none", decodes |-> TRUE, given |-> {}]

NoToken == [flaw |-> "unreadable", iat |-> -1, exp |-> -1]

Init ==
    /\ CommandsInit
    /\ AuthInit
    /\ pc = [c \in Calls |-> "idle"]
    /\ req = [c \in Calls |-> NoRequest]
    /\ token = [c \in Calls |-> NoToken]
    /\ servedBy = [c \in Calls |-> "nobody"]
    /\ response = [c \in Calls |-> NoResponse]
    /\ answer = [c \in Calls |-> Status("none")]
    /\ sent = [c \in Calls |-> 0]
    /\ ended = [c \in Calls |-> FALSE]
    /\ first = [c \in Calls |-> 0]
    /\ inbox = [c \in Calls |-> <<>>]
    /\ handed = [c \in Calls |-> <<>>]

\* The platform calls, with the token of the moment.
Send(c, q, t) ==
    /\ pc[c] = "idle"
    /\ pc' = [pc EXCEPT ![c] = "sent"]
    /\ req' = [req EXCEPT ![c] = q]
    /\ token' = [token EXCEPT ![c] = t]
    /\ UNCHANGED <<commandVars, authVars, servedBy, response, answer, streamVars>>

\* The interceptor judges the call when it arrives, and keeps nothing of the token.
Arrive(c) ==
    /\ pc[c] = "sent"
    /\ token' = [token EXCEPT ![c] = NoToken]
    /\ LET verdict == Check(req[c].method, token[c]) IN
        IF verdict = "proceed"
        THEN pc' = [pc EXCEPT ![c] = "admitted"] /\ UNCHANGED answer
        ELSE pc' = [pc EXCEPT ![c] = "answered"] /\ answer' = [answer EXCEPT ![c] = Status(verdict)]
    /\ UNCHANGED <<commandVars, authVars, req, servedBy, response, streamVars>>

\* The call is over.
Answer(c, a) ==
    /\ pc' = [pc EXCEPT ![c] = "answered"]
    /\ answer' = [answer EXCEPT ![c] = a]
    /\ UNCHANGED <<commandVars, authVars, req, token>>

Supported(c) == req[c].method \in Ungated \/ SupportsMethod(req[c].method)

\* The server answers health probes itself, and aborts what the adapter does not support.
Probe(c) ==
    /\ pc[c] = "admitted" /\ req[c].method = "health"
    /\ Answer(c, Status("OK"))
    /\ UNCHANGED <<servedBy, response, streamVars>>

Refuse(c) ==
    /\ pc[c] = "admitted" /\ ~Supported(c)
    /\ Answer(c, Status("UNIMPLEMENTED"))
    /\ UNCHANGED <<servedBy, response, streamVars>>

\* An enumeration is converted outside the block that turns exceptions into answers.
Undecodable(c) ==
    /\ pc[c] = "admitted" /\ Supported(c) /\ ~req[c].decodes
    /\ Answer(c, Status("UNKNOWN"))
    /\ UNCHANGED <<servedBy, response, streamVars>>

\* The handler of manual control waits for the first message to learn the asset.
BeginStream(c) ==
    /\ pc[c] = "admitted" /\ Supported(c) /\ req[c].method = "manual_control_input"
    /\ pc' = [pc EXCEPT ![c] = "peeking"]
    /\ UNCHANGED <<commandVars, authVars, req, token, servedBy, response, answer, streamVars>>

ServedBy(q) ==
    IF q.method = "get_capabilities" THEN "method"
    ELSE IF q.method # "send_custom_command" THEN MethodServedBy(q.method)
    ELSE IF q.method \in overrides THEN "method" ELSE IdServedBy(q.id, q.selects)

\* The adapter's code is entered, or the inherited body finds nobody to delegate to.
Enter(c) ==
    LET by == ServedBy(req[c]) IN
    /\ servedBy' = [servedBy EXCEPT ![c] = by]
    /\ IF by # "nobody"
       THEN /\ pc' = [pc EXCEPT ![c] = "running"]
            /\ UNCHANGED <<commandVars, authVars, req, token, answer>>
       ELSE Answer(c, IF req[c].method = "get_detections" THEN Status("UNIMPLEMENTED")
                      ELSE ToProto(NotSupported))
    /\ UNCHANGED response

Begin(c) ==
    /\ pc[c] = "admitted" /\ Supported(c) /\ req[c].decodes
    /\ req[c].method \notin {"health", "manual_control_input"}
    /\ Enter(c)
    /\ UNCHANGED streamVars

-----------------------------------------------------------------------------
(***************************************************************************)
(* Streams.                                                                *)
(***************************************************************************)

ClientSends(c) ==
    /\ req[c].method = "manual_control_input" /\ pc[c] \in {"admitted", "peeking", "running"}
    /\ ~ended[c] /\ sent[c] < MaxFrames
    /\ sent' = [sent EXCEPT ![c] = @ + 1]
    /\ inbox' = [inbox EXCEPT ![c] = Append(@, sent[c] + 1)]
    /\ UNCHANGED <<commandVars, authVars, pc, req, token, servedBy, response, answer, ended, first, handed>>

ClientHalfCloses(c) ==
    /\ req[c].method = "manual_control_input" /\ pc[c] \in {"admitted", "peeking", "running"}
    /\ ~ended[c]
    /\ ended' = [ended EXCEPT ![c] = TRUE]
    /\ UNCHANGED <<commandVars, authVars, pc, req, token, servedBy, response, answer, sent, first, inbox, handed>>

\* The first message says which asset is meant; the adapter gets it with the others.
Peek(c) ==
    /\ pc[c] = "peeking" /\ inbox[c] # <<>>
    /\ first' = [first EXCEPT ![c] = Head(inbox[c])]
    /\ inbox' = [inbox EXCEPT ![c] = Tail(@)]
    /\ Enter(c)
    /\ UNCHANGED <<sent, ended, handed>>

\* A stream without a message is answered without the adapter.
PeekEmpty(c) ==
    /\ pc[c] = "peeking" /\ inbox[c] = <<>> /\ ended[c]
    /\ Answer(c, Status("OK"))
    /\ UNCHANGED <<servedBy, response, streamVars>>

\* Fault: the message that was taken off is handed over whether or not it still waits.
AdapterReadsBlindly(c) ==
    /\ pc[c] = "running"
    /\ handed' = [handed EXCEPT ![c] = Append(@, first[c])]
    /\ first' = [first EXCEPT ![c] = 0]
    /\ UNCHANGED <<commandVars, authVars, pc, req, token, servedBy, response, answer, sent, ended, inbox>>

\* Fault: the message that was taken off is not put back.
AdapterReadsRest(c) ==
    /\ pc[c] = "running" /\ inbox[c] # <<>>
    /\ handed' = [handed EXCEPT ![c] = Append(@, Head(inbox[c]))]
    /\ inbox' = [inbox EXCEPT ![c] = Tail(@)]
    /\ first' = [first EXCEPT ![c] = 0]
    /\ UNCHANGED <<commandVars, authVars, pc, req, token, servedBy, response, answer, sent, ended>>

\* The adapter iterates over the messages: the one taken off, then the rest.
AdapterReads(c) ==
    /\ pc[c] = "running"
    /\ IF first[c] # 0
       THEN /\ handed' = [handed EXCEPT ![c] = Append(@, first[c])]
            /\ first' = [first EXCEPT ![c] = 0]
            /\ UNCHANGED inbox
       ELSE /\ inbox[c] # <<>>
            /\ handed' = [handed EXCEPT ![c] = Append(@, Head(inbox[c]))]
            /\ inbox' = [inbox EXCEPT ![c] = Tail(@)]
            /\ UNCHANGED first
    /\ UNCHANGED <<commandVars, authVars, pc, req, token, servedBy, response, answer, sent, ended>>

\* The adapter yields detections that all have a box.
AdapterYields(c) ==
    /\ pc[c] = "running" /\ req[c].method = "get_detections" /\ sent[c] < MaxFrames
    /\ sent' = [sent EXCEPT ![c] = @ + 1]
    /\ handed' = [handed EXCEPT ![c] = Append(@, sent[c] + 1)]
    /\ UNCHANGED <<commandVars, authVars, pc, req, token, servedBy, response, answer, ended, first, inbox>>

\* Of a detection without a box the box is read all the same.
AdapterYieldsBoxless(c) ==
    /\ pc[c] = "running" /\ req[c].method = "get_detections"
    /\ Answer(c, Status("INTERNAL"))
    /\ UNCHANGED <<servedBy, response, streamVars>>

-----------------------------------------------------------------------------

\* The adapter's code returns a response, or it raises.
AdapterReturns(c, r) ==
    /\ pc[c] = "running" /\ req[c].method # "get_detections"
    /\ req[c].method = "get_capabilities" => r.success /\ ~r.error /\ r.execution = "none"
    /\ response' = [response EXCEPT ![c] = r]
    /\ Answer(c, Converted(r, req[c], servedBy[c]))
    /\ UNCHANGED <<servedBy, streamVars>>

AdapterRaises(c) ==
    /\ pc[c] = "running"
    /\ response' = [response EXCEPT ![c] = Raised]
    /\ \/ req[c].method # "get_detections" /\ Answer(c, ToProto(Raised))
       \/ req[c].method = "get_detections" /\ Answer(c, Status("INTERNAL"))
       \/ req[c].method = "get_detections" /\ Answer(c, Status("UNIMPLEMENTED"))
    /\ UNCHANGED <<servedBy, streamVars>>

DetectionsEnd(c) ==
    /\ pc[c] = "running" /\ req[c].method = "get_detections"
    /\ response' = [response EXCEPT ![c] = [NoResponse EXCEPT !.success = TRUE]]
    /\ Answer(c, Status("OK"))
    /\ UNCHANGED <<servedBy, streamVars>>

\* The caller gives up.  The cancellation is not an Exception, and is not answered.
Cancel(c) ==
    /\ pc[c] \in {"admitted", "peeking", "running"}
    /\ Answer(c, Status("CANCELLED"))
    /\ UNCHANGED <<servedBy, response, streamVars>>

CallNext(c) ==
    \/ pc[c] = "idle" /\ \E q \in TypedRequests \cup IdRequests, t \in Headers(platformNow) : Send(c, q, t)
    \/ Arrive(c) \/ Probe(c) \/ Refuse(c) \/ Undecodable(c) \/ BeginStream(c) \/ Begin(c)
    \/ ClientSends(c) \/ ClientHalfCloses(c) \/ Peek(c) \/ PeekEmpty(c)
    \/ AdapterReads(c) \/ AdapterYields(c) \/ AdapterYieldsBoxless(c)
    \/ \E r \in Responses : AdapterReturns(c, r)
    \/ AdapterRaises(c) \/ DetectionsEnd(c) \/ Cancel(c)

Declare == CommandsNext /\ UNCHANGED <<authVars, callVars>>

Tick == AuthNext /\ UNCHANGED <<commandVars, callVars>>

Next == (\E c \in Calls : CallNext(c)) \/ Declare \/ Tick

Spec == Init /\ [][Next]_vars

-----------------------------------------------------------------------------

\* A call that carries the platform's own token is let in as long as that token is valid
\* by the platform's clock, wherever the two clocks stand when it arrives (auth.py:103-110).
FreshCall(c) ==
    /\ pc[c] = "sent" /\ pc'[c] # "sent" /\ auth = "key"
    /\ token[c].flaw = "none" /\ token[c].iat # -1 /\ token[c].exp >= platformNow
    => pc'[c] = "admitted"

FreshAccepted == [][\A c \in Calls : FreshCall(c)]_vars

\* Nothing else is: with a key only an unflawed token that has an expiry, and that the
\* platform would have taken within twice the clocks' distance; without one nothing but
\* health probes (auth.py:79-111, 240-258).
ValidCall(c) ==
    pc[c] = "sent" /\ pc'[c] = "admitted" /\ req[c].method # "health" /\ auth # "disabled" =>
        /\ auth = "key" /\ token[c].flaw = "none" /\ token[c].exp # -1
        /\ platformNow <= token[c].exp + Skew + Drift

OnlyValidAdmitted == [][\A c \in Calls : ValidCall(c)]_vars

\* The caller is told of errors if and only if the adapter's code failed, and the
\* execution id of what it started reaches the caller, also when the response is relayed
\* from one kind of call to the other (adapter/base.py:306-353, _converters.py:846-945):
\* the platform cancels by that id (models/common.py:321-327).
AnswerTruthful ==
    \A c \in Calls :
        answer[c].status = "OK" /\ servedBy[c] # "nobody" =>
            /\ answer[c].errors <=> ~response[c].success
            /\ response[c].success => answer[c].execution = response[c].execution

\* The adapter gets every message of a manual-control stream once and in order, the one
\* that was taken off the stream first included (server/edge_server.py:237-252).
StreamIntact ==
    \A c \in Calls :
        handed[c] \o (IF first[c] = 0 THEN <<>> ELSE <<first[c]>>) \o inbox[c]
            = [i \in 1..sent[c] |-> i]

\* Whichever way a command comes and whichever code runs it, what the caller has set
\* arrives, and what it has not set arrives as not set, never as a value made up on the
\* way: "0.0 would be Null Island" (adapter/base.py:621-626).  An optional flag or task id
\* becomes FALSE or empty.  A handler behind a typed method gets no parameter that the
\* schema does not know (adapter/base.py:117-123), but it gets those that are not set as
\* None, which the schema does not allow.  A call by id is held to send what is required.
ArgumentsCarried ==
    \A c \in Calls :
        LET q == req[c]
            arguments == Arguments(q, servedBy[c])
        IN  pc[c] = "running" /\ RequiredParams(q.id) \subseteq q.given =>
                /\ \A p \in q.given : p \in DOMAIN arguments /\ arguments[p] = "own"
                /\ \A p \in DOMAIN arguments \ q.given :
                        p \in Parameters => arguments[p] = "none" \/ p \in {"force", "taskId"}
                /\ FromTyped(q, servedBy[c]) => DOMAIN arguments \subseteq ParamsOf(q.method)

\* "a radar has none" (models/common.py:569): a detection may come without a box, so only
\* an adapter that raises makes the stream fail.
StreamFailsOnlyByAdapter ==
    \A c \in Calls : answer[c].status = "INTERNAL" => response[c] = Raised
=============================================================================
