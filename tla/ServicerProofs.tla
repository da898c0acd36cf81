--------------------------- MODULE ServicerProofs ---------------------------
(***************************************************************************)
(* Type correctness of the servicer, and what holds of every call whatever *)
(* the adapter overrides, declares and answers: who is let in, what the    *)
(* caller is told, and which messages reach the adapter.                   *)
(***************************************************************************)
EXTENDS Servicer, CommandsProofs, SequenceTheorems

\* The parameters of a command are among those of all.
LEMMA ParamsKnown ==
    /\ \A id : Params(id) \subseteq Parameters
    /\ \A m : ParamsOf(m) \subseteq Parameters
<1>1. ASSUME NEW id PROVE Params(id) \subseteq Parameters
    BY DEF Params, Parameters
<1> QED BY <1>1 DEF ParamsOf

\* What is set in a request is of the method, or of the id.
LEMMA SentGiven ==
    /\ \A q \in TypedRequests : q.method # "send_custom_command" /\ q.given \subseteq ParamsOf(q.method)
    /\ \A q \in IdRequests : q.method = "send_custom_command" /\ q.given \subseteq Params(q.id)
<1>1. ASSUME NEW q \in TypedRequests
      PROVE  q.method # "send_custom_command" /\ q.given \subseteq ParamsOf(q.method)
    <2>1. PICK m \in Rpcs \ {"send_custom_command"} : q \in TypedRequestsOf(m)
        BY DEF TypedRequests
    <2> QED BY <2>1 DEF TypedRequestsOf
<1>2. ASSUME NEW q \in IdRequests
      PROVE  q.method = "send_custom_command" /\ q.given \subseteq Params(q.id)
    <2>1. PICK id \in SentIds : q \in IdRequestsOf(id)
        BY DEF IdRequests
    <2> QED BY <2>1 DEF IdRequestsOf
<1> QED BY <1>1, <1>2

\* The requests and tokens that are sent are of their types.
LEMMA SentTyped ==
    /\ TypedRequests \cup IdRequests \subseteq Requests
    /\ \A s \in Times : Headers(s) \subseteq Tokens
    /\ NoRequest \in Requests /\ NoToken \in Tokens
<1>1. TypedRequests \subseteq Requests
    <2>1. ASSUME NEW q \in TypedRequests PROVE q \in Requests
        <3>1. PICK m \in Rpcs \ {"send_custom_command"} : q \in TypedRequestsOf(m)
            BY DEF TypedRequests
        <3>2. m \in Methods \cup Ungated /\ SUBSET ParamsOf(m) \subseteq SUBSET Parameters
            BY ServicerAssumption, ParamsKnown DEF Ungated
        <3> QED BY <3>1, <3>2 DEF TypedRequestsOf, Requests
    <2> QED BY <2>1
<1>2. IdRequests \subseteq Requests
    <2>1. ASSUME NEW t \in TypedDispatch PROVE t[2] \in Methods
        <3>1. <<t[2], t[1]>> \in MethodCommands
            BY DispatchMirrorsBodies, MethodsAreBodies
        <3> QED BY <3>1 DEF Methods
    <2>2. ASSUME NEW id PROVE Selectable(id) \subseteq Methods \cup {"none"}
        BY <2>1 DEF Selectable
    <2>3. ASSUME NEW q \in IdRequests PROVE q \in Requests
        <3>1. PICK id \in SentIds : q \in IdRequestsOf(id)
            BY DEF IdRequests
        <3>2. /\ id \in Ids /\ Selectable(id) \subseteq Methods \cup {"none"}
              /\ "send_custom_command" \in Methods
              /\ SUBSET Params(id) \subseteq SUBSET Parameters
            BY <2>2, ServicerAssumption, ParamsKnown DEF Methods
        <3> QED BY <3>1, <3>2 DEF IdRequestsOf, Requests
    <2> QED BY <2>3
<1>3. ASSUME NEW s \in Times PROVE Headers(s) \subseteq Tokens
    <2>1. Issued(s) \in Tokens
        BY AuthenticationAssumption DEF Issued, Tokens, Times, Flaws
    <2> QED BY <2>1 DEF Headers, Tokens, Flaws
<1>4. NoRequest \in Requests /\ NoToken \in Tokens
    BY DEF NoRequest, NoToken, Requests, Tokens, Flaws, Ungated
<1> QED BY <1>1, <1>2, <1>3, <1>4

\* Verdicts, statuses and conversions are of their types.
LEMMA AnswersTyped ==
    /\ \A m, t : Check(m, t) \in {"proceed", "UNAUTHENTICATED", "UNKNOWN"}
    /\ \A s \in {"none", "OK", "UNAUTHENTICATED", "UNIMPLEMENTED", "UNKNOWN", "INTERNAL",
                 "CANCELLED"} : Status(s) \in Answers
    /\ {NotSupported, NoResponse, Raised} \subseteq Responses
    /\ \A r \in Responses : ToProto(r) \in Answers /\ Relayed(r) \in Responses
<1>1. \A m, t : Check(m, t) \in {"proceed", "UNAUTHENTICATED", "UNKNOWN"}
    BY DEF Check
<1>2. ASSUME NEW s \in {"none", "OK", "UNAUTHENTICATED", "UNIMPLEMENTED", "UNKNOWN", "INTERNAL",
                        "CANCELLED"}
      PROVE  Status(s) \in Answers
    BY DEF Status, Answers
<1>3. {NotSupported, NoResponse, Raised} \subseteq Responses
    BY DEF NotSupported, NoResponse, Raised, Responses
<1>4. ASSUME NEW r \in Responses PROVE ToProto(r) \in Answers /\ Relayed(r) \in Responses
    <2>1. r.success \in BOOLEAN /\ r.error \in BOOLEAN /\ r.execution \in {"none", "own"}
        BY DEF Responses
    <2>2. (~r.success) \in BOOLEAN
        OBVIOUS
    <2>3. ToProto(r) \in Answers
        BY <2>1, <2>2 DEF ToProto, Answers
    <2>4. Relayed(r) \in Responses
        BY <2>1 DEF Relayed, Responses
    <2> QED BY <2>3, <2>4
<1> QED BY <1>1, <1>2, <1>3, <1>4

LEMMA ServedByTyped ==
    \A q : ServedBy(q) \in {"method", "handler", "nobody"}
BY DEF ServedBy, MethodServedBy, Delegate, IdServedBy

-----------------------------------------------------------------------------
(***************************************************************************)
(* Type correctness.                                                       *)
(***************************************************************************)

LEMMA InitTyped == Init => TypeOK
<1> SUFFICES ASSUME Init PROVE TypeOK
    OBVIOUS
<1>1. CommandsTypeOK
    BY CommandsAssumption DEF Init, CommandsInit, CommandsTypeOK
<1>2. AuthTypeOK
    <2>1. 0 \in 0..MaxTime
        BY AuthenticationAssumption
    <2> QED BY <2>1 DEF Init, AuthInit, AuthTypeOK, Times
<1>3. /\ pc \in [Calls -> {"idle", "sent", "admitted", "peeking", "running", "answered"}]
      /\ servedBy \in [Calls -> {"method", "handler", "nobody"}]
      /\ ended \in [Calls -> BOOLEAN]
    BY DEF Init
<1>4. /\ req \in [Calls -> Requests] /\ token \in [Calls -> Tokens]
      /\ response \in [Calls -> Responses] /\ answer \in [Calls -> Answers]
    BY SentTyped, AnswersTyped DEF Init
<1>5. sent \in [Calls -> 0..MaxFrames] /\ first \in [Calls -> 0..MaxFrames]
    BY ServicerAssumption DEF Init
<1>6. inbox \in [Calls -> Seq(1..MaxFrames)] /\ handed \in [Calls -> Seq(1..MaxFrames)]
    BY DEF Init
<1> QED BY <1>1, <1>2, <1>3, <1>4, <1>5, <1>6 DEF TypeOK

\* What every action of a call leaves typed that ends or goes on in the adapter's code.
LEMMA AnswerTyped ==
    ASSUME TypeOK, NEW c \in Calls, NEW a \in Answers, Answer(c, a)
    PROVE  /\ pc' \in [Calls -> {"idle", "sent", "admitted", "peeking", "running", "answered"}]
           /\ answer' \in [Calls -> Answers]
           /\ req' \in [Calls -> Requests] /\ token' \in [Calls -> Tokens]
           /\ CommandsTypeOK' /\ AuthTypeOK'
BY DEF TypeOK, Answer, CommandsTypeOK, AuthTypeOK, commandVars, authVars

LEMMA EnterTyped ==
    ASSUME TypeOK, NEW c \in Calls, Enter(c)
    PROVE  /\ pc' \in [Calls -> {"idle", "sent", "admitted", "peeking", "running", "answered"}]
           /\ answer' \in [Calls -> Answers]
           /\ req' \in [Calls -> Requests] /\ token' \in [Calls -> Tokens]
           /\ servedBy' \in [Calls -> {"method", "handler", "nobody"}]
           /\ response' \in [Calls -> Responses]
           /\ CommandsTypeOK' /\ AuthTypeOK'
<1>1. servedBy' \in [Calls -> {"method", "handler", "nobody"}] /\ response' \in [Calls -> Responses]
    BY ServedByTyped DEF TypeOK, Enter
<1>2. CASE ServedBy(req[c]) # "nobody"
    <2>1. /\ pc' = [pc EXCEPT ![c] = "running"]
          /\ UNCHANGED <<commandVars, authVars, req, token, answer>>
        BY <1>2 DEF Enter
    <2> QED BY <1>1, <2>1 DEF TypeOK, CommandsTypeOK, AuthTypeOK, commandVars, authVars
<1>3. CASE ServedBy(req[c]) = "nobody"
    <2>1. PICK a \in Answers : Answer(c, a)
        BY <1>3, AnswersTyped DEF Enter
    <2> QED BY <1>1, <2>1, AnswerTyped
<1> QED BY <1>2, <1>3

LEMMA CallTyped ==
    ASSUME TypeOK, NEW c \in Calls, CallNext(c) PROVE TypeOK'
<1>1. ASSUME NEW q \in TypedRequests \cup IdRequests, NEW t \in Headers(platformNow), Send(c, q, t)
      PROVE  TypeOK'
    <2>1. q \in Requests /\ t \in Tokens
        BY SentTyped DEF TypeOK, AuthTypeOK
    <2> QED BY <1>1, <2>1 DEF TypeOK, Send, CommandsTypeOK, AuthTypeOK, commandVars, authVars, streamVars
<1>2. CASE Arrive(c)
    <2>1. answer' \in [Calls -> Answers]
          /\ pc' \in [Calls -> {"idle", "sent", "admitted", "peeking", "running", "answered"}]
        <3>1. CASE Check(req[c].method, token[c]) = "proceed"
            BY <1>2, <3>1 DEF Arrive, TypeOK
        <3>2. CASE Check(req[c].method, token[c]) # "proceed"
            <4>1. Status(Check(req[c].method, token[c])) \in Answers
                BY <3>2, AnswersTyped
            <4>2. /\ pc' = [pc EXCEPT ![c] = "answered"]
                  /\ answer' = [answer EXCEPT ![c] = Status(Check(req[c].method, token[c]))]
                BY <1>2, <3>2 DEF Arrive
            <4> QED BY <4>1, <4>2 DEF TypeOK
        <3> QED BY <3>1, <3>2
    <2>2. token' \in [Calls -> Tokens]
        BY <1>2, SentTyped DEF Arrive, TypeOK
    <2> QED BY <1>2, <2>1, <2>2 DEF TypeOK, Arrive, CommandsTypeOK, AuthTypeOK, commandVars, authVars,
                                   streamVars
<1>3. CASE Probe(c) \/ Refuse(c) \/ Undecodable(c) \/ PeekEmpty(c) \/ AdapterYieldsBoxless(c) \/ Cancel(c)
    <2>1. PICK a \in Answers : Answer(c, a) /\ UNCHANGED <<servedBy, response, streamVars>>
        BY <1>3, AnswersTyped DEF Probe, Refuse, Undecodable, PeekEmpty, AdapterYieldsBoxless, Cancel
    <2> QED BY <2>1, AnswerTyped DEF TypeOK, streamVars
<1>4. CASE BeginStream(c)
    BY <1>4 DEF TypeOK, BeginStream, CommandsTypeOK, AuthTypeOK, commandVars, authVars, streamVars
<1>5. CASE Begin(c)
    BY <1>5, EnterTyped DEF TypeOK, Begin, streamVars
<1>6. CASE ClientSends(c)
    <2>1. sent[c] + 1 \in 0..MaxFrames /\ sent[c] + 1 \in 1..MaxFrames
        BY <1>6, ServicerAssumption DEF TypeOK, ClientSends
    <2>2. Append(inbox[c], sent[c] + 1) \in Seq(1..MaxFrames)
        BY <2>1 DEF TypeOK
    <2>3. sent' \in [Calls -> 0..MaxFrames] /\ inbox' \in [Calls -> Seq(1..MaxFrames)]
        BY <1>6, <2>1, <2>2 DEF TypeOK, ClientSends
    <2> QED BY <1>6, <2>3 DEF TypeOK, ClientSends, CommandsTypeOK, AuthTypeOK, commandVars, authVars
<1>7. CASE ClientHalfCloses(c)
    BY <1>7 DEF TypeOK, ClientHalfCloses, CommandsTypeOK, AuthTypeOK, commandVars, authVars
<1>8. CASE Peek(c)
    <2>1. /\ Head(inbox[c]) \in 1..MaxFrames /\ Tail(inbox[c]) \in Seq(1..MaxFrames)
          /\ Head(inbox[c]) \in 0..MaxFrames
        <3>1. inbox[c] \in Seq(1..MaxFrames) /\ inbox[c] # <<>>
            BY <1>8 DEF Peek, TypeOK
        <3>2. Head(inbox[c]) \in 1..MaxFrames /\ Tail(inbox[c]) \in Seq(1..MaxFrames)
            BY <3>1, HeadTailProperties
        <3>3. 1..MaxFrames \subseteq 0..MaxFrames
            BY ServicerAssumption
        <3> QED BY <3>2, <3>3
    <2>2. Enter(c)
        BY <1>8 DEF Peek
    <2> QED BY <1>8, <2>1, <2>2, EnterTyped DEF TypeOK, Peek
<1>9. CASE AdapterReads(c)
    <2>1. CASE first[c] # 0
        <3>1. first[c] \in 1..MaxFrames
            <4>1. first[c] \in 0..MaxFrames
                BY DEF TypeOK
            <4> QED BY <2>1, <4>1, ServicerAssumption
        <3>2. Append(handed[c], first[c]) \in Seq(1..MaxFrames) /\ 0 \in 0..MaxFrames
            BY <3>1, ServicerAssumption DEF TypeOK
        <3>3. /\ handed' = [handed EXCEPT ![c] = Append(@, first[c])]
              /\ first' = [first EXCEPT ![c] = 0] /\ UNCHANGED inbox
            BY <1>9, <2>1 DEF AdapterReads
        <3>4. /\ handed' \in [Calls -> Seq(1..MaxFrames)] /\ first' \in [Calls -> 0..MaxFrames]
              /\ inbox' \in [Calls -> Seq(1..MaxFrames)]
            BY <3>2, <3>3 DEF TypeOK
        <3> QED BY <1>9, <3>4
                DEF TypeOK, AdapterReads, CommandsTypeOK, AuthTypeOK, commandVars, authVars
    <2>2. CASE first[c] = 0
        <3>1. inbox[c] # <<>>
            BY <1>9, <2>2 DEF AdapterReads
        <3>2. Head(inbox[c]) \in 1..MaxFrames /\ Tail(inbox[c]) \in Seq(1..MaxFrames)
            BY <3>1, HeadTailProperties DEF TypeOK
        <3>3. Append(handed[c], Head(inbox[c])) \in Seq(1..MaxFrames)
            BY <3>2 DEF TypeOK
        <3>4. /\ handed' = [handed EXCEPT ![c] = Append(@, Head(inbox[c]))]
              /\ inbox' = [inbox EXCEPT ![c] = Tail(@)] /\ UNCHANGED first
            BY <1>9, <2>2 DEF AdapterReads
        <3>5. /\ handed' \in [Calls -> Seq(1..MaxFrames)] /\ first' \in [Calls -> 0..MaxFrames]
              /\ inbox' \in [Calls -> Seq(1..MaxFrames)]
            BY <3>2, <3>3, <3>4 DEF TypeOK
        <3> QED BY <1>9, <3>5
                DEF TypeOK, AdapterReads, CommandsTypeOK, AuthTypeOK, commandVars, authVars
    <2> QED BY <2>1, <2>2
<1>10. CASE AdapterYields(c)
    <2>1. sent[c] + 1 \in 0..MaxFrames /\ sent[c] + 1 \in 1..MaxFrames
        BY <1>10, ServicerAssumption DEF TypeOK, AdapterYields
    <2>2. Append(handed[c], sent[c] + 1) \in Seq(1..MaxFrames)
        BY <2>1 DEF TypeOK
    <2>3. sent' \in [Calls -> 0..MaxFrames] /\ handed' \in [Calls -> Seq(1..MaxFrames)]
        BY <1>10, <2>1, <2>2 DEF TypeOK, AdapterYields
    <2> QED BY <1>10, <2>3 DEF TypeOK, AdapterYields, CommandsTypeOK, AuthTypeOK, commandVars, authVars
<1>11. ASSUME NEW r \in Responses, AdapterReturns(c, r) PROVE TypeOK'
    <2>1. Converted(r, req[c], servedBy[c]) \in Answers
        BY AnswersTyped DEF Converted
    <2> QED BY <1>11, <2>1, AnswerTyped DEF TypeOK, AdapterReturns, streamVars
<1>12. CASE AdapterRaises(c) \/ DetectionsEnd(c)
    <2>1. [NoResponse EXCEPT !.success = TRUE] \in Responses
        BY DEF NoResponse, Responses
    <2>2. PICK a \in Answers : Answer(c, a)
        BY <1>12, AnswersTyped DEF AdapterRaises, DetectionsEnd
    <2>3. response' \in [Calls -> Responses]
        BY <1>12, <2>1, AnswersTyped DEF AdapterRaises, DetectionsEnd, TypeOK
    <2> QED BY <1>12, <2>2, <2>3, AnswerTyped DEF TypeOK, AdapterRaises, DetectionsEnd, streamVars
<1> QED BY <1>1, <1>2, <1>3, <1>4, <1>5, <1>6, <1>7, <1>8, <1>9, <1>10, <1>11, <1>12 DEF CallNext

LEMMA NextTyped == TypeOK /\ [Next]_vars => TypeOK'
<1> SUFFICES ASSUME TypeOK, [Next]_vars PROVE TypeOK'
    OBVIOUS
<1>1. ASSUME NEW c \in Calls, CallNext(c) PROVE TypeOK'
    BY <1>1, CallTyped
<1>2. CASE Declare
    <2>1. PICK d \in Registrable, handler \in BOOLEAN : RegisterCommand(d[1], d[2], handler)
        BY <1>2 DEF Declare, CommandsNext
    <2>2. d[1] \in Ids /\ d[2] \in CapabilityStates
        BY CommandsAssumption
    <2>3. CommandsTypeOK'
        BY <2>1, <2>2 DEF RegisterCommand, TypeOK, CommandsTypeOK
    <2> QED BY <1>2, <2>3 DEF Declare, TypeOK, AuthTypeOK, authVars, callVars, streamVars
<1>3. CASE Tick
    <2>1. AuthTypeOK'
        <3>1. now \in 0..MaxTime /\ platformNow \in 0..MaxTime /\ MaxTime \in Nat
            BY AuthenticationAssumption DEF TypeOK, AuthTypeOK, Times
        <3>2. CASE AdapterTick
            <4>1. now + 1 \in 0..MaxTime
                BY <3>1, <3>2 DEF AdapterTick
            <4> QED BY <3>2, <4>1 DEF AdapterTick, TypeOK, AuthTypeOK, Times
        <3>3. CASE PlatformTick
            <4>1. platformNow + 1 \in 0..MaxTime
                BY <3>1, <3>3 DEF PlatformTick
            <4> QED BY <3>3, <4>1 DEF PlatformTick, TypeOK, AuthTypeOK, Times
        <3> QED BY <1>3, <3>2, <3>3 DEF Tick, AuthNext
    <2> QED BY <1>3, <2>1 DEF Tick, TypeOK, CommandsTypeOK, commandVars, callVars, streamVars
<1>4. CASE UNCHANGED vars
    BY <1>4 DEF vars, TypeOK, CommandsTypeOK, AuthTypeOK, commandVars, authVars, callVars, streamVars
<1> QED BY <1>1, <1>2, <1>3, <1>4 DEF Next

\* The variables keep their types in every execution.
THEOREM TypeCorrect == Spec => []TypeOK
<1> QED BY InitTyped, NextTyped, PTL DEF Spec

-----------------------------------------------------------------------------
(***************************************************************************)
(* Commands.                                                               *)
(***************************************************************************)

\* The calls leave the adapter's declarations and the clocks alone.
LEMMA CallsOnlyCall ==
    ASSUME NEW c \in Calls, CallNext(c) PROVE UNCHANGED <<commandVars, authVars>>
<1>1. ASSUME NEW a, Answer(c, a) PROVE UNCHANGED <<commandVars, authVars>>
    BY <1>1 DEF Answer
<1>2. ASSUME Enter(c) PROVE UNCHANGED <<commandVars, authVars>>
    <2>1. CASE ServedBy(req[c]) # "nobody"
        BY <1>2, <2>1 DEF Enter
    <2>2. CASE ServedBy(req[c]) = "nobody"
        BY <1>1, <1>2, <2>2 DEF Enter
    <2> QED BY <2>1, <2>2
<1>3. ASSUME Send(c, req[c], token[c]) \/ (\E q, t : Send(c, q, t)) \/ Arrive(c) \/ BeginStream(c)
             \/ ClientSends(c) \/ ClientHalfCloses(c) \/ AdapterReads(c) \/ AdapterYields(c)
      PROVE  UNCHANGED <<commandVars, authVars>>
    BY <1>3 DEF Send, Arrive, BeginStream, ClientSends, ClientHalfCloses, AdapterReads, AdapterYields
<1> QED BY <1>1, <1>2, <1>3 DEF CallNext, Probe, Refuse, Undecodable, Begin, Peek, PeekEmpty,
        AdapterYieldsBoxless, AdapterReturns, AdapterRaises, DetectionsEnd, Cancel

\* Whatever an adapter overrides and declares, a typed RPC is admitted if and only if it
\* is served, and served if and only if the same command sent by id is.
THEOREM TwoWaysAlwaysAgree == Spec => []SameBothWays
<1> QED BY TwoWaysAgree, PTL

\* What is advertised as available runs by id, unless it is a stream or was declared
\* without a handler, in every state of the adapter.
THEOREM AdvertisedAlwaysRunsById == Spec => []AdvertisedRuns
<1> QED BY AdvertisedAlwaysRuns, PTL

\* What runs by id is always advertised, as it was declared last or as AVAILABLE.
THEOREM ServedAlwaysAdvertised == Spec => []ServedIsAdvertised
<1>1. Init => DeclaredHandlers
    BY DEF Init, CommandsInit, DeclaredHandlers
<1>2. TypeOK /\ DeclaredHandlers /\ [Next]_vars => DeclaredHandlers'
    <2> SUFFICES ASSUME TypeOK, DeclaredHandlers, [Next]_vars PROVE DeclaredHandlers'
        OBVIOUS
    <2>1. CASE UNCHANGED commandVars
        BY <2>1 DEF commandVars, DeclaredHandlers
    <2>2. CASE Declare
        <3>1. PICK d \in Registrable, handler \in BOOLEAN : RegisterCommand(d[1], d[2], handler)
            BY <2>2 DEF Declare, CommandsNext
        <3>2. d[1] \in Ids /\ d[2] \in CapabilityStates /\ d[2] # "absent"
            BY CommandsAssumption DEF CapabilityStates
        <3>3. /\ registry' = [registry EXCEPT ![d[1]] = d[2]]
              /\ handlers' \subseteq handlers \cup {d[1]}
            BY <3>1 DEF RegisterCommand
        <3>4. handlers \subseteq Ids /\ registry \in [Ids -> CapabilityStates \cup {"absent"}]
            BY DEF TypeOK, CommandsTypeOK
        <3>5. ASSUME NEW id \in handlers' PROVE registry'[id] # "absent"
            BY <3>2, <3>3, <3>4 DEF DeclaredHandlers
        <3> QED BY <3>5 DEF DeclaredHandlers
    <2>3. CASE Tick
        BY <2>1, <2>3 DEF Tick
    <2>4. ASSUME NEW c \in Calls, CallNext(c) PROVE UNCHANGED commandVars
        BY <2>4, CallsOnlyCall
    <2> QED BY <2>1, <2>2, <2>3, <2>4 DEF Next, vars
<1>3. DeclaredHandlers => ServedIsAdvertised
    BY RunsIsAdvertised
<1> QED BY <1>1, <1>2, <1>3, TypeCorrect, PTL DEF Spec

-----------------------------------------------------------------------------
(***************************************************************************)
(* Who is let in.                                                          *)
(***************************************************************************)

LEMMA ClockTypes ==
    ASSUME TypeOK
    PROVE  /\ \A c \in Calls : token[c].exp \in Int /\ token[c].iat \in Int
           /\ now \in Nat /\ platformNow \in Nat /\ Skew \in Nat /\ Drift \in Nat /\ Drift <= Skew
<1>1. MaxTime \in Nat /\ Skew \in Nat /\ Drift \in Nat /\ Drift <= Skew
    BY AuthenticationAssumption
<1>2. now \in Nat /\ platformNow \in Nat
    <2>1. now \in Times /\ platformNow \in Times
        BY DEF TypeOK, AuthTypeOK
    <2> QED BY <1>1, <2>1 DEF Times
<1>3. ASSUME NEW c \in Calls PROVE token[c].exp \in Int /\ token[c].iat \in Int
    <2>1. token[c] \in Tokens
        BY DEF TypeOK
    <2>2. token[c].exp \in Nat \cup {-1} /\ token[c].iat \in Times \cup {-1}
        BY <2>1 DEF Tokens
    <2> QED BY <1>1, <2>2 DEF Times
<1> QED BY <1>1, <1>2, <1>3

\* The clocks are never further apart than Drift.
ClocksClose == platformNow - now <= Drift /\ now - platformNow <= Drift

LEMMA ClocksStayClose == Spec => []ClocksClose
<1>1. Init => ClocksClose
    <2>1. Drift \in Nat
        BY AuthenticationAssumption
    <2>2. Init => now = 0 /\ platformNow = 0
        BY DEF Init, AuthInit
    <2> QED BY <2>1, <2>2 DEF ClocksClose
<1>2. TypeOK /\ ClocksClose /\ [Next]_vars => ClocksClose'
    <2> SUFFICES ASSUME TypeOK, ClocksClose, [Next]_vars PROVE ClocksClose'
        OBVIOUS
    <2>1. CASE UNCHANGED authVars
        BY <2>1 DEF authVars, ClocksClose
    <2>2. CASE Tick
        <3>1. now \in Nat /\ platformNow \in Nat /\ Drift \in Nat
            BY ClockTypes
        <3>2. CASE AdapterTick
            BY <3>1, <3>2 DEF AdapterTick, Distance, ClocksClose
        <3>3. CASE PlatformTick
            BY <3>1, <3>3 DEF PlatformTick, Distance, ClocksClose
        <3> QED BY <2>2, <3>2, <3>3 DEF Tick, AuthNext
    <2>3. ASSUME NEW c \in Calls, CallNext(c) PROVE UNCHANGED authVars
        BY <2>3, CallsOnlyCall
    <2>4. CASE Declare
        BY <2>1, <2>4 DEF Declare
    <2> QED BY <2>1, <2>2, <2>3, <2>4 DEF Next, vars
<1> QED BY <1>1, <1>2, TypeCorrect, PTL DEF Spec

\* Only its arrival takes a call out of "sent".
LEMMA LeavesSentByArriving ==
    ASSUME TypeOK, [Next]_vars, NEW c \in Calls, pc[c] = "sent", pc'[c] # "sent"
    PROVE  Arrive(c)
<1>1. PICK d \in Calls : CallNext(d)
    BY DEF Next, vars, callVars, Declare, Tick
<1>2. ASSUME NEW a, Answer(d, a) PROVE \A e \in Calls \ {d} : pc'[e] = pc[e]
    BY <1>2 DEF Answer, TypeOK
<1>3. ASSUME Enter(d) PROVE \A e \in Calls \ {d} : pc'[e] = pc[e]
    <2>1. CASE ServedBy(req[d]) # "nobody"
        BY <1>3, <2>1 DEF Enter, TypeOK
    <2>2. CASE ServedBy(req[d]) = "nobody"
        BY <1>2, <1>3, <2>2 DEF Enter
    <2> QED BY <2>1, <2>2
<1>4. CASE Arrive(d)
    <2>1. c = d
        BY <1>4 DEF Arrive, Answer, TypeOK
    <2> QED BY <1>4, <2>1
<1>5. CASE \/ \E q, t : Send(d, q, t)
           \/ BeginStream(d) \/ ClientSends(d) \/ ClientHalfCloses(d) \/ AdapterReads(d) \/ AdapterYields(d)
    BY <1>5 DEF Send, BeginStream, ClientSends, ClientHalfCloses, AdapterReads, AdapterYields, TypeOK
<1>6. CASE \/ Probe(d) \/ Refuse(d) \/ Undecodable(d) \/ PeekEmpty(d) \/ AdapterYieldsBoxless(d)
           \/ Cancel(d) \/ AdapterRaises(d) \/ DetectionsEnd(d) \/ \E r : AdapterReturns(d, r)
    <2>1. pc[d] # "sent" /\ \E a : Answer(d, a)
        BY <1>6 DEF Probe, Refuse, Undecodable, PeekEmpty, AdapterYieldsBoxless, Cancel,
                    AdapterRaises, DetectionsEnd, AdapterReturns
    <2> QED BY <1>2, <2>1
<1>7. CASE Begin(d) \/ Peek(d)
    <2>1. pc[d] # "sent" /\ Enter(d)
        BY <1>7 DEF Begin, Peek
    <2> QED BY <1>3, <2>1
<1> QED BY <1>1, <1>4, <1>5, <1>6, <1>7 DEF CallNext

\* No call is under way with a token from the platform's future.
IssuedBefore == \A c \in Calls : token[c].iat <= platformNow

LEMMA TokensIssuedBefore == Spec => []IssuedBefore
<1>1. Init => IssuedBefore
    <2>1. Init => platformNow = 0 /\ token = [c \in Calls |-> NoToken]
        BY DEF Init, AuthInit
    <2> QED BY <2>1 DEF IssuedBefore, NoToken
<1>2. TypeOK /\ IssuedBefore /\ [Next]_vars => IssuedBefore'
    <2> SUFFICES ASSUME TypeOK, IssuedBefore, [Next]_vars PROVE IssuedBefore'
        OBVIOUS
    <2>1. platformNow \in Nat /\ \A c \in Calls : token[c].iat \in Int
        BY ClockTypes
    <2>2. CASE UNCHANGED <<token, platformNow>>
        BY <2>2 DEF IssuedBefore
    <2>3. CASE Tick
        <3>1. UNCHANGED token /\ platformNow' \in {platformNow, platformNow + 1}
            BY <2>3 DEF Tick, AuthNext, AdapterTick, PlatformTick, callVars
        <3> QED BY <2>1, <3>1 DEF IssuedBefore
    <2>4. ASSUME NEW c \in Calls, NEW q, NEW t \in Headers(platformNow), Send(c, q, t)
          PROVE  IssuedBefore'
        <3>1. t.iat <= platformNow
            BY <2>1 DEF Headers, Issued
        <3>2. token' = [token EXCEPT ![c] = t] /\ UNCHANGED platformNow
            BY <2>4 DEF Send, authVars
        <3> QED BY <3>1, <3>2 DEF IssuedBefore, TypeOK
    <2>5. ASSUME NEW c \in Calls, Arrive(c) PROVE IssuedBefore'
        <3>1. token' = [token EXCEPT ![c] = NoToken] /\ UNCHANGED platformNow
            BY <2>5 DEF Arrive, authVars
        <3>2. NoToken.iat <= platformNow
            BY <2>1 DEF NoToken
        <3> QED BY <3>1, <3>2 DEF IssuedBefore, TypeOK
    <2>6. ASSUME NEW c \in Calls, NEW a, Answer(c, a) PROVE UNCHANGED <<token, platformNow>>
        BY <2>6 DEF Answer, authVars
    <2>7. ASSUME NEW c \in Calls, Enter(c) PROVE UNCHANGED <<token, platformNow>>
        <3>1. CASE ServedBy(req[c]) # "nobody"
            BY <2>7, <3>1 DEF Enter, authVars
        <3>2. CASE ServedBy(req[c]) = "nobody"
            BY <2>6, <2>7, <3>2 DEF Enter
        <3> QED BY <3>1, <3>2
    <2>8. ASSUME NEW c \in Calls,
                 BeginStream(c) \/ ClientSends(c) \/ ClientHalfCloses(c) \/ AdapterReads(c) \/ AdapterYields(c)
          PROVE  UNCHANGED <<token, platformNow>>
        BY <2>8 DEF BeginStream, ClientSends, ClientHalfCloses, AdapterReads, AdapterYields, authVars
    <2>9. ASSUME NEW c \in Calls, CallNext(c) PROVE IssuedBefore'
        BY <2>2, <2>4, <2>5, <2>6, <2>7, <2>8, <2>9
           DEF CallNext, Probe, Refuse, Undecodable, Begin, Peek, PeekEmpty,
               AdapterYieldsBoxless, AdapterReturns, AdapterRaises, DetectionsEnd, Cancel
    <2> QED BY <2>2, <2>3, <2>9 DEF Next, Declare, vars, authVars, callVars
<1> QED BY <1>1, <1>2, TypeCorrect, PTL DEF Spec

\* The platform's own token opens the door for as long as the platform takes it for valid,
\* if the clocks are never further apart than the skew allowed for.
THEOREM FreshAlwaysAccepted == Spec => FreshAccepted
<1>1. ASSUME TypeOK, ClocksClose, IssuedBefore, [Next]_vars, NEW c \in Calls PROVE FreshCall(c)
    <2> SUFFICES ASSUME pc[c] = "sent", pc'[c] # "sent", auth = "key", token[c].flaw = "none",
                        token[c].iat # -1, token[c].exp >= platformNow
                 PROVE  pc'[c] = "admitted"
        BY DEF FreshCall
    <2>1. Arrive(c)
        BY <1>1, LeavesSentByArriving
    <2>2. InTime(token[c])
        <3>1. token[c].iat <= platformNow
            BY <1>1 DEF IssuedBefore
        <3> QED BY <1>1, <3>1, ClockTypes DEF InTime, ClocksClose
    <2>3. Check(req[c].method, token[c]) = "proceed"
        BY <2>2 DEF Check
    <2>4. pc' = [pc EXCEPT ![c] = "admitted"]
        BY <2>1, <2>3 DEF Arrive
    <2> QED BY <1>1, <2>4 DEF TypeOK
<1>2. TypeOK /\ ClocksClose /\ IssuedBefore /\ [Next]_vars => [\A c \in Calls : FreshCall(c)]_vars
    BY <1>1
<1> QED BY <1>2, TypeCorrect, ClocksStayClose, TokensIssuedBefore, PTL DEF Spec, FreshAccepted

\* Nothing else opens it: with a key only an unflawed token with an expiry that the platform
\* took for valid not longer ago than the skew and the clocks' distance, and without a key
\* nothing but health probes.
THEOREM OnlyValidAlwaysAdmitted == Spec => OnlyValidAdmitted
<1>1. ASSUME TypeOK, ClocksClose, [Next]_vars, NEW c \in Calls PROVE ValidCall(c)
    <2> SUFFICES ASSUME pc[c] = "sent", pc'[c] = "admitted", req[c].method # "health", auth # "disabled"
                 PROVE  /\ auth = "key" /\ token[c].flaw = "none" /\ token[c].exp # -1
                        /\ platformNow <= token[c].exp + Skew + Drift
        BY DEF ValidCall
    <2>1. Arrive(c)
        BY <1>1, LeavesSentByArriving
    <2>2. Check(req[c].method, token[c]) = "proceed"
        <3> SUFFICES ASSUME Check(req[c].method, token[c]) # "proceed" PROVE FALSE
            OBVIOUS
        <3>1. pc' = [pc EXCEPT ![c] = "answered"]
            BY <2>1 DEF Arrive
        <3> QED BY <1>1, <3>1 DEF TypeOK
    <2>3. auth = "key" /\ token[c].flaw = "none" /\ InTime(token[c])
        BY <1>1, <2>2 DEF Check, TypeOK, AuthTypeOK
    <2>4. token[c].exp # -1 /\ token[c].exp + Skew >= now
        BY <2>3 DEF InTime
    <2> QED BY <1>1, <2>3, <2>4, ClockTypes DEF ClocksClose
<1>2. TypeOK /\ ClocksClose /\ [Next]_vars => [\A c \in Calls : ValidCall(c)]_vars
    BY <1>1
<1> QED BY <1>2, TypeCorrect, ClocksStayClose, PTL DEF Spec, OnlyValidAdmitted

-----------------------------------------------------------------------------
(***************************************************************************)
(* What the caller is told.                                                *)
(***************************************************************************)

\* A step of one call leaves what another depends on alone.
Same(e) ==
    /\ pc'[e] = pc[e] /\ req'[e] = req[e] /\ servedBy'[e] = servedBy[e] /\ response'[e] = response[e]
    /\ answer'[e] = answer[e] /\ sent'[e] = sent[e] /\ first'[e] = first[e]
    /\ inbox'[e] = inbox[e] /\ handed'[e] = handed[e]

LEMMA CallsAreLocal ==
    ASSUME TypeOK, NEW d \in Calls, CallNext(d), NEW e \in Calls, e # d PROVE Same(e)
<1> USE DEF TypeOK, Same, streamVars
<1>1. ASSUME NEW a, Answer(d, a) PROVE pc'[e] = pc[e] /\ req'[e] = req[e] /\ answer'[e] = answer[e]
    BY <1>1 DEF Answer
<1>2. ASSUME Enter(d)
      PROVE  /\ pc'[e] = pc[e] /\ req'[e] = req[e] /\ answer'[e] = answer[e]
             /\ servedBy'[e] = servedBy[e] /\ response'[e] = response[e]
    <2>1. CASE ServedBy(req[d]) # "nobody"
        BY <1>2, <2>1 DEF Enter
    <2>2. CASE ServedBy(req[d]) = "nobody"
        BY <1>1, <1>2, <2>2 DEF Enter
    <2> QED BY <2>1, <2>2
<1>3. ASSUME NEW q, NEW t, Send(d, q, t) PROVE Same(e)
    BY <1>3 DEF Send
<1>4. ASSUME Arrive(d) PROVE Same(e)
    <2>1. CASE Check(req[d].method, token[d]) = "proceed"
        BY <1>4, <2>1 DEF Arrive
    <2>2. CASE Check(req[d].method, token[d]) # "proceed"
        BY <1>4, <2>2 DEF Arrive
    <2> QED BY <2>1, <2>2
<1>5. CASE \/ Probe(d) \/ Refuse(d) \/ Undecodable(d) \/ PeekEmpty(d) \/ AdapterYieldsBoxless(d) \/ Cancel(d)
    <2>1. (\E a : Answer(d, a)) /\ UNCHANGED <<servedBy, response, streamVars>>
        BY <1>5 DEF Probe, Refuse, Undecodable, PeekEmpty, AdapterYieldsBoxless, Cancel
    <2> QED BY <1>1, <2>1
<1>6. CASE AdapterRaises(d) \/ DetectionsEnd(d) \/ \E r \in Responses : AdapterReturns(d, r)
    <2>1. /\ \E a : Answer(d, a)
          /\ \E r : response' = [response EXCEPT ![d] = r]
          /\ UNCHANGED <<servedBy, streamVars>>
        BY <1>6 DEF AdapterRaises, DetectionsEnd, AdapterReturns
    <2> QED BY <1>1, <2>1
<1>7. CASE BeginStream(d)
    BY <1>7 DEF BeginStream
<1>8. CASE ClientSends(d) \/ ClientHalfCloses(d)
    BY <1>8 DEF ClientSends, ClientHalfCloses
<1>9. CASE AdapterYields(d)
    BY <1>9 DEF AdapterYields
<1>10. CASE AdapterReads(d)
    <2>1. CASE first[d] # 0
        BY <1>10, <2>1 DEF AdapterReads
    <2>2. CASE first[d] = 0
        BY <1>10, <2>2 DEF AdapterReads
    <2> QED BY <2>1, <2>2
<1>11. CASE Begin(d)
    BY <1>2, <1>11 DEF Begin
<1>12. CASE Peek(d)
    BY <1>2, <1>12 DEF Peek
<1> QED BY <1>3, <1>4, <1>5, <1>6, <1>7, <1>8, <1>9, <1>10, <1>11, <1>12 DEF CallNext

\* What the other steps leave alone.
LEMMA OthersLeaveCalls ==
    ASSUME Declare \/ Tick \/ UNCHANGED vars, NEW e \in Calls PROVE Same(e)
BY DEF Declare, Tick, vars, callVars, streamVars, Same

\* A conversion keeps success, and the execution id of a success.
LEMMA ConversionsTruthful ==
    ASSUME NEW r \in Responses, NEW q, NEW by
    PROVE  /\ Converted(r, q, by).errors <=> ~r.success
           /\ r.success => Converted(r, q, by).execution = r.execution
<1>1. ToProto(r).errors = ~r.success /\ ToProto(r).execution = r.execution
    BY DEF ToProto
<1>2. ToProto(Relayed(r)).errors = ~r.success /\ (r.success => ToProto(Relayed(r)).execution = r.execution)
    BY DEF ToProto, Relayed, Responses
<1> QED BY <1>1, <1>2 DEF Converted

\* The part of the invariant about one call: it has no answer before it is over, nobody
\* serves it before it is begun, and its answer is true.
Truthful(c) ==
    /\ pc[c] # "answered" => answer[c].status = "none"
    /\ pc[c] \in {"idle", "sent", "admitted", "peeking"} => servedBy[c] = "nobody"
    /\ answer[c].status = "OK" /\ servedBy[c] # "nobody" =>
            /\ answer[c].errors <=> ~response[c].success
            /\ response[c].success => answer[c].execution = response[c].execution

LEMMA CallTruthful ==
    ASSUME TypeOK, NEW c \in Calls, Truthful(c), CallNext(c) PROVE Truthful(c)'
<1>1. ASSUME NEW a, Answer(c, a) PROVE pc'[c] = "answered" /\ answer'[c] = a
    BY <1>1 DEF Answer, TypeOK
<1>2. ASSUME NEW s \in {"OK", "UNIMPLEMENTED", "UNKNOWN", "INTERNAL", "CANCELLED"}, Answer(c, Status(s)),
             UNCHANGED <<servedBy, response>>, s = "OK" => servedBy[c] = "nobody"
      PROVE  Truthful(c)'
    BY <1>1, <1>2 DEF Truthful, Status
<1>3. ASSUME NEW r \in Responses, NEW a, Answer(c, a), response' = [response EXCEPT ![c] = r],
             a.status = "OK" => (a.errors <=> ~r.success) /\ (r.success => a.execution = r.execution)
      PROVE  Truthful(c)'
    BY <1>1, <1>3 DEF Truthful, TypeOK
<1>4. ASSUME Enter(c), pc[c] \in {"admitted", "peeking"} PROVE Truthful(c)'
    <2>1. CASE ServedBy(req[c]) # "nobody"
        <3>1. pc'[c] = "running" /\ answer' = answer
            BY <1>4, <2>1 DEF Enter, TypeOK
        <3> QED BY <1>4, <3>1 DEF Truthful
    <2>2. CASE ServedBy(req[c]) = "nobody"
        <3>1. servedBy'[c] = "nobody" /\ \E a : Answer(c, a)
            BY <1>4, <2>2 DEF Enter, TypeOK
        <3> QED BY <1>1, <3>1 DEF Truthful
    <2> QED BY <2>1, <2>2
<1>5. ASSUME NEW q, NEW t, Send(c, q, t) PROVE Truthful(c)'
    BY <1>5 DEF Send, Truthful, TypeOK
<1>6. CASE Arrive(c)
    <2>1. CASE Check(req[c].method, token[c]) = "proceed"
        BY <1>6, <2>1 DEF Arrive, Truthful, TypeOK
    <2>2. CASE Check(req[c].method, token[c]) # "proceed"
        BY <1>6, <2>2 DEF Arrive, Truthful, TypeOK
    <2> QED BY <2>1, <2>2
<1>7. CASE Probe(c)
    BY <1>2, <1>7 DEF Probe, Truthful
<1>8. CASE Refuse(c) \/ Undecodable(c) \/ AdapterYieldsBoxless(c) \/ Cancel(c)
    BY <1>2, <1>8 DEF Refuse, Undecodable, AdapterYieldsBoxless, Cancel
<1>9. CASE PeekEmpty(c)
    BY <1>2, <1>9 DEF PeekEmpty, Truthful
<1>10. CASE BeginStream(c)
    BY <1>10 DEF BeginStream, Truthful, TypeOK
<1>11. CASE Begin(c) \/ Peek(c)
    BY <1>4, <1>11 DEF Begin, Peek
<1>12. CASE ClientSends(c) \/ ClientHalfCloses(c) \/ AdapterReads(c) \/ AdapterYields(c)
    <2>1. UNCHANGED <<pc, servedBy, response, answer>>
        BY <1>12 DEF ClientSends, ClientHalfCloses, AdapterReads, AdapterYields
    <2> QED BY <2>1 DEF Truthful
<1>13. ASSUME NEW r \in Responses, AdapterReturns(c, r) PROVE Truthful(c)'
    BY <1>3, <1>13, ConversionsTruthful DEF AdapterReturns
<1>14. CASE AdapterRaises(c)
    <2>1. /\ ToProto(Raised).errors = TRUE /\ Raised.success = FALSE /\ Raised \in Responses
          /\ \A s : Status(s).status = s
        BY DEF ToProto, Raised, Status, Responses
    <2>2. response' = [response EXCEPT ![c] = Raised]
        BY <1>14 DEF AdapterRaises
    <2>3. \/ Answer(c, ToProto(Raised)) \/ Answer(c, Status("INTERNAL"))
          \/ Answer(c, Status("UNIMPLEMENTED"))
        BY <1>14 DEF AdapterRaises
    <2>4. CASE Answer(c, ToProto(Raised))
        BY <1>3, <2>1, <2>2, <2>4
    <2>5. ASSUME NEW s \in {"INTERNAL", "UNIMPLEMENTED"}, Answer(c, Status(s)) PROVE Truthful(c)'
        BY <1>3, <2>1, <2>2, <2>5
    <2> QED BY <2>3, <2>4, <2>5
<1>15. CASE DetectionsEnd(c)
    <2> DEFINE r == [NoResponse EXCEPT !.success = TRUE]
    <2>1. /\ r \in Responses /\ r.success = TRUE /\ r.execution = "none"
          /\ Status("OK").errors = FALSE /\ Status("OK").execution = "none"
        BY DEF NoResponse, Responses, Status
    <2> QED BY <1>3, <1>15, <2>1 DEF DetectionsEnd
<1> QED BY <1>5, <1>6, <1>7, <1>8, <1>9, <1>10, <1>11, <1>12, <1>13, <1>14, <1>15 DEF CallNext

\* The caller always learns whether the adapter's code failed, and the execution id of
\* what it started, however the two kinds of response are converted on the way.
THEOREM AnswersAlwaysTruthful == Spec => []AnswerTruthful
<1>1. Init => \A c \in Calls : Truthful(c)
    BY DEF Init, Truthful, Status
<1>2. TypeOK /\ (\A c \in Calls : Truthful(c)) /\ [Next]_vars => (\A c \in Calls : Truthful(c))'
    <2> SUFFICES ASSUME TypeOK, \A c \in Calls : Truthful(c), [Next]_vars, NEW e \in Calls
                 PROVE  Truthful(e)'
        OBVIOUS
    <2>1. Same(e) => Truthful(e)'
        BY DEF Same, Truthful
    <2>2. ASSUME NEW d \in Calls, CallNext(d) PROVE Truthful(e)'
        BY <2>1, <2>2, CallTruthful, CallsAreLocal
    <2> QED BY <2>1, <2>2, OthersLeaveCalls DEF Next
<1>3. (\A c \in Calls : Truthful(c)) => AnswerTruthful
    BY DEF Truthful, AnswerTruthful
<1> QED BY <1>1, <1>2, <1>3, TypeCorrect, PTL DEF Spec

-----------------------------------------------------------------------------
(***************************************************************************)
(* Which parameters reach the code that runs.                              *)
(***************************************************************************)

\* The part of the invariant about one call: it was sent, and code of the other kind runs
\* only where one of the tables leads to it.
Routed(c) ==
    /\ pc[c] # "idle" => req[c] \in TypedRequests \cup IdRequests
    /\ pc[c] = "running" /\ FromTyped(req[c], servedBy[c])
            => \E id : <<req[c].method, id>> \in Delegations
    /\ pc[c] = "running" /\ FromId(req[c], servedBy[c])
            => \E m : <<req[c].id, m>> \in TypedDispatch

\* No step changes what the adapter overrides.
LEMMA OverridesStay ==
    ASSUME [Next]_vars PROVE overrides' = overrides
<1>1. ASSUME NEW c \in Calls, CallNext(c) PROVE overrides' = overrides
    BY <1>1, CallsOnlyCall DEF commandVars
<1>2. CASE Declare
    BY <1>2 DEF Declare, CommandsNext, RegisterCommand
<1> QED BY <1>1, <1>2 DEF Next, Tick, vars, commandVars

\* What the code that is entered has to do with the request.
LEMMA ServedByRouted ==
    ASSUME NEW q
    PROVE  /\ FromTyped(q, ServedBy(q)) => \E id : <<q.method, id>> \in Delegations
           /\ FromId(q, ServedBy(q)) => \E m : <<q.id, m>> \in TypedDispatch
<1>1. ASSUME FromTyped(q, ServedBy(q)) PROVE \E id : <<q.method, id>> \in Delegations
    <2>1. MethodServedBy(q.method) = "handler"
        BY <1>1 DEF FromTyped, ServedBy
    <2> QED BY <2>1 DEF MethodServedBy, Delegate
<1>2. ASSUME FromId(q, ServedBy(q)) PROVE \E m : <<q.id, m>> \in TypedDispatch
    <2>1. IdServedBy(q.id, q.selects) = "method"
        BY <1>2 DEF FromId, ServedBy
    <2> QED BY <2>1 DEF IdServedBy
<1> QED BY <1>1, <1>2

LEMMA CallRouted ==
    ASSUME TypeOK, NEW c \in Calls, Routed(c), CallNext(c) PROVE Routed(c)'
<1>1. overrides' = overrides
    BY OverridesStay DEF Next
<1>2. ASSUME pc[c] # "idle", req'[c] = req[c], pc'[c] # "running" PROVE Routed(c)'
    BY <1>2 DEF Routed
<1>3. ASSUME UNCHANGED <<pc, req, servedBy>> PROVE Routed(c)'
    BY <1>1, <1>3 DEF Routed, FromTyped, FromId
<1>4. ASSUME NEW a, Answer(c, a), pc[c] # "idle" PROVE Routed(c)'
    BY <1>2, <1>4 DEF Answer, TypeOK
<1>5. ASSUME Enter(c), pc[c] # "idle" PROVE Routed(c)'
    <2>1. CASE ServedBy(req[c]) # "nobody"
        <3>1. req' = req /\ servedBy'[c] = ServedBy(req[c])
            BY <1>5, <2>1 DEF Enter, TypeOK
        <3> QED BY <1>1, <1>5, <3>1, ServedByRouted DEF Routed, FromTyped, FromId
    <2>2. CASE ServedBy(req[c]) = "nobody"
        <3>1. \E a : Answer(c, a)
            BY <1>5, <2>2 DEF Enter
        <3> QED BY <1>4, <1>5, <3>1
    <2> QED BY <2>1, <2>2
<1>6. ASSUME NEW q \in TypedRequests \cup IdRequests, NEW t, Send(c, q, t) PROVE Routed(c)'
    <2>1. pc'[c] = "sent" /\ req'[c] = q
        BY <1>6 DEF Send, TypeOK
    <2> QED BY <2>1 DEF Routed
<1>7. CASE Arrive(c)
    <2>1. pc'[c] \in {"admitted", "answered"} /\ pc[c] = "sent" /\ req' = req
        BY <1>7 DEF Arrive, TypeOK
    <2> QED BY <1>2, <2>1
<1>8. CASE \/ Probe(c) \/ Refuse(c) \/ Undecodable(c) \/ PeekEmpty(c) \/ AdapterYieldsBoxless(c) \/ Cancel(c)
           \/ AdapterRaises(c) \/ DetectionsEnd(c) \/ \E r \in Responses : AdapterReturns(c, r)
    <2>1. pc[c] # "idle" /\ \E a : Answer(c, a)
        BY <1>8 DEF Probe, Refuse, Undecodable, PeekEmpty, AdapterYieldsBoxless, Cancel, AdapterRaises,
                    DetectionsEnd, AdapterReturns
    <2> QED BY <1>4, <2>1
<1>9. CASE BeginStream(c)
    <2>1. pc'[c] = "peeking" /\ pc[c] = "admitted" /\ req' = req
        BY <1>9 DEF BeginStream, TypeOK
    <2> QED BY <1>2, <2>1
<1>10. CASE Begin(c) \/ Peek(c)
    BY <1>5, <1>10 DEF Begin, Peek
<1>11. CASE ClientSends(c) \/ ClientHalfCloses(c) \/ AdapterReads(c) \/ AdapterYields(c)
    <2>1. UNCHANGED <<pc, req, servedBy>>
        BY <1>11 DEF ClientSends, ClientHalfCloses, AdapterReads, AdapterYields
    <2> QED BY <1>3, <2>1
<1> QED BY <1>6, <1>7, <1>8, <1>9, <1>10, <1>11 DEF CallNext

\* A handler behind a typed method gets exactly the parameters of the method's command.
LEMMA BodyBuilds ==
    ASSUME NEW m, NEW id, <<m, id>> \in Delegations
    PROVE  UNION {b[3] : b \in {d \in Bodies : d[1] = m}} = ParamsOf(m)
<1>1. ASSUME NEW h PROVE <<m, h>> \in MethodCommands <=> <<m, h>> \in Delegations
    <2>1. m \notin {"manual_control_input", "get_detections"}
        BY DEF Delegations, Bodies, FlightBodies, AssetBodies
    <2> QED BY <2>1, MethodsAreBodies
<1>2. ASSUME NEW p PROVE p \in ParamsOf(m) <=> \E h : <<m, h>> \in Delegations /\ p \in Params(h)
    <2>1. \A t \in MethodCommands : t = <<t[1], t[2]>>
        BY DEF MethodCommands
    <2>2. p \in ParamsOf(m) <=> \E t \in MethodCommands : t[1] = m /\ p \in Params(t[2])
        BY DEF ParamsOf
    <2>3. p \in ParamsOf(m) <=> \E h : <<m, h>> \in MethodCommands /\ p \in Params(h)
        BY <2>1, <2>2
    <2> QED BY <1>1, <2>3
<1>3. ASSUME NEW p
      PROVE  p \in UNION {b[3] : b \in {d \in Bodies : d[1] = m}}
                <=> \E h : <<m, h>> \in Delegations /\ p \in Params(h)
    <2>1. p \in UNION {b[3] : b \in {d \in Bodies : d[1] = m}}
            <=> \E b \in Bodies : b[1] = m /\ p \in Params(b[2])
        BY BodiesFollowSchemas
    <2> QED BY <2>1 DEF Delegations
<1> QED BY <1>2, <1>3

\* What the caller of a command has set reaches the code that runs, and what it has not
\* set is not made up, whichever way the command comes, whatever the adapter overrides and
\* declares, and when it declares it anew.
THEOREM ArgumentsAlwaysCarried == Spec => []ArgumentsCarried
<1>1. Init => \A c \in Calls : Routed(c)
    BY DEF Init, Routed
<1>2. TypeOK /\ (\A c \in Calls : Routed(c)) /\ [Next]_vars => (\A c \in Calls : Routed(c))'
    <2> SUFFICES ASSUME TypeOK, \A c \in Calls : Routed(c), [Next]_vars, NEW e \in Calls
                 PROVE  Routed(e)'
        OBVIOUS
    <2>1. Same(e) => Routed(e)'
        BY OverridesStay DEF Same, Routed, FromTyped, FromId
    <2>2. ASSUME NEW d \in Calls, CallNext(d) PROVE Routed(e)'
        BY <2>1, <2>2, CallRouted, CallsAreLocal
    <2> QED BY <2>1, <2>2, OthersLeaveCalls DEF Next
<1>3. (\A c \in Calls : Routed(c)) => ArgumentsCarried
    <2> SUFFICES ASSUME NEW c \in Calls, Routed(c), pc[c] = "running",
                        RequiredParams(req[c].id) \subseteq req[c].given
                 PROVE  LET q == req[c]
                            arguments == Arguments(q, servedBy[c])
                        IN  /\ \A p \in q.given : p \in DOMAIN arguments /\ arguments[p] = "own"
                            /\ \A p \in DOMAIN arguments \ q.given :
                                    p \in Parameters => arguments[p] = "none" \/ p \in {"force", "taskId"}
                            /\ FromTyped(q, servedBy[c]) => DOMAIN arguments \subseteq ParamsOf(q.method)
        BY DEF ArgumentsCarried
    <2> DEFINE q == req[c]
               by == servedBy[c]
               arguments == Arguments(q, by)
    <2>1. CASE FromTyped(q, by)
        <3>1. arguments = BodyArguments(q.method, q.given)
            BY <2>1 DEF Arguments
        <3>2. DOMAIN arguments = ParamsOf(q.method)
            <4>1. PICK id : <<q.method, id>> \in Delegations
                BY <2>1 DEF Routed
            <4> QED BY <3>1, <4>1, BodyBuilds DEF BodyArguments
        <3>3. q.given \subseteq ParamsOf(q.method)
            BY <2>1, SentGiven DEF Routed, FromTyped
        <3>4. \A p \in DOMAIN arguments :
                arguments[p] = IF p \in q.given THEN "own" ELSE IF p = "force" THEN "default" ELSE "none"
            BY <3>1 DEF BodyArguments
        <3> HIDE DEF arguments
        <3> QED BY <3>2, <3>3, <3>4 DEF arguments
    <2>2. CASE FromId(q, by)
        <3>1. PICK m : <<q.id, m>> \in TypedDispatch
            BY <2>2 DEF Routed
        <3>2. arguments = DispatchArguments(q.id, q.given) /\ ~FromTyped(q, by)
            BY <2>2 DEF Arguments, FromTyped, FromId
        <3>3. DOMAIN arguments = UNION {r[2] : r \in {s \in DispatchReads : s[1] = q.id}}
            BY <3>2 DEF DispatchArguments
        <3>4. \A p \in DOMAIN arguments : arguments[p] = IF p \in q.given THEN "own" ELSE Absent(p)
            BY <3>2 DEF DispatchArguments
        <3>5. q.given \subseteq DOMAIN arguments
            <4>1. q.given \subseteq Params(q.id)
                BY <2>2, SentGiven DEF Routed, FromId
            <4> QED BY <3>1, <3>3, <4>1, DispatchReadsSchemas
        <3>6. ASSUME NEW p \in DOMAIN arguments \ q.given, p \in Parameters
              PROVE  Absent(p) = "none" \/ p \in {"force", "taskId"}
            BY <3>3, <3>6, AbsentIsNone
        <3> HIDE DEF arguments
        <3> QED BY <3>2, <3>4, <3>5, <3>6 DEF arguments
    <2>3. CASE ~FromTyped(q, by) /\ ~FromId(q, by)
        <3>1. arguments = [p \in q.given |-> "own"]
            BY <2>3 DEF Arguments
        <3> HIDE DEF arguments
        <3> QED BY <2>3, <3>1 DEF arguments
    <2> QED BY <2>1, <2>2, <2>3
<1> QED BY <1>1, <1>2, <1>3, TypeCorrect, PTL DEF Spec

-----------------------------------------------------------------------------
(***************************************************************************)
(* Which messages reach the adapter.                                       *)
(***************************************************************************)

Upto(n) == [i \in 1..n |-> i]

LEMMA UptoAppend ==
    ASSUME NEW n \in Nat PROVE Upto(n) \in Seq(Nat) /\ Append(Upto(n), n + 1) = Upto(n + 1)
BY DEF Upto

LEMMA AppendMovesOut ==
    ASSUME NEW s \in Seq(Nat), NEW t \in Seq(Nat), NEW x \in Nat
    PROVE  s \o Append(t, x) = Append(s \o t, x)
OBVIOUS

LEMMA HeadMovesOver ==
    ASSUME NEW s \in Seq(Nat), NEW t \in Seq(Nat), t # <<>>
    PROVE  (Append(s, Head(t)) \o <<>>) \o Tail(t) = (s \o <<>>) \o t
<1>1. /\ Head(t) \in Nat /\ Tail(t) \in Seq(Nat) /\ Len(Tail(t)) = Len(t) - 1
      /\ \A i \in 1..Len(Tail(t)) : Tail(t)[i] = t[i + 1]
      /\ Head(t) = t[1] /\ Len(t) \in Nat /\ Len(t) > 0
    BY HeadTailProperties
<1>2. Append(s, Head(t)) \o Tail(t) = s \o t
    BY <1>1
<1>3. Append(s, Head(t)) \o <<>> = Append(s, Head(t)) /\ s \o <<>> = s
    BY <1>1
<1> QED BY <1>2, <1>3

LEMMA FirstMovesOver ==
    ASSUME NEW s \in Seq(Nat), NEW t \in Seq(Nat), NEW x \in Nat
    PROVE  (Append(s, x) \o <<>>) \o t = (s \o <<x>>) \o t
OBVIOUS

LEMMA HeadAndTail ==
    ASSUME NEW t \in Seq(Nat), t # <<>>
    PROVE  (<<>> \o <<Head(t)>>) \o Tail(t) = (<<>> \o <<>>) \o t
<1>1. <<>> \o <<Head(t)>> = Append(<<>>, Head(t)) \o <<>>
    BY HeadTailProperties
<1> QED BY <1>1, HeadMovesOver, EmptySeq

\* The part of the invariant about one call.
Intact(c) ==
    /\ pc[c] \in {"idle", "sent", "admitted", "peeking"} => first[c] = 0 /\ handed[c] = <<>>
    /\ pc[c] \in {"idle", "sent"} \/ req[c].method # "manual_control_input" =>
            inbox[c] = <<>> /\ first[c] = 0
    /\ handed[c] \o (IF first[c] = 0 THEN <<>> ELSE <<first[c]>>) \o inbox[c] = Upto(sent[c])

\* The streams are sequences of numbers.
LEMMA StreamTypes ==
    ASSUME TypeOK, NEW c \in Calls
    PROVE  /\ handed[c] \in Seq(Nat) /\ inbox[c] \in Seq(Nat)
           /\ first[c] \in Nat /\ sent[c] \in Nat
<1>1. 1..MaxFrames \subseteq Nat /\ 0..MaxFrames \subseteq Nat
    BY ServicerAssumption
<1>2. Seq(1..MaxFrames) \subseteq Seq(Nat)
    BY <1>1, SeqMonotonic
<1> QED BY <1>1, <1>2 DEF TypeOK

LEMMA CallIntact ==
    ASSUME TypeOK, NEW c \in Calls, Intact(c), CallNext(c) PROVE Intact(c)'
<1>1. ASSUME NEW a, Answer(c, a), UNCHANGED streamVars PROVE Intact(c)'
    BY <1>1 DEF Answer, Intact, streamVars, TypeOK
<1>2. ASSUME Enter(c) PROVE pc'[c] \in {"running", "answered"} /\ UNCHANGED req
    <2>1. CASE ServedBy(req[c]) # "nobody"
        BY <1>2, <2>1 DEF Enter, TypeOK
    <2>2. CASE ServedBy(req[c]) = "nobody"
        BY <1>2, <2>2 DEF Enter, Answer, TypeOK
    <2> QED BY <2>1, <2>2
<1>3. ASSUME NEW q, NEW t, Send(c, q, t) PROVE Intact(c)'
    BY <1>3 DEF Send, Intact, streamVars, TypeOK
<1>4. CASE Arrive(c)
    <2>1. pc'[c] \in {"admitted", "answered"} /\ pc[c] = "sent" /\ UNCHANGED <<req, streamVars>>
        <3>1. CASE Check(req[c].method, token[c]) = "proceed"
            BY <1>4, <3>1 DEF Arrive, TypeOK
        <3>2. CASE Check(req[c].method, token[c]) # "proceed"
            BY <1>4, <3>2 DEF Arrive, TypeOK
        <3> QED BY <3>1, <3>2
    <2> QED BY <2>1 DEF Intact, streamVars
<1>5. CASE \/ Probe(c) \/ Refuse(c) \/ Undecodable(c) \/ PeekEmpty(c) \/ AdapterYieldsBoxless(c) \/ Cancel(c)
           \/ AdapterRaises(c) \/ DetectionsEnd(c) \/ \E r \in Responses : AdapterReturns(c, r)
    <2>1. (\E a : Answer(c, a)) /\ UNCHANGED streamVars
        BY <1>5 DEF Probe, Refuse, Undecodable, PeekEmpty, AdapterYieldsBoxless, Cancel, AdapterRaises,
                    DetectionsEnd, AdapterReturns
    <2> QED BY <1>1, <2>1
<1>6. CASE BeginStream(c)
    BY <1>6 DEF BeginStream, Intact, streamVars, TypeOK
<1>7. CASE Begin(c)
    <2>1. UNCHANGED streamVars /\ UNCHANGED req /\ pc[c] = "admitted" /\ pc'[c] \in {"running", "answered"}
        BY <1>2, <1>7 DEF Begin
    <2> QED BY <2>1 DEF Intact, streamVars
<1>8. CASE ClientSends(c)
    <2> DEFINE f == IF first[c] = 0 THEN <<>> ELSE <<first[c]>>
    <2>1. /\ inbox'[c] = Append(inbox[c], sent[c] + 1) /\ sent'[c] = sent[c] + 1
          /\ UNCHANGED <<pc, req, first, handed>> /\ req[c].method = "manual_control_input"
          /\ pc[c] \notin {"idle", "sent"}
        BY <1>8 DEF ClientSends, TypeOK
    <2>2. handed[c] \o f \in Seq(Nat)
        BY StreamTypes
    <2>3. (handed[c] \o f) \o Append(inbox[c], sent[c] + 1) = Upto(sent[c] + 1)
        <3> HIDE DEF f
        <3>1. sent[c] + 1 \in Nat /\ inbox[c] \in Seq(Nat)
            BY StreamTypes
        <3>2. (handed[c] \o f) \o Append(inbox[c], sent[c] + 1)
                = Append((handed[c] \o f) \o inbox[c], sent[c] + 1)
            BY <2>2, <3>1, AppendMovesOut
        <3>3. (handed[c] \o f) \o inbox[c] = Upto(sent[c])
            BY DEF Intact, f
        <3> QED BY <3>2, <3>3, StreamTypes, UptoAppend
    <2> QED BY <2>1, <2>3 DEF Intact
<1>9. CASE ClientHalfCloses(c)
    BY <1>9 DEF ClientHalfCloses, Intact
<1>10. CASE Peek(c)
    <2>1. /\ first'[c] = Head(inbox[c]) /\ inbox'[c] = Tail(inbox[c]) /\ inbox[c] # <<>>
          /\ UNCHANGED <<sent, handed>> /\ pc[c] = "peeking"
        BY <1>10 DEF Peek, TypeOK
    <2>2. pc'[c] \in {"running", "answered"} /\ UNCHANGED req
        BY <1>2, <1>10 DEF Peek
    <2>3. handed[c] = <<>> /\ first[c] = 0 /\ req[c].method = "manual_control_input"
        BY <2>1 DEF Intact
    <2>4. Head(inbox[c]) # 0
        <3>1. inbox[c] \in Seq(1..MaxFrames)
            BY DEF TypeOK
        <3>2. Head(inbox[c]) \in 1..MaxFrames
            BY <2>1, <3>1, HeadTailProperties
        <3> QED BY <3>2, ServicerAssumption
    <2>5. (<<>> \o <<Head(inbox[c])>>) \o Tail(inbox[c]) = Upto(sent[c])
        BY <2>1, <2>3, StreamTypes, HeadAndTail DEF Intact
    <2> QED BY <2>1, <2>2, <2>3, <2>4, <2>5 DEF Intact
<1>11. CASE AdapterReads(c)
    <2>1. UNCHANGED <<pc, req, sent>> /\ pc[c] = "running"
        BY <1>11 DEF AdapterReads
    <2>2. CASE first[c] # 0
        <3>1. handed'[c] = Append(handed[c], first[c]) /\ first'[c] = 0 /\ inbox'[c] = inbox[c]
            BY <1>11, <2>2 DEF AdapterReads, TypeOK
        <3>2. (Append(handed[c], first[c]) \o <<>>) \o inbox[c] = Upto(sent[c])
            BY <2>2, StreamTypes, FirstMovesOver DEF Intact
        <3> QED BY <2>1, <2>2, <3>1, <3>2 DEF Intact
    <2>3. CASE first[c] = 0
        <3>1. /\ handed'[c] = Append(handed[c], Head(inbox[c])) /\ first'[c] = 0
              /\ inbox'[c] = Tail(inbox[c]) /\ inbox[c] # <<>>
            BY <1>11, <2>3 DEF AdapterReads, TypeOK
        <3>2. (Append(handed[c], Head(inbox[c])) \o <<>>) \o Tail(inbox[c]) = Upto(sent[c])
            BY <2>3, <3>1, StreamTypes, HeadMovesOver DEF Intact
        <3> QED BY <2>1, <2>3, <3>1, <3>2 DEF Intact
    <2> QED BY <2>2, <2>3
<1>12. CASE AdapterYields(c)
    <2>1. /\ handed'[c] = Append(handed[c], sent[c] + 1) /\ sent'[c] = sent[c] + 1
          /\ UNCHANGED <<pc, req, first, inbox>> /\ req[c].method = "get_detections" /\ pc[c] = "running"
        BY <1>12 DEF AdapterYields, TypeOK
    <2>2. inbox[c] = <<>> /\ first[c] = 0
        BY <2>1 DEF Intact
    <2>3. (handed[c] \o <<>>) \o <<>> = handed[c]
        BY StreamTypes
    <2>4. handed[c] = Upto(sent[c])
        BY <2>2, <2>3 DEF Intact
    <2>5. Append(handed[c], sent[c] + 1) = Upto(sent[c] + 1)
        BY <2>4, StreamTypes, UptoAppend
    <2>6. (Upto(sent[c] + 1) \o <<>>) \o <<>> = Upto(sent[c] + 1)
        BY <2>5, StreamTypes
    <2> QED BY <2>1, <2>2, <2>5, <2>6 DEF Intact
<1> QED BY <1>3, <1>4, <1>5, <1>6, <1>7, <1>8, <1>9, <1>10, <1>11, <1>12 DEF CallNext

\* The adapter gets every message of a stream once and in order, the one that was taken
\* off to find the asset first, however many there are and whenever it reads.
THEOREM StreamAlwaysIntact == Spec => []StreamIntact
<1>1. Init => \A c \in Calls : Intact(c)
    <2>1. (<<>> \o <<>>) \o <<>> = Upto(0)
        BY DEF Upto
    <2> QED BY <2>1 DEF Init, Intact
<1>2. TypeOK /\ (\A c \in Calls : Intact(c)) /\ [Next]_vars => (\A c \in Calls : Intact(c))'
    <2> SUFFICES ASSUME TypeOK, \A c \in Calls : Intact(c), [Next]_vars, NEW e \in Calls
                 PROVE  Intact(e)'
        OBVIOUS
    <2>1. Same(e) => Intact(e)'
        BY DEF Same, Intact
    <2>2. ASSUME NEW d \in Calls, CallNext(d) PROVE Intact(e)'
        BY <2>1, <2>2, CallIntact, CallsAreLocal
    <2> QED BY <2>1, <2>2, OthersLeaveCalls DEF Next
<1>3. (\A c \in Calls : Intact(c)) => StreamIntact
    BY DEF Intact, StreamIntact, Upto
<1> QED BY <1>1, <1>2, <1>3, TypeCorrect, PTL DEF Spec
=============================================================================
