------------------------------ MODULE Connector ------------------------------
(***************************************************************************)
(* ConnectorClient.ensure_asset: look an asset up and, if the platform     *)
(* does not know it, trade the adapter's one claim code for it             *)
(* (client/connector_client.py).  Both calls run through _call, which      *)
(* retries transient errors.  Several tasks share the client, and          *)
(* connect() and close() may come at any time.  An action is the code      *)
(* between two awaits.                                                     *)
(*                                                                         *)
(* The platform is external.  A request the client has given up on may     *)
(* still reach it and take effect; what a lookup then answers nobody hears.*)
(***************************************************************************)
EXTENDS Naturals

CONSTANTS
    Tasks,              \* the tasks that call ensure_asset()
    Assets,             \* the serial numbers they call it with
    MaxRetries,         \* _max_retries: the attempts of a call
    Console,            \* the console may create assets and revoke the code
    ErrorAnswers,       \* the platform may answer with has_errors
    Restarts            \* the adapter's process may die and start again

ASSUME ConnectorAssumption ==
    /\ MaxRetries \in Nat
    /\ {Console, ErrorAnswers, Restarts} \subseteq BOOLEAN

VARIABLES
    assets,             \* the assets the platform knows
    code,               \* the claim code: not configured, valid or used up
    late,               \* redemptions given up on that may still arrive, by asset
    link,               \* the channel and the stub of the client
    pc,                 \* where each task is
    asset,              \* the asset it wants
    op,                 \* the call it makes
    attempt,            \* the attempt of _call
    req,                \* what became of the attempt's request
    result,             \* what ensure_asset() returned
    known               \* history: the tasks whose asset existed when they began, until
                        \* the platform answers them with an error

platformVars == <<assets, code>>
taskVars == <<pc, asset, op, attempt, req, result, known>>
vars == <<assets, code, late, link, pc, asset, op, attempt, req, result, known>>

-----------------------------------------------------------------------------

TypeOK ==
    /\ assets \subseteq Assets
    /\ code \in {"unset", "valid", "spent"}
    /\ late \subseteq Assets
    /\ link \in {"none", "open", "closing"}
    /\ pc \in [Tasks -> {"idle", "calling", "backoff", "done"}]
    /\ asset \in [Tasks -> Assets]
    /\ op \in [Tasks -> {"lookup", "redeem"}]
    /\ attempt \in [Tasks -> 0..MaxRetries]
    /\ req \in [Tasks -> {"none", "sent", "asset", "empty", "fault", "cancelled"}]
    /\ result \in [Tasks -> {"none", "found", "created", "refused", "no code", "error"}]
    /\ known \subseteq Tasks

Init ==
    /\ assets \in SUBSET Assets
    /\ code \in {"unset", "valid"}
    /\ late = {}
    /\ link = "none"
    /\ pc = [t \in Tasks |-> "idle"]
    /\ asset \in [Tasks -> Assets]
    /\ op = [t \in Tasks |-> "lookup"]
    /\ attempt = [t \in Tasks |-> 0]
    /\ req = [t \in Tasks |-> "none"]
    /\ result = [t \in Tasks |-> "none"]
    /\ known = {}

\* ZQNT_CLAIM_CODE is set.
HasClaim == code # "unset"

-----------------------------------------------------------------------------
(***************************************************************************)
(* The platform.  A code is single-use, and creation is insert-only.       *)
(***************************************************************************)

\* A redemption of the code for asset a takes effect, or is refused.
Redeemable(a) == code = "valid" /\ a \notin assets

Redeem(a) ==
    IF Redeemable(a) THEN assets' = assets \cup {a} /\ code' = "spent"
                     ELSE UNCHANGED platformVars

\* The request of task t is answered; the answer is on its way to the client.
Answer(t) ==
    /\ req[t] = "sent"
    /\ \/ /\ op[t] = "lookup"
          /\ req' = [req EXCEPT ![t] = IF asset[t] \in assets THEN "asset" ELSE "empty"]
          /\ UNCHANGED platformVars
          /\ UNCHANGED known
       \/ /\ op[t] = "redeem"
          /\ UNCHANGED known
          /\ req' = [req EXCEPT ![t] = IF Redeemable(asset[t]) THEN "asset" ELSE "empty"]
          /\ Redeem(asset[t])
       \/ /\ ErrorAnswers
          /\ req' = [req EXCEPT ![t] = "fault"]
          /\ known' = known \ {t}
          /\ UNCHANGED platformVars
    /\ UNCHANGED <<late, link, pc, asset, op, attempt, result>>

\* A redemption that the client has given up on arrives.
ArriveLate(a) ==
    /\ a \in late
    /\ late' = late \ {a}
    /\ Redeem(a)
    /\ UNCHANGED <<link, taskVars>>

\* ... or it never does.
LateLost(a) ==
    /\ a \in late
    /\ late' = late \ {a}
    /\ UNCHANGED <<platformVars, link, taskVars>>

\* Somebody creates an asset in the console, or revokes the code.
ConsoleCreates(a) ==
    /\ Console
    /\ assets' = assets \cup {a}
    /\ UNCHANGED <<code, late, link, taskVars>>

ConsoleRevokes ==
    /\ Console
    /\ HasClaim
    /\ code' = "spent"
    /\ UNCHANGED <<assets, late, link, taskVars>>

-----------------------------------------------------------------------------
(***************************************************************************)
(* _call                                                                   *)
(***************************************************************************)

\* The redemptions on their way among the requests of tasks T.
OnTheWay(T) == {asset[t] : t \in {u \in T : op[u] = "redeem" /\ req[u] = "sent"}}

\* ensure_asset() of task t ends, with a value or an exception.
Return(t, r) ==
    /\ pc' = [pc EXCEPT ![t] = "done"]
    /\ result' = [result EXCEPT ![t] = r]
    /\ req' = [req EXCEPT ![t] = "none"]
    /\ attempt' = [attempt EXCEPT ![t] = 0]

\* An attempt: fn() uses the stub.  It raises if the client is closed or closing;
\* with no attempts at all the caller fails on the None it gets.
Attempt(t, n) ==
    IF link = "open" /\ n <= MaxRetries
    THEN /\ pc' = [pc EXCEPT ![t] = "calling"]
         /\ attempt' = [attempt EXCEPT ![t] = n]
         /\ req' = [req EXCEPT ![t] = "sent"]
         /\ result' = [result EXCEPT ![t] = "none"]
    ELSE Return(t, "error")

\* Fault: a lookup that fails for good counts as an asset that is not there.
FailsAsMissing(t) ==
    /\ pc[t] = "calling"
    /\ req[t] \in {"sent", "asset", "empty", "fault"}
    /\ late' = late \cup OnTheWay({t})
    /\ IF attempt[t] < MaxRetries
       THEN /\ pc' = [pc EXCEPT ![t] = "backoff"]
            /\ req' = [req EXCEPT ![t] = "none"]
            /\ UNCHANGED <<result, attempt, op>>
       ELSE IF op[t] = "lookup" /\ HasClaim
            THEN op' = [op EXCEPT ![t] = "redeem"] /\ Attempt(t, 1)
            ELSE Return(t, "error") /\ UNCHANGED op
    /\ UNCHANGED <<platformVars, link, asset, known>>

\* UNAVAILABLE or DEADLINE_EXCEEDED, whether or not the platform has answered: the
\* call backs off, or gives up with its last attempt.
FailsTransiently(t) ==
    /\ pc[t] = "calling"
    /\ req[t] \in {"sent", "asset", "empty", "fault"}
    /\ late' = late \cup OnTheWay({t})
    /\ IF attempt[t] < MaxRetries
       THEN /\ pc' = [pc EXCEPT ![t] = "backoff"]
            /\ req' = [req EXCEPT ![t] = "none"]
            /\ UNCHANGED <<attempt, result>>
       ELSE Return(t, "error")
    /\ UNCHANGED <<platformVars, link, asset, op, known>>

\* Any other error, and the cancellation by close(), ends the call.
FailsForGood(t) ==
    /\ pc[t] = "calling"
    /\ req[t] # "none"
    /\ late' = late \cup OnTheWay({t})
    /\ Return(t, "error")
    /\ UNCHANGED <<platformVars, link, asset, op, known>>

\* Fault: the retries are not counted.
RetryUncounted(t) ==
    /\ pc[t] = "backoff"
    /\ Attempt(t, attempt[t])
    /\ UNCHANGED <<platformVars, late, link, asset, op, known>>

\* The backoff is over.
Retry(t) ==
    /\ pc[t] = "backoff"
    /\ Attempt(t, attempt[t] + 1)
    /\ UNCHANGED <<platformVars, late, link, asset, op, known>>

-----------------------------------------------------------------------------
(***************************************************************************)
(* ensure_asset                                                            *)
(***************************************************************************)

EnsureAsset(t, a) ==
    /\ pc[t] \in {"idle", "done"}
    /\ asset' = [asset EXCEPT ![t] = a]
    /\ known' = IF a \in assets THEN known \cup {t} ELSE known \ {t}
    /\ op' = [op EXCEPT ![t] = "lookup"]
    /\ Attempt(t, 1)
    /\ UNCHANGED <<platformVars, late, link>>

\* get_asset_by_sn() returns the asset, or None: it does not look at has_errors.
LookupReturns(t) ==
    /\ pc[t] = "calling"
    /\ op[t] = "lookup"
    /\ \/ req[t] = "asset" /\ Return(t, "found") /\ UNCHANGED op
       \/ /\ req[t] \in {"empty", "fault"}
          /\ ~HasClaim
          /\ Return(t, "no code")
          /\ UNCHANGED op
       \/ /\ req[t] \in {"empty", "fault"}
          /\ HasClaim
          /\ op' = [op EXCEPT ![t] = "redeem"]
          /\ Attempt(t, 1)
    /\ UNCHANGED <<platformVars, late, link, asset, known>>

\* Fault: every answer of the platform counts as success.
RedeemReturnsUnchecked(t) ==
    /\ pc[t] = "calling"
    /\ op[t] = "redeem"
    /\ req[t] \in {"asset", "empty", "fault"}
    /\ Return(t, "created")
    /\ UNCHANGED <<platformVars, late, link, asset, op, known>>

\* Fault: the answer of the platform is returned as it is.
RedeemReturnsRaw(t) ==
    /\ pc[t] = "calling"
    /\ op[t] = "redeem"
    /\ req[t] \in {"asset", "empty", "fault"}
    /\ Return(t, req[t])
    /\ UNCHANGED <<platformVars, late, link, asset, op, known>>

\* redeem_asset_claim() returns the asset, or None.
RedeemReturns(t) ==
    /\ pc[t] = "calling"
    /\ op[t] = "redeem"
    /\ \/ req[t] = "asset" /\ Return(t, "created")
       \/ req[t] \in {"empty", "fault"} /\ Return(t, "refused")
    /\ UNCHANGED <<platformVars, late, link, asset, op, known>>

-----------------------------------------------------------------------------
(***************************************************************************)
(* The life of the client.                                                 *)
(***************************************************************************)

Connect ==
    /\ link = "none"
    /\ link' = "open"
    /\ UNCHANGED <<platformVars, late, taskVars>>

\* channel.close() begins: no new calls, and it cancels those under way.
Close ==
    /\ link = "open"
    /\ link' = "closing"
    /\ late' = late \cup OnTheWay(Tasks)
    /\ req' = [t \in Tasks |-> IF req[t] = "sent" THEN "cancelled" ELSE req[t]]
    /\ UNCHANGED <<platformVars, pc, asset, op, attempt, result, known>>

\* It is done, and the stub is removed.
CloseReturns ==
    /\ link = "closing"
    /\ link' = "none"
    /\ UNCHANGED <<platformVars, late, taskVars>>

\* The process dies and starts anew.
Restart ==
    /\ Restarts
    /\ link' = "none"
    /\ late' = late \cup OnTheWay(Tasks)
    /\ pc' = [t \in Tasks |-> "idle"]
    /\ op' = [t \in Tasks |-> "lookup"]
    /\ attempt' = [t \in Tasks |-> 0]
    /\ req' = [t \in Tasks |-> "none"]
    /\ result' = [t \in Tasks |-> "none"]
    /\ known' = {}
    /\ UNCHANGED <<platformVars, asset>>

-----------------------------------------------------------------------------

CallStep(t) ==
    \/ FailsTransiently(t) \/ FailsForGood(t) \/ Retry(t)
    \/ LookupReturns(t) \/ RedeemReturns(t)

TaskStep(t) == CallStep(t) \/ Answer(t) \/ \E a \in Assets : EnsureAsset(t, a)

PlatformStep(a) == ArriveLate(a) \/ LateLost(a) \/ ConsoleCreates(a)

Next ==
    \/ \E t \in Tasks : TaskStep(t)
    \/ \E a \in Assets : PlatformStep(a)
    \/ ConsoleRevokes
    \/ Connect \/ Close \/ CloseReturns \/ Restart

Spec == Init /\ [][Next]_vars

\* Every attempt has a deadline and every backoff a timer, so each task's call moves
\* on; the platform is not obliged to answer.
FairSpec == Spec /\ \A t \in Tasks : WF_vars(CallStep(t))

-----------------------------------------------------------------------------
(***************************************************************************)
(* Safety.                                                                 *)
(***************************************************************************)

\* ensure_asset() never returns an asset the platform does not know, over lost
\* answers, retries, refusals and a code that another task has used up.
ReturnedExists ==
    \A t \in Tasks : result[t] \in {"found", "created"} => asset[t] \in assets

\* A task whose asset exists when it begins never tries to redeem the code, however
\* its lookup fails and is retried: on every restart there is nothing left to redeem
\* (client/connector_client.py:189-191).  Excepted is a lookup the platform answers
\* with has_errors, which the client takes for an asset that is missing.
KnownNeverRedeemed ==
    \A t \in known : op[t] = "lookup"

\* ensure_asset() reports no asset only if there is none ("An asset that already
\* exists is simply returned", client/connector_client.py:191).
NoneMeansMissing ==
    \A t \in Tasks : result[t] = "refused" => asset[t] \notin assets

-----------------------------------------------------------------------------
(***************************************************************************)
(* Liveness, under FairSpec.                                               *)
(***************************************************************************)

\* ensure_asset() ends, even if the platform answers nothing.
EnsureEnds ==
    \A t \in Tasks : pc[t] \in {"calling", "backoff"} ~> pc[t] \in {"idle", "done"}
=============================================================================
