--------------------------- MODULE ConnectorProofs ---------------------------
(***************************************************************************)
(* Theorems about Connector, for any tasks, assets and number of attempts. *)
(***************************************************************************)
EXTENDS Connector, TLAPS

-----------------------------------------------------------------------------
(***************************************************************************)
(* Types.                                                                  *)
(***************************************************************************)

LEMMA InitType == Init => TypeOK
  BY ConnectorAssumption DEF Init, TypeOK

LEMMA OnTheWayType ==
  ASSUME TypeOK
  PROVE  OnTheWay(Tasks) \subseteq Assets /\ \A t \in Tasks : OnTheWay({t}) \subseteq Assets
  <1>1. ASSUME NEW T \in SUBSET Tasks, NEW x \in OnTheWay(T) PROVE x \in Assets
    <2>1. PICK u \in {v \in T : op[v] = "redeem" /\ req[v] = "sent"} : x = asset[u]
      BY <1>1 DEF OnTheWay
    <2>2. u \in Tasks
      BY <1>1, <2>1
    <2> QED
      BY <2>1, <2>2 DEF TypeOK
  <1>2. ASSUME NEW t \in Tasks PROVE {t} \in SUBSET Tasks
    OBVIOUS
  <1> QED
    BY <1>1, <1>2

LEMMA Increment == \A m \in Nat : \A n \in 0..m : n + 1 \in Nat
  OBVIOUS

LEMMA Zero == 0 \in 0..MaxRetries
  BY ConnectorAssumption

LEMMA ReturnType ==
  ASSUME TypeOK, NEW t \in Tasks,
         NEW r \in {"found", "created", "refused", "no code", "error"}, Return(t, r)
  PROVE  /\ pc' \in [Tasks -> {"idle", "calling", "backoff", "done"}]
         /\ attempt' \in [Tasks -> 0..MaxRetries]
         /\ req' \in [Tasks -> {"none", "sent", "asset", "empty", "fault", "cancelled"}]
         /\ result' \in [Tasks ->
                           {"none", "found", "created", "refused", "no code", "error"}]
  <1>1. attempt' \in [Tasks -> 0..MaxRetries]
    BY Zero DEF TypeOK, Return
  <1> QED
    BY <1>1 DEF TypeOK, Return

LEMMA AttemptType ==
  ASSUME TypeOK, NEW t \in Tasks, NEW n \in Nat, Attempt(t, n)
  PROVE  /\ pc' \in [Tasks -> {"idle", "calling", "backoff", "done"}]
         /\ attempt' \in [Tasks -> 0..MaxRetries]
         /\ req' \in [Tasks -> {"none", "sent", "asset", "empty", "fault", "cancelled"}]
         /\ result' \in [Tasks ->
                           {"none", "found", "created", "refused", "no code", "error"}]
  <1>1. CASE link = "open" /\ n <= MaxRetries
    <2>1. n \in 0..MaxRetries
      BY <1>1, ConnectorAssumption
    <2> QED
      BY <1>1, <2>1 DEF TypeOK, Attempt
  <1>2. CASE ~(link = "open" /\ n <= MaxRetries)
    BY <1>2, ReturnType DEF Attempt
  <1> QED
    BY <1>1, <1>2

LEMMA StepType ==
  ASSUME TypeOK, [Next]_vars
  PROVE  TypeOK'
  <1> USE ConnectorAssumption DEF TypeOK
  <1>1. CASE UNCHANGED vars
    BY <1>1 DEF vars
  <1>2. CASE Connect
    BY <1>2 DEF Connect, platformVars, taskVars
  <1>3. CASE Close
    BY <1>3, OnTheWayType DEF Close, platformVars
  <1>4. CASE CloseReturns
    BY <1>4 DEF CloseReturns, platformVars, taskVars
  <1>5. CASE Restart
    <2>1. attempt' \in [Tasks -> 0..MaxRetries]
      BY <1>5, Zero DEF Restart
    <2> QED
      BY <1>5, <2>1, OnTheWayType DEF Restart, platformVars
  <1>6. CASE ConsoleRevokes
    BY <1>6 DEF ConsoleRevokes, platformVars, taskVars
  <1>7. ASSUME NEW a \in Assets, ArriveLate(a) PROVE TypeOK'
    BY <1>7 DEF ArriveLate, Redeem, Redeemable, platformVars, taskVars
  <1>8. ASSUME NEW a \in Assets, LateLost(a) PROVE TypeOK'
    BY <1>8 DEF LateLost, platformVars, taskVars
  <1>9. ASSUME NEW a \in Assets, ConsoleCreates(a) PROVE TypeOK'
    BY <1>9 DEF ConsoleCreates, platformVars, taskVars
  <1>10. ASSUME NEW t \in Tasks, FailsTransiently(t) PROVE TypeOK'
    <2>1. CASE attempt[t] < MaxRetries
      BY <1>10, <2>1, OnTheWayType DEF FailsTransiently, platformVars
    <2>2. CASE ~(attempt[t] < MaxRetries)
      BY <1>10, <2>2, OnTheWayType, ReturnType DEF FailsTransiently, platformVars
    <2> QED
      BY <2>1, <2>2
  <1>11. ASSUME NEW t \in Tasks, FailsForGood(t) PROVE TypeOK'
    BY <1>11, OnTheWayType, ReturnType DEF FailsForGood, platformVars
  <1>12. ASSUME NEW t \in Tasks, Retry(t) PROVE TypeOK'
    <2>1. attempt[t] + 1 \in Nat
      <3>1. attempt[t] \in 0..MaxRetries
        BY <1>12
      <3> QED
        BY <3>1, Increment
    <2> QED
      BY <1>12, <2>1, AttemptType DEF Retry, platformVars
  <1>13. ASSUME NEW t \in Tasks, LookupReturns(t) PROVE TypeOK'
    <2>1. CASE Attempt(t, 1)
      BY <1>13, <2>1, AttemptType DEF LookupReturns, platformVars
    <2>2. CASE ~Attempt(t, 1)
      BY <1>13, <2>2, ReturnType DEF LookupReturns, platformVars
    <2> QED
      BY <2>1, <2>2
  <1>14. ASSUME NEW t \in Tasks, RedeemReturns(t) PROVE TypeOK'
    BY <1>14, ReturnType DEF RedeemReturns, platformVars
  <1>15. ASSUME NEW t \in Tasks, Answer(t) PROVE TypeOK'
    <2>1. assets' \subseteq Assets /\ code' \in {"unset", "valid", "spent"}
      <3>1. asset[t] \in Assets
        BY <1>15
      <3>2. Redeem(asset[t]) \/ UNCHANGED platformVars
        BY <1>15 DEF Answer
      <3> QED
        BY <3>1, <3>2 DEF Redeem, platformVars
    <2>2. req' \in [Tasks -> {"none", "sent", "asset", "empty", "fault", "cancelled"}]
      BY <1>15 DEF Answer
    <2> QED
      BY <1>15, <2>1, <2>2 DEF Answer
  <1>16. ASSUME NEW t \in Tasks, NEW a \in Assets, EnsureAsset(t, a) PROVE TypeOK'
    <2>1. Attempt(t, 1)
      BY <1>16 DEF EnsureAsset
    <2>2. /\ asset' \in [Tasks -> Assets]
          /\ op' \in [Tasks -> {"lookup", "redeem"}]
          /\ UNCHANGED <<assets, code, late, link>>
      BY <1>16 DEF EnsureAsset, platformVars
    <2>3. known' \subseteq Tasks
      BY <1>16 DEF EnsureAsset
    <2> QED
      BY <2>1, <2>2, <2>3, AttemptType, <1>16
  <1> QED
    BY <1>1, <1>2, <1>3, <1>4, <1>5, <1>6, <1>7, <1>8, <1>9, <1>10,
       <1>11, <1>12, <1>13, <1>14, <1>15, <1>16
    DEF Next, TaskStep, CallStep, PlatformStep

\* Every variable keeps its type; no call makes more than MaxRetries attempts.
THEOREM TypeCorrect == Spec => []TypeOK
  BY InitType, StepType, PTL DEF Spec

-----------------------------------------------------------------------------
(***************************************************************************)
(* What a task was told exists does exist.  The answer is true when it is  *)
(* given, and stays true on its way and after the task has returned.       *)
(***************************************************************************)

AnswerInv ==
    \A t \in Tasks :
        req[t] = "asset" \/ result[t] \in {"found", "created"} => asset[t] \in assets

LEMMA StepAnswer ==
  ASSUME TypeOK, AnswerInv, [Next]_vars
  PROVE  AnswerInv'
  <1> USE ConnectorAssumption DEF TypeOK, AnswerInv
  <1>1. CASE UNCHANGED vars
    BY <1>1 DEF vars
  <1>2. CASE Connect
    BY <1>2 DEF Connect, platformVars, taskVars
  <1>3. CASE Close
    BY <1>3 DEF Close, OnTheWay, platformVars, taskVars
  <1>4. CASE CloseReturns
    BY <1>4 DEF CloseReturns, platformVars, taskVars
  <1>5. CASE Restart
    BY <1>5 DEF Restart, OnTheWay, platformVars, taskVars
  <1>6. CASE ConsoleRevokes
    BY <1>6 DEF ConsoleRevokes, platformVars, taskVars
  <1>7. ASSUME NEW a \in Assets, ArriveLate(a) PROVE AnswerInv'
    BY <1>7 DEF ArriveLate, Redeem, Redeemable, platformVars, taskVars
  <1>8. ASSUME NEW a \in Assets, LateLost(a) PROVE AnswerInv'
    BY <1>8 DEF LateLost, platformVars, taskVars
  <1>9. ASSUME NEW a \in Assets, ConsoleCreates(a) PROVE AnswerInv'
    BY <1>9 DEF ConsoleCreates, platformVars, taskVars
  <1>10. ASSUME NEW t \in Tasks, FailsTransiently(t) PROVE AnswerInv'
    BY <1>10 DEF FailsTransiently, Return, OnTheWay, platformVars
  <1>11. ASSUME NEW t \in Tasks, FailsForGood(t) PROVE AnswerInv'
    BY <1>11 DEF FailsForGood, Return, OnTheWay, platformVars
  <1>12. ASSUME NEW t \in Tasks, Retry(t) PROVE AnswerInv'
    BY <1>12 DEF Retry, Attempt, Return, platformVars
  <1>13. ASSUME NEW t \in Tasks, LookupReturns(t) PROVE AnswerInv'
    <2>1. CASE Attempt(t, 1)
      <3>1. UNCHANGED <<assets, asset>>
        BY <1>13 DEF LookupReturns, platformVars
      <3>2. CASE /\ req' = [req EXCEPT ![t] = "sent"]
                 /\ result' = [result EXCEPT ![t] = "none"]
        BY <1>13, <3>1, <3>2
      <3>3. CASE Return(t, "error")
        BY <1>13, <3>1, <3>3 DEF Return
      <3> QED
        BY <2>1, <3>2, <3>3 DEF Attempt
    <2>2. CASE ~Attempt(t, 1)
      BY <1>13, <2>2 DEF LookupReturns, Return, platformVars
    <2> QED
      BY <2>1, <2>2
  <1>14. ASSUME NEW t \in Tasks, RedeemReturns(t) PROVE AnswerInv'
    BY <1>14 DEF RedeemReturns, Return, platformVars
  <1>15. ASSUME NEW t \in Tasks, Answer(t) PROVE AnswerInv'
    BY <1>15 DEF Answer, Redeem, Redeemable, platformVars
  <1>16. ASSUME NEW t \in Tasks, NEW a \in Assets, EnsureAsset(t, a) PROVE AnswerInv'
    BY <1>16 DEF EnsureAsset, Attempt, Return, platformVars
  <1> QED
    BY <1>1, <1>2, <1>3, <1>4, <1>5, <1>6, <1>7, <1>8, <1>9, <1>10,
       <1>11, <1>12, <1>13, <1>14, <1>15, <1>16
    DEF Next, TaskStep, CallStep, PlatformStep

\* ensure_asset() only returns assets the platform knows, whatever is lost or retried.
THEOREM ReturnsKnown == Spec => []ReturnedExists
  <1> DEFINE Inv == TypeOK /\ AnswerInv
  <1>1. Init => Inv
    BY InitType DEF Init, AnswerInv
  <1>2. Inv /\ [Next]_vars => Inv'
    BY StepType, StepAnswer
  <1>3. Inv => ReturnedExists
    BY DEF AnswerInv, ReturnedExists
  <1> QED
    BY <1>1, <1>2, <1>3, PTL DEF Spec

-----------------------------------------------------------------------------
(***************************************************************************)
(* An asset the platform knows stays known, so that the lookup of a task   *)
(* that began with a known asset is never answered in the negative.        *)
(***************************************************************************)

KnownInv ==
    \A t \in known :
        /\ asset[t] \in assets
        /\ op[t] = "lookup"
        /\ req[t] \notin {"empty", "fault"}

LEMMA StepKnown ==
  ASSUME TypeOK, KnownInv, [Next]_vars
  PROVE  KnownInv'
  <1> USE ConnectorAssumption DEF TypeOK, KnownInv
  <1>1. CASE UNCHANGED vars
    BY <1>1 DEF vars
  <1>2. CASE Connect
    BY <1>2 DEF Connect, platformVars, taskVars
  <1>3. CASE Close
    BY <1>3 DEF Close, OnTheWay, platformVars, taskVars
  <1>4. CASE CloseReturns
    BY <1>4 DEF CloseReturns, platformVars, taskVars
  <1>5. CASE Restart
    BY <1>5 DEF Restart, OnTheWay, platformVars, taskVars
  <1>6. CASE ConsoleRevokes
    BY <1>6 DEF ConsoleRevokes, platformVars, taskVars
  <1>7. ASSUME NEW a \in Assets, ArriveLate(a) PROVE KnownInv'
    BY <1>7 DEF ArriveLate, Redeem, Redeemable, platformVars, taskVars
  <1>8. ASSUME NEW a \in Assets, LateLost(a) PROVE KnownInv'
    BY <1>8 DEF LateLost, platformVars, taskVars
  <1>9. ASSUME NEW a \in Assets, ConsoleCreates(a) PROVE KnownInv'
    BY <1>9 DEF ConsoleCreates, platformVars, taskVars
  <1>10. ASSUME NEW t \in Tasks, FailsTransiently(t) PROVE KnownInv'
    BY <1>10 DEF FailsTransiently, Return, OnTheWay, platformVars
  <1>11. ASSUME NEW t \in Tasks, FailsForGood(t) PROVE KnownInv'
    BY <1>11 DEF FailsForGood, Return, OnTheWay, platformVars
  <1>12. ASSUME NEW t \in Tasks, Retry(t) PROVE KnownInv'
    BY <1>12 DEF Retry, Attempt, Return, platformVars
  <1>13. ASSUME NEW t \in Tasks, LookupReturns(t) PROVE KnownInv'
    <2>1. CASE t \in known
      BY <1>13, <2>1 DEF LookupReturns, Return, platformVars
    <2>2. CASE t \notin known
      <3>1. /\ UNCHANGED <<assets, asset, known>>
            /\ \E x \in {"none", "sent"} : req' = [req EXCEPT ![t] = x]
        BY <1>13 DEF LookupReturns, Attempt, Return, platformVars
      <3>2. op' = op \/ op' = [op EXCEPT ![t] = "redeem"]
        BY <1>13 DEF LookupReturns
      <3> QED
        BY <2>2, <3>1, <3>2
    <2> QED
      BY <2>1, <2>2
  <1>14. ASSUME NEW t \in Tasks, RedeemReturns(t) PROVE KnownInv'
    BY <1>14 DEF RedeemReturns, Return, platformVars
  <1>15. ASSUME NEW t \in Tasks, Answer(t) PROVE KnownInv'
    BY <1>15 DEF Answer, Redeem, Redeemable, platformVars
  <1>16. ASSUME NEW t \in Tasks, NEW a \in Assets, EnsureAsset(t, a) PROVE KnownInv'
    <2>1. /\ op' = [op EXCEPT ![t] = "lookup"]
          /\ asset' = [asset EXCEPT ![t] = a]
          /\ UNCHANGED assets
          /\ known' = IF a \in assets THEN known \cup {t} ELSE known \ {t}
      BY <1>16 DEF EnsureAsset, platformVars
    <2>2. \E x \in {"none", "sent"} : req' = [req EXCEPT ![t] = x]
      BY <1>16 DEF EnsureAsset, Attempt, Return
    <2>3. ASSUME NEW u \in known', u # t
          PROVE  asset'[u] \in assets' /\ op'[u] = "lookup" /\ req'[u] \notin {"empty", "fault"}
      BY <2>1, <2>2, <2>3
    <2>4. ASSUME t \in known'
          PROVE  asset'[t] \in assets' /\ op'[t] = "lookup" /\ req'[t] \notin {"empty", "fault"}
      BY <2>1, <2>2, <2>4
    <2> QED
      BY <2>3, <2>4
  <1> QED
    BY <1>1, <1>2, <1>3, <1>4, <1>5, <1>6, <1>7, <1>8, <1>9, <1>10,
       <1>11, <1>12, <1>13, <1>14, <1>15, <1>16
    DEF Next, TaskStep, CallStep, PlatformStep

\* No task redeems the code for an asset that existed when the task began, unless the
\* platform has answered its lookup with an error.
THEOREM NeverRedeemsKnown == Spec => []KnownNeverRedeemed
  <1> DEFINE Inv == TypeOK /\ KnownInv
  <1>1. Init => Inv
    BY InitType DEF Init, KnownInv
  <1>2. Inv /\ [Next]_vars => Inv'
    BY StepType, StepKnown
  <1>3. Inv => KnownNeverRedeemed
    BY DEF KnownInv, KnownNeverRedeemed
  <1> QED
    BY <1>1, <1>2, <1>3, PTL DEF Spec
=============================================================================
