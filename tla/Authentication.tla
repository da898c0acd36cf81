--------------------------- MODULE Authentication ---------------------------
(***************************************************************************)
(* The service token that the platform puts on its calls, and the check of *)
(* it in front of every call into the adapter (auth.py).  The platform     *)
(* issues a token by its own clock and the adapter judges it by another.   *)
(***************************************************************************)
EXTENDS Integers

CONSTANTS
    Skew,               \* CLOCK_SKEW_SECONDS
    Drift,              \* how far the two clocks are apart at most
    Lifetime,           \* for how long the platform issues a token
    MaxTime             \* bound on the clocks

ASSUME AuthenticationAssumption ==
    /\ {Skew, Drift, Lifetime, MaxTime} \subseteq Nat
    /\ Drift <= Skew

VARIABLES
    auth,               \* the configuration: disabled, without a key, or with the key
    now,                \* the adapter's clock
    platformNow         \* the platform's clock

authVars == <<auth, now, platformNow>>

\* What may be wrong with the header of a call other than its times: it is missing or not
\* a token, a part of it is JSON but not an object, algorithm or signature are not the
\* platform's, or issuer, audience or scope are others.
Flaws == {"none", "unreadable", "not an object", "forged", "misdirected"}

Times == 0..MaxTime

\* exp or iat may be missing.
Tokens == [flaw : Flaws, iat : Times \cup {-1}, exp : Nat \cup {-1}]

\* What a call may carry: the token the platform issues at that time, or less.
Issued(t) == [flaw |-> "none", iat |-> t, exp |-> t + Lifetime]

Headers(t) ==
    {Issued(t)} \cup {[Issued(t) EXCEPT !.flaw = f] : f \in Flaws}
                \cup {[Issued(t) EXCEPT !.iat = -1], [Issued(t) EXCEPT !.exp = -1]}

AuthTypeOK ==
    /\ auth \in {"disabled", "no key", "key"}
    /\ now \in Times
    /\ platformNow \in Times

AuthInit ==
    /\ auth \in {"disabled", "no key", "key"}
    /\ now = 0
    /\ platformNow = 0

\* Fault: no allowance for the clocks.
InTimeExactly(t) ==
    /\ t.exp # -1 /\ t.exp >= now
    /\ t.iat = -1 \/ t.iat <= now

\* Fault: the allowance shortens the token's life.
InTimeShortened(t) ==
    /\ t.exp # -1 /\ t.exp - Skew >= now
    /\ t.iat = -1 \/ t.iat + Skew <= now

\* Fault: a token without an expiry is taken for one that does not expire.
InTimeForever(t) ==
    /\ t.exp = -1 \/ t.exp + Skew >= now
    /\ t.iat = -1 \/ t.iat - Skew <= now

\* The token is neither expired nor issued in the future, give or take the skew.
InTime(t) ==
    /\ t.exp # -1 /\ t.exp + Skew >= now
    /\ t.iat = -1 \/ t.iat - Skew <= now

\* check(): what becomes of a call of method m that carries token t; health probes carry
\* none.  A part that is not an object raises an error of another kind.
Check(m, t) ==
    IF auth = "disabled" \/ m = "health" THEN "proceed"
    ELSE IF auth = "no key" THEN "UNAUTHENTICATED"
    ELSE IF t.flaw = "not an object" THEN "UNKNOWN"
    ELSE IF t.flaw = "none" /\ InTime(t) THEN "proceed" ELSE "UNAUTHENTICATED"

\* Time passes on one of the clocks.
Distance(s, t) == IF s > t THEN s - t ELSE t - s

AdapterTick ==
    /\ now < MaxTime
    /\ Distance(now + 1, platformNow) <= Drift
    /\ now' = now + 1
    /\ UNCHANGED <<auth, platformNow>>

PlatformTick ==
    /\ platformNow < MaxTime
    /\ Distance(now, platformNow + 1) <= Drift
    /\ platformNow' = platformNow + 1
    /\ UNCHANGED <<auth, now>>

AuthNext == auth = "key" /\ (AdapterTick \/ PlatformTick)
=============================================================================
