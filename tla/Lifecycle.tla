----------------------------- MODULE Lifecycle ------------------------------
(***************************************************************************)
(* Opening and closing several clients as one: LiveDataService, with its   *)
(* three publishers, and EdgeAdapterRuntime, with a publisher between two  *)
(* clients that only hold a channel (client/live_data_service.py,          *)
(* config.py).  They are closed one after the other; a publisher's close() *)
(* waits ten seconds for its stream task, cancels it, and goes on.  An     *)
(* action is the code between two awaits.                                  *)
(***************************************************************************)
EXTENDS Integers, Sequences, FiniteSetsExt

CONSTANT MaxOrphans     \* bound on the streams that nobody refers to any more

ASSUME LifecycleAssumption == MaxOrphans \in Nat

VARIABLES
    owner,              \* what is opened and closed: "livedata" or "runtime"
    phase,              \* how far it is, and how its last close() ended
    at,                 \* the component whose close() is waiting, by its place, or 0
    conn,               \* a component's task or channel
    closed,             \* its _closed flag
    orphans,            \* history: its streams that were replaced while they ran
    proper              \* history: connect() was only called when nothing was open

vars == <<owner, phase, at, conn, closed, orphans, proper>>

Publishers == {"telemetry", "detection", "notification"}

Components == Publishers \cup {"connector", "mission_autonomy"}

ConnectOrder ==
    IF owner = "livedata" THEN <<"telemetry", "detection", "notification">>
    ELSE <<"connector", "telemetry", "mission_autonomy">>

CloseOrder ==
    IF owner = "livedata" THEN <<"telemetry", "detection", "notification">>
    ELSE <<"telemetry", "connector", "mission_autonomy">>

TypeOK ==
    /\ owner \in {"livedata", "runtime"}
    /\ phase \in {"new", "failed", "entered", "closing", "closed", "raised", "cancelled"}
    /\ at \in 0..3
    /\ conn \in [Components -> {"none", "running", "ended", "cancelled"}]
    /\ closed \in [Components -> BOOLEAN]
    /\ orphans \in [Components -> 0..MaxOrphans]
    /\ proper \in BOOLEAN

Init ==
    /\ owner \in {"livedata", "runtime"}
    /\ phase = "new"
    /\ at = 0
    /\ conn = [k \in Components |-> "none"]
    /\ closed = [k \in Components |-> FALSE]
    /\ orphans = [k \in Components |-> 0]
    /\ proper = TRUE

-----------------------------------------------------------------------------

\* The first n components connect: each starts a task or a channel, and what it had is
\* forgotten.  connect() has no await that suspends.
ConnectFirst(n) ==
    LET fresh == {ConnectOrder[i] : i \in 1..n} IN
    /\ \A k \in fresh : conn[k] = "running" => orphans[k] < MaxOrphans
    /\ conn' = [k \in Components |-> IF k \in fresh THEN "running" ELSE conn[k]]
    /\ closed' = [k \in Components |-> closed[k] /\ k \notin fresh]
    /\ orphans' = [k \in Components |->
                    IF k \in fresh /\ conn[k] = "running" THEN orphans[k] + 1 ELSE orphans[k]]
    /\ proper' = (proper /\ phase \in {"new", "closed"})
    /\ UNCHANGED <<owner, at>>

\* LiveDataService.connect() may be called again; a runtime is entered once.
Connect ==
    /\ phase # "closing"
    /\ owner = "runtime" => phase = "new"
    /\ ConnectFirst(3)
    /\ phase' = "entered"

\* The generated code of a service is missing: __aenter__ raises half-way.
ConnectFails(n) ==
    /\ owner = "runtime" /\ phase = "new"
    /\ ConnectFirst(n)
    /\ phase' = "failed"

\* Fault: the place of the component that waits is one too far.
ProceedPast(i, c) ==
    LET waits == {j \in i..3 : c[CloseOrder[j]] \in {"running", "cancelled"}}
    IN  /\ closed' = [k \in Components |-> closed[k] \/ k \in {CloseOrder[j] : j \in i..3}]
        /\ phase' = IF waits = {} THEN "closed" ELSE "closing"
        /\ at' = IF waits = {} THEN 0 ELSE Min(waits) + 1
        /\ conn' = c
        /\ UNCHANGED <<owner, orphans, proper>>

\* close() goes on with component i: a component without a task, or whose task has ended,
\* does not make it wait; a task that was cancelled raises CancelledError out of close().
Proceed(i, c) ==
    LET waits == {j \in i..3 : c[CloseOrder[j]] \in {"running", "cancelled"}}
        last == IF waits = {} THEN 3 ELSE Min(waits)
    IN  /\ closed' = [k \in Components |-> closed[k] \/ k \in {CloseOrder[j] : j \in i..last}]
        /\ phase' = IF waits = {} THEN "closed"
                    ELSE IF c[CloseOrder[last]] = "cancelled" THEN "raised" ELSE "closing"
        /\ at' = IF phase' = "closing" THEN last ELSE 0
        /\ conn' = c
        /\ UNCHANGED <<owner, orphans, proper>>

\* LiveDataService.close() may be called at any time; __aexit__ follows an __aenter__.
Close ==
    /\ phase # "closing"
    /\ owner = "runtime" => phase = "entered"
    /\ Proceed(1, conn)

\* A stream task ends once its publisher is closed and the service answers, if it does.
TaskEnds(k) ==
    /\ k \in Publishers /\ conn[k] = "running" /\ closed[k]
    /\ at # 0 /\ CloseOrder[at] = k
    /\ Proceed(at + 1, [conn EXCEPT ![k] = "ended"])

\* Fault: the task that did not end in time is left alone.
TimedOutLeaving ==
    /\ at # 0 /\ CloseOrder[at] \in Publishers
    /\ Proceed(at + 1, [conn EXCEPT ![CloseOrder[at]] = "running"])

\* Fault: close() waits without a limit.
TimedOutNever ==
    /\ at # 0 /\ CloseOrder[at] \in Publishers /\ conn[CloseOrder[at]] = "ended"
    /\ Proceed(at + 1, conn)

\* Fault: close() returns once it had to cancel.
TimedOutReturning ==
    /\ at # 0 /\ CloseOrder[at] \in Publishers
    /\ conn' = [conn EXCEPT ![CloseOrder[at]] = "cancelled"]
    /\ phase' = "closed" /\ at' = 0
    /\ UNCHANGED <<owner, closed, orphans, proper>>

\* It does not end in time: it is cancelled, and close() goes on.
TimedOut ==
    /\ at # 0 /\ CloseOrder[at] \in Publishers
    /\ Proceed(at + 1, [conn EXCEPT ![CloseOrder[at]] = "cancelled"])

\* A channel is closed.
ChannelCloses ==
    /\ at # 0 /\ CloseOrder[at] \notin Publishers
    /\ Proceed(at + 1, [conn EXCEPT ![CloseOrder[at]] = "none"])

\* The caller of close() is cancelled: so is the task that close() waits for.
CloseCancelled ==
    /\ at # 0
    /\ conn' = [conn EXCEPT ![CloseOrder[at]] =
                    IF CloseOrder[at] \in Publishers THEN "cancelled" ELSE @]
    /\ phase' = "cancelled" /\ at' = 0
    /\ UNCHANGED <<owner, closed, orphans, proper>>

\* A stream that was replaced ends when it finds the publisher closed.
OrphanEnds(k) ==
    /\ k \in Publishers /\ orphans[k] > 0 /\ closed[k]
    /\ orphans' = [orphans EXCEPT ![k] = @ - 1]
    /\ UNCHANGED <<owner, phase, at, conn, closed, proper>>

Next ==
    \/ Connect \/ (\E n \in 0..2 : ConnectFails(n)) \/ Close
    \/ TimedOut \/ ChannelCloses \/ CloseCancelled
    \/ \E k \in Publishers : TaskEnds(k) \/ OrphanEnds(k)

\* Timers fire and channels close; a service need not answer and a caller need not cancel.
Spec == Init /\ [][Next]_vars /\ WF_vars(TimedOut) /\ WF_vars(ChannelCloses)

-----------------------------------------------------------------------------

\* When close() returns, whatever timed out on the way, nothing it knows of runs or is open;
\* and nothing runs at all if connect() was only called when nothing was open.  Else a stream
\* that connect() replaced may outlive close(), which does not know of it; and a close() that
\* raises or is cancelled promises nothing (client/live_data_service.py:72-77,
\* config.py:146-153, client/telemetry_publisher.py:87, 101-110).
CloseReturnsClean ==
    phase = "closed" => \A k \in Components : conn[k] # "running" /\ (proper => orphans[k] = 0)

\* A publisher never has two streams, as long as connect() is called only when nothing was
\* opened before or the last close() returned (client/telemetry_publisher.py:81-110).
OneStreamEach == proper => \A k \in Components : orphans[k] = 0

\* close() ends, whether or not the services answer (client/telemetry_publisher.py:101-109).
CloseEnds == phase = "closing" ~> phase # "closing"
=============================================================================
