-------------------------- MODULE LifecycleProofs ---------------------------
(***************************************************************************)
(* A close() that returns leaves nothing running, and a publisher never    *)
(* has two streams, unless connect() is called out of turn.                *)
(***************************************************************************)
EXTENDS Lifecycle, TLAPS

\* The three places of an owner hold its components.
LEMMA Places ==
    ASSUME owner \in {"livedata", "runtime"}
    PROVE  /\ \A j \in 1..3 : CloseOrder[j] \in Components
           /\ {ConnectOrder[j] : j \in 1..3} = {CloseOrder[j] : j \in 1..3}
           /\ \A i \in 1..3, j \in 1..3 : CloseOrder[i] = CloseOrder[j] => i = j
<1>1. CASE owner = "livedata"
    BY <1>1 DEF CloseOrder, ConnectOrder, Components, Publishers
<1>2. CASE owner = "runtime"
    <2>1. \A j \in 1..3 : j = 1 \/ j = 2 \/ j = 3
        OBVIOUS
    <2> QED BY <1>2, <2>1 DEF CloseOrder, ConnectOrder, Components, Publishers
<1> QED BY <1>1, <1>2

\* A set of places that is not empty has a first one.
LEMMA FirstPlace ==
    ASSUME NEW S \in SUBSET (1..3), S # {}
    PROVE  Min(S) \in S /\ \A j \in S : Min(S) <= j
<1>1. \E x \in S : \A y \in S : x <= y
    <2>1. \A j \in S : j = 1 \/ j = 2 \/ j = 3
        OBVIOUS
    <2>2. CASE 1 \in S
        BY <2>1, <2>2
    <2>3. CASE 1 \notin S /\ 2 \in S
        BY <2>1, <2>3
    <2>4. CASE 1 \notin S /\ 2 \notin S
        <3>1. PICK x \in S : x = 3
            BY <2>1, <2>4
        <3>2. \A y \in S : y = 3
            BY <2>1, <2>4
        <3> QED BY <3>1, <3>2
    <2> QED BY <2>2, <2>3, <2>4
<1> QED BY <1>1 DEF Min

States == {"none", "running", "ended", "cancelled"}

\* close() goes on to the first component that it has to wait for, or that raises.
LEMMA ProceedStops ==
    ASSUME NEW i \in 1..4, NEW c, Proceed(i, c)
    PROVE  /\ conn' = c /\ UNCHANGED <<owner, orphans, proper>> /\ closed' \in [Components -> BOOLEAN]
           /\ \/ /\ phase' = "closed" /\ at' = 0
                 /\ \A j \in i..3 : c[CloseOrder[j]] \notin {"running", "cancelled"}
              \/ phase' = "raised" /\ at' = 0
              \/ /\ phase' = "closing" /\ at' \in i..3 /\ c[CloseOrder[at']] = "running"
                 /\ \A j \in i..(at' - 1) : c[CloseOrder[j]] \notin {"running", "cancelled"}
<1> DEFINE waits == {j \in i..3 : c[CloseOrder[j]] \in {"running", "cancelled"}}
<1>1. conn' = c /\ UNCHANGED <<owner, orphans, proper>> /\ closed' \in [Components -> BOOLEAN]
    BY DEF Proceed
<1>2. CASE waits = {}
    <2>1. phase' = "closed" /\ at' = 0
        BY <1>2 DEF Proceed
    <2> QED BY <1>1, <1>2, <2>1
<1>3. CASE waits # {}
    <2>1. waits \in SUBSET (1..3)
        OBVIOUS
    <2>2. Min(waits) \in waits /\ \A j \in waits : Min(waits) <= j
        BY <1>3, <2>1, FirstPlace
    <2>3. phase' = IF c[CloseOrder[Min(waits)]] = "cancelled" THEN "raised" ELSE "closing"
        BY <1>3 DEF Proceed
    <2>4. at' = IF phase' = "closing" THEN Min(waits) ELSE 0
        BY <1>3 DEF Proceed
    <2>5. \A j \in i..(Min(waits) - 1) : j \notin waits /\ j \in i..3
        BY <2>2
    <2> QED BY <1>1, <2>2, <2>3, <2>4, <2>5
<1> QED BY <1>2, <1>3

\* The inductive invariant: close() waits at the first component that still runs, what
\* the owner does not have is never opened, and before the first connect() nothing runs.
LInv ==
    /\ TypeOK
    /\ phase = "closing" <=> at # 0
    /\ at # 0 => conn[CloseOrder[at]] = "running"
    /\ at # 0 => \A j \in 1..(at - 1) : conn[CloseOrder[j]] # "running"
    /\ \A k \in Components : k \notin {CloseOrder[j] : j \in 1..3} => conn[k] = "none"
    /\ phase \in {"new", "closed"} => \A k \in Components : conn[k] # "running"
    /\ OneStreamEach

LEMMA InitInv == Init => LInv
<1> SUFFICES ASSUME Init PROVE LInv
    OBVIOUS
<1>1. TypeOK
    <2>1. 0 \in 0..MaxOrphans /\ 0 \in 0..3
        BY LifecycleAssumption
    <2> QED BY <2>1 DEF Init, TypeOK
<1> QED BY <1>1 DEF Init, LInv, OneStreamEach

\* Going on after the component at which close() was waiting keeps the invariant.
LEMMA ProceedKeeps ==
    ASSUME LInv, NEW i \in 1..4, NEW c \in [Components -> States], Proceed(i, c),
           \A j \in 1..(i - 1) : c[CloseOrder[j]] # "running",
           \A k \in Components : k \notin {CloseOrder[j] : j \in 1..3} => c[k] = "none"
    PROVE  LInv'
<1>1. /\ conn' = c /\ UNCHANGED <<owner, orphans, proper>> /\ closed' \in [Components -> BOOLEAN]
    BY ProceedStops
<1>2. owner \in {"livedata", "runtime"} /\ CloseOrder' = CloseOrder
    BY <1>1 DEF LInv, TypeOK, CloseOrder
<1>3. OneStreamEach'
    BY <1>1 DEF LInv, OneStreamEach
<1>4. \A k \in Components : k \notin {CloseOrder'[j] : j \in 1..3} => conn'[k] = "none"
    BY <1>1, <1>2
<1>5. TypeOK'
    <2>1. phase' \in {"closed", "raised", "closing"} /\ at' \in 0..3
        BY ProceedStops
    <2> QED BY <1>1, <2>1 DEF LInv, TypeOK, States
<1>6. CASE phase' = "closed" /\ at' = 0 /\ \A j \in i..3 : c[CloseOrder[j]] \notin {"running", "cancelled"}
    <2>1. \A j \in 1..3 : c[CloseOrder[j]] # "running"
        BY <1>6
    <2>2. \A k \in Components : c[k] # "running"
        BY <2>1
    <2> QED BY <1>1, <1>3, <1>4, <1>5, <1>6, <2>2 DEF LInv
<1>7. CASE phase' = "raised" /\ at' = 0
    BY <1>3, <1>4, <1>5, <1>7 DEF LInv
<1>8. CASE /\ phase' = "closing" /\ at' \in i..3 /\ c[CloseOrder[at']] = "running"
           /\ \A j \in i..(at' - 1) : c[CloseOrder[j]] \notin {"running", "cancelled"}
    <2>1. \A j \in 1..(at' - 1) : c[CloseOrder[j]] # "running"
        <3> TAKE j \in 1..(at' - 1)
        <3>1. j \in 1..(i - 1) \/ j \in i..(at' - 1)
            <4>1. PICK a \in i..3 : at' = a
                BY <1>8
            <4>2. j \in Int /\ i \in Int /\ 1 <= j /\ j <= a - 1
                BY <4>1
            <4> QED BY <4>1, <4>2
        <3> QED BY <1>8, <3>1
    <2>2. at' # 0
        BY <1>8
    <2> QED BY <1>1, <1>2, <1>3, <1>4, <1>5, <1>8, <2>1, <2>2 DEF LInv
<1> QED BY <1>6, <1>7, <1>8, ProceedStops

\* The component at which close() was waiting has come to an end.
LEMMA WaitOver ==
    ASSUME LInv, at # 0, NEW s \in {"none", "ended", "cancelled"},
           Proceed(at + 1, [conn EXCEPT ![CloseOrder[at]] = s])
    PROVE  LInv'
<1> DEFINE c == [conn EXCEPT ![CloseOrder[at]] = s]
<1>1. at \in 1..3 /\ at + 1 \in 1..4 /\ owner \in {"livedata", "runtime"}
    BY DEF LInv, TypeOK
<1>2. c \in [Components -> States] /\ CloseOrder[at] \in Components
    BY <1>1, Places DEF LInv, TypeOK, States
<1>3. \A j \in 1..((at + 1) - 1) : c[CloseOrder[j]] # "running"
    <2> TAKE j \in 1..((at + 1) - 1)
    <2>1. CloseOrder[j] \in Components
        BY <1>1, Places
    <2>2. CASE j = at
        BY <1>2, <2>2 DEF LInv, TypeOK
    <2>3. CASE j # at
        <3>1. j \in 1..(at - 1)
            BY <1>1, <2>3
        <3> QED BY <2>1, <3>1 DEF LInv, TypeOK
    <2> QED BY <2>2, <2>3
<1>4. \A k \in Components : k \notin {CloseOrder[j] : j \in 1..3} => c[k] = "none"
    BY <1>1 DEF LInv, TypeOK
<1> HIDE DEF c
<1> QED BY <1>1, <1>2, <1>3, <1>4, ProceedKeeps DEF c

LEMMA ConnectKeeps ==
    ASSUME LInv, NEW n \in 0..3, ConnectFirst(n), phase' \in {"entered", "failed"}, phase # "closing"
    PROVE  LInv'
<1> DEFINE fresh == {ConnectOrder[i] : i \in 1..n}
<1>1. UNCHANGED <<owner, at>> /\ at = 0 /\ owner \in {"livedata", "runtime"}
    BY DEF ConnectFirst, LInv, TypeOK
<1>2. CloseOrder' = CloseOrder /\ fresh \subseteq {CloseOrder[j] : j \in 1..3}
    <2>1. fresh \subseteq {ConnectOrder[j] : j \in 1..3}
        OBVIOUS
    <2> QED BY <1>1, <2>1, Places DEF CloseOrder
<1>3. /\ conn' = [k \in Components |-> IF k \in fresh THEN "running" ELSE conn[k]]
      /\ closed' \in [Components -> BOOLEAN]
      /\ proper' = (proper /\ phase \in {"new", "closed"})
    BY DEF ConnectFirst
<1>4. orphans' = [k \in Components |->
                    IF k \in fresh /\ conn[k] = "running" THEN orphans[k] + 1 ELSE orphans[k]]
    BY DEF ConnectFirst
<1>5. orphans' \in [Components -> 0..MaxOrphans]
    <2>1. \A k \in fresh : conn[k] = "running" => orphans[k] < MaxOrphans
        BY DEF ConnectFirst
    <2>2. \A k \in Components : orphans[k] \in 0..MaxOrphans
        BY DEF LInv, TypeOK
    <2>3. ASSUME NEW k \in Components, k \in fresh, conn[k] = "running" PROVE orphans[k] + 1 \in 0..MaxOrphans
        BY <2>1, <2>2, <2>3, LifecycleAssumption
    <2> HIDE DEF fresh
    <2> QED BY <1>4, <2>2, <2>3
<1>6. TypeOK'
    <2> HIDE DEF fresh
    <2>1. conn' \in [Components -> {"none", "running", "ended", "cancelled"}]
        BY <1>3 DEF LInv, TypeOK
    <2>2. proper' \in BOOLEAN
        BY <1>3
    <2> QED BY <1>1, <1>3, <1>5, <2>1, <2>2 DEF LInv, TypeOK
<1>7. OneStreamEach'
    <2> SUFFICES ASSUME proper' = TRUE, NEW k \in Components PROVE orphans'[k] = 0
        BY <1>6 DEF OneStreamEach, TypeOK
    <2>1. proper /\ phase \in {"new", "closed"}
        BY <1>3
    <2>2. conn[k] # "running" /\ orphans[k] = 0
        BY <2>1 DEF LInv, OneStreamEach
    <2> QED BY <1>4, <2>2
<1>8. \A k \in Components : k \notin {CloseOrder'[j] : j \in 1..3} => conn'[k] = "none"
    <2> HIDE DEF fresh
    <2> QED BY <1>2, <1>3 DEF LInv
<1> QED BY <1>1, <1>6, <1>7, <1>8 DEF LInv

LEMMA StepKeeps == LInv /\ [Next]_vars => LInv'
<1> SUFFICES ASSUME LInv, [Next]_vars PROVE LInv'
    OBVIOUS
<1>1. CASE Connect
    BY <1>1, ConnectKeeps DEF Connect
<1>2. ASSUME NEW n \in 0..2, ConnectFails(n) PROVE LInv'
    BY <1>2, ConnectKeeps DEF ConnectFails
<1>3. CASE Close
    <2>1. conn \in [Components -> States]
        BY DEF LInv, TypeOK, States
    <2>2. Proceed(1, conn)
        BY <1>3 DEF Close
    <2>3. \A j \in 1..(1 - 1) : conn[CloseOrder[j]] # "running"
        OBVIOUS
    <2> QED BY <2>1, <2>2, <2>3, ProceedKeeps DEF LInv
<1>4. CASE TimedOut
    BY <1>4, WaitOver DEF TimedOut
<1>5. CASE ChannelCloses
    BY <1>5, WaitOver DEF ChannelCloses
<1>6. ASSUME NEW k \in Publishers, TaskEnds(k) PROVE LInv'
    BY <1>6, WaitOver DEF TaskEnds
<1>7. CASE CloseCancelled
    <2>1. /\ at # 0 /\ phase' = "cancelled" /\ at' = 0 /\ UNCHANGED <<owner, closed, orphans, proper>>
          /\ \E s \in States : conn' = [conn EXCEPT ![CloseOrder[at]] = s]
        BY <1>7 DEF CloseCancelled, LInv, TypeOK, States
    <2>2. at \in 1..3 /\ owner \in {"livedata", "runtime"} /\ CloseOrder' = CloseOrder
        BY <2>1 DEF LInv, TypeOK, CloseOrder
    <2>3. TypeOK'
        <3>1. conn' \in [Components -> States]
            BY <2>1 DEF LInv, TypeOK, States
        <3>2. 0 \in 0..3
            OBVIOUS
        <3> QED BY <2>1, <3>1, <3>2 DEF LInv, TypeOK, States
    <2>4. \A k \in Components : k \notin {CloseOrder'[j] : j \in 1..3} => conn'[k] = "none"
        BY <2>1, <2>2 DEF LInv, TypeOK
    <2>5. OneStreamEach'
        BY <2>1 DEF LInv, OneStreamEach
    <2> QED BY <2>1, <2>3, <2>4, <2>5 DEF LInv
<1>8. ASSUME NEW k \in Publishers, OrphanEnds(k) PROVE LInv'
    <2>1. /\ orphans' = [orphans EXCEPT ![k] = @ - 1] /\ orphans[k] > 0 /\ k \in Components
          /\ UNCHANGED <<owner, phase, at, conn, closed, proper>>
        BY <1>8 DEF OrphanEnds, Components
    <2>2. orphans[k] - 1 \in 0..MaxOrphans
        BY <2>1, LifecycleAssumption DEF LInv, TypeOK
    <2>3. TypeOK'
        BY <2>1, <2>2 DEF LInv, TypeOK
    <2>4. OneStreamEach'
        BY <2>1 DEF LInv, OneStreamEach, TypeOK
    <2> QED BY <2>1, <2>3, <2>4 DEF LInv, CloseOrder
<1>9. CASE UNCHANGED vars
    BY <1>9 DEF vars, LInv, TypeOK, OneStreamEach, CloseOrder
<1> QED BY <1>1, <1>2, <1>3, <1>4, <1>5, <1>6, <1>7, <1>8, <1>9 DEF Next

LEMMA Invariance == Spec => []LInv
<1> QED BY InitInv, StepKeeps, PTL DEF Spec

\* The variables keep their types in every execution.
THEOREM TypeCorrect == Spec => []TypeOK
<1>1. LInv => TypeOK
    BY DEF LInv
<1> QED BY <1>1, Invariance, PTL

\* When close() returns, nothing that it knows of runs or is open, whichever streams end in
\* time and whichever are cancelled; and no stream that a connect() has replaced runs either,
\* in the executions that call connect() only first of all or after a close() that returned.
THEOREM ClosedIsClean == Spec => []CloseReturnsClean
<1>1. LInv => CloseReturnsClean
    <2> SUFFICES ASSUME LInv, phase = "closed", NEW k \in Components
                 PROVE  conn[k] # "running" /\ (proper => orphans[k] = 0)
        BY DEF CloseReturnsClean
    <2>1. conn[k] # "running"
        BY DEF LInv
    <2>2. proper => orphans[k] = 0
        BY DEF LInv, OneStreamEach
    <2> QED BY <2>1, <2>2
<1> QED BY <1>1, Invariance, PTL

\* No publisher has a second stream as long as connect() is only called first of all or
\* after a close() that returned.
THEOREM NeverTwoStreams == Spec => []OneStreamEach
<1>1. LInv => OneStreamEach
    BY DEF LInv
<1> QED BY <1>1, Invariance, PTL
=============================================================================
