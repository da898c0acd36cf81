--------------------------- MODULE PublisherProofs ---------------------------
(***************************************************************************)
(* Theorems of Publisher, for every queue size and every number of frames  *)
(* and attempts.                                                           *)
(***************************************************************************)
EXTENDS Publisher, SequenceTheorems, TLAPS

Item == {Sentinel} \cup Frames

-----------------------------------------------------------------------------
(***************************************************************************)
(* The queue operations.                                                   *)
(***************************************************************************)

LEMMA PutNowaitProperties ==
    ASSUME NEW q \in Seq(Item), NEW x \in Item, Len(q) <= QueueMaxSize
    PROVE  /\ PutNowait(q, x) \in Seq(Item)
           /\ Len(PutNowait(q, x)) <= QueueMaxSize
           /\ Len(q) \in Nat
           /\ Len(PutNowait(q, x)) = Len(q) \/ Len(PutNowait(q, x)) = Len(q) + 1
           /\ \A i \in 1..Len(q) : PutNowait(q, x)[i] = q[i]
           /\ Len(PutNowait(q, x)) = Len(q) + 1 => PutNowait(q, x)[Len(q) + 1] = x
<1>1. Append(q, x) \in Seq(Item) /\ Len(Append(q, x)) = Len(q) + 1
  BY AppendProperties
<1>2. /\ \A i \in 1..Len(q) : Append(q, x)[i] = q[i]
      /\ Append(q, x)[Len(q) + 1] = x
  BY AppendProperties
<1>3. Len(q) \in Nat /\ QueueMaxSize \in Nat
  BY PublisherAssumption
<1>4. QED
  BY <1>1, <1>2, <1>3 DEF PutNowait

LEMMA TailProperties ==
    ASSUME NEW S, NEW q \in Seq(S), q # <<>>
    PROVE  /\ Head(q) \in S
           /\ Head(q) = q[1]
           /\ Tail(q) \in Seq(S)
           /\ Len(q) \in Nat \ {0}
           /\ Len(Tail(q)) = Len(q) - 1
           /\ \A i \in 1..Len(Tail(q)) : i + 1 \in 1..Len(q) /\ Tail(q)[i] = q[i + 1]
<1>1. /\ Head(q) \in S
      /\ Tail(q) \in Seq(S)
      /\ Len(Tail(q)) = Len(q) - 1
      /\ \A i \in 1..Len(Tail(q)) : Tail(q)[i] = q[i + 1]
  BY HeadTailProperties
<1>2. Len(q) \in Nat \ {0}
  BY EmptySeq
<1>3. QED
  BY <1>1, <1>2

-----------------------------------------------------------------------------
(***************************************************************************)
(* The inductive invariant.                                                *)
(***************************************************************************)

\* A generator holds a frame exactly while it is in the hands of the poller.
HandInv == \A a \in Attempts : hand[a] # NoFrame <=> gen[a] = "holding"

\* The loop awaits the only call that can be open, and later attempts are unused.
CallInv ==
    /\ loop = "calling" => attempt \in Attempts
    /\ \A a \in Attempts :
          /\ Open(a) => loop = "calling" /\ a = attempt
          /\ a > attempt => gen[a] = "none" /\ rpc[a] = "none"

\* Every attempt that the loop no longer awaits has been told to stop.
StopInv ==
    \A a \in Attempts :
        a <= attempt /\ (a # attempt \/ loop # "calling") => genStop[a]

\* The queue is in the order of publication.
QueueOrdered ==
    \A i, j \in 1..Len(queue) :
        i < j /\ queue[i] # Sentinel /\ queue[j] # Sentinel => queue[i] < queue[j]

\* What was sent and what an open call is about to send is older than the queue.
QueueFresh ==
    \A i \in 1..Len(queue) : queue[i] # Sentinel =>
        /\ queue[i] <= published
        /\ \A k \in 1..Len(sent) : sent[k] < queue[i]
        /\ \A a \in Attempts : Open(a) /\ hand[a] # NoFrame => hand[a] < queue[i]

\* What an open call is about to send is newer than what was sent.
HandFresh ==
    \A a \in Attempts :
        /\ hand[a] <= published
        /\ Open(a) /\ hand[a] # NoFrame => \A k \in 1..Len(sent) : sent[k] < hand[a]

SentFresh == \A k \in 1..Len(sent) : sent[k] <= published

OrderInv == QueueOrdered /\ QueueFresh /\ HandFresh /\ SentFresh /\ SentInOrder

\* After close(), an open call may still write one frame, unless it already has.
ClosedInv ==
    closed => /\ Len(sent) <= sentAtClose + 1
              /\ \A a \in Attempts :
                    Open(a) /\ gen[a] \in {"holding", "polling"}
                        => Len(sent) <= sentAtClose

IInv ==
    /\ TypeOK
    /\ HandInv
    /\ CallInv
    /\ StopInv
    /\ OrderInv
    /\ NoStraySentinel
    /\ ClosedInv

LEMMA InitIInv == Init => IInv
<1> SUFFICES ASSUME Init
             PROVE  IInv
  OBVIOUS
<1>1. /\ queue = <<>> /\ sent = <<>>
      /\ Len(queue) = 0 /\ Len(sent) = 0
      /\ queue \in Seq({Sentinel} \cup Frames) /\ sent \in Seq(Frames)
  BY EmptySeq DEF Init
<1>2. TypeOK
  <2>1. /\ gen \in [Attempts -> GenStates]
        /\ hand \in [Attempts -> {NoFrame} \cup Frames]
        /\ genStop \in [Attempts -> BOOLEAN]
        /\ rpc \in [Attempts -> RpcStates]
    BY DEF Init, GenStates, RpcStates
  <2>2. /\ Len(queue) <= QueueMaxSize
        /\ attempt \in 0..MaxAttempts
        /\ backoff \in BackoffInitial..BackoffMax
        /\ published \in 0..MaxFrames
        /\ publishedAtClose \in 0..MaxFrames
        /\ sentAtClose \in Nat
    BY <1>1, PublisherAssumption DEF Init
  <2>3. /\ closed \in BOOLEAN
        /\ stopEvent \in BOOLEAN
        /\ loop \in LoopStates
        /\ closer \in {"idle", "waiting", "cancelling"}
        /\ lost \in SUBSET Frames
        /\ dropped \in SUBSET Frames
        /\ discarded \in SUBSET Frames
    BY DEF Init, LoopStates
  <2>4. QED
    BY <1>1, <2>1, <2>2, <2>3 DEF TypeOK
<1>3. HandInv /\ CallInv /\ StopInv
  BY DEF Init, HandInv, CallInv, StopInv, Open, Attempts
<1>4. OrderInv /\ NoStraySentinel /\ ClosedInv
  BY <1>1 DEF Init, OrderInv, QueueOrdered, QueueFresh, HandFresh, SentFresh,
              SentInOrder, NoStraySentinel, ClosedInv, NoFrame
<1>5. QED
  BY <1>2, <1>3, <1>4 DEF IInv

-----------------------------------------------------------------------------
(***************************************************************************)
(* One lemma per part of the invariant.                                    *)
(***************************************************************************)

LEMMA LoopHeadTyping ==
    TypeOK /\ LoopHead /\ backoff' \in BackoffInitial..BackoffMax => TypeOK'
<1> SUFFICES ASSUME TypeOK, LoopHead, backoff' \in BackoffInitial..BackoffMax
             PROVE  TypeOK'
  OBVIOUS
<1>1. /\ loop' \in LoopStates
      /\ attempt' \in 0..MaxAttempts
  BY PublisherAssumption DEF LoopHead, TypeOK, LoopStates
<1>2. /\ gen' \in [Attempts -> GenStates]
      /\ rpc' \in [Attempts -> RpcStates]
  BY DEF LoopHead, TypeOK, GenStates, RpcStates
<1>3. QED
  BY <1>1, <1>2 DEF LoopHead, TypeOK, callerVars, historyVars

LEMMA TakeItemTyping ==
    ASSUME TypeOK, queue # <<>>, NEW a \in Attempts, TakeItem(a)
    PROVE  /\ queue' \in Seq(Item)
           /\ Len(queue') <= QueueMaxSize
           /\ gen' \in [Attempts -> GenStates]
           /\ hand' \in [Attempts -> {NoFrame} \cup Frames]
<1>1. /\ queue \in Seq(Item)
      /\ Len(queue) <= QueueMaxSize
  BY DEF TypeOK, Item
<1>2. /\ Head(queue) \in Item
      /\ Tail(queue) \in Seq(Item)
      /\ Len(Tail(queue)) <= QueueMaxSize
  BY <1>1, TailProperties, PublisherAssumption
<1>3. PutNowait(Tail(queue), Sentinel) \in Seq(Item)
      /\ Len(PutNowait(Tail(queue), Sentinel)) <= QueueMaxSize
  BY <1>2, PutNowaitProperties DEF Item
<1>4. QED
  BY <1>2, <1>3 DEF TakeItem, TypeOK, GenStates, Item, Sentinel, NoFrame

LEMMA TypeStep == IInv /\ [Next]_vars => TypeOK'
<1> SUFFICES ASSUME IInv, [Next]_vars
             PROVE  TypeOK'
  OBVIOUS
<1> USE PublisherAssumption DEF IInv, TypeOK,
        LoopStates, GenStates, RpcStates
<1>1. CASE UNCHANGED vars
  BY <1>1 DEF vars, loopVars, streamVars, callerVars, historyVars
<1>2. CASE Connect
  <2>1. queue' \in Seq(Item) /\ Len(queue') <= QueueMaxSize
    BY <1>2, EmptySeq DEF Connect
  <2>2. discarded' \in SUBSET Frames
    BY <1>2, ElementOfSeq DEF Connect, QueuedFrames
  <2>3. gen' \in [Attempts -> GenStates]
    BY <1>2 DEF Connect
  <2>4. loop' \in LoopStates /\ backoff' \in BackoffInitial..BackoffMax
    BY <1>2 DEF Connect
  <2>5. /\ closed' \in BOOLEAN
        /\ stopEvent' \in BOOLEAN
    BY <1>2 DEF Connect
  <2>6. UNCHANGED <<attempt, hand, genStop, rpc, closer, published, sent, lost,
                    dropped, publishedAtClose, sentAtClose>>
    BY <1>2 DEF Connect
  <2>7. QED
    BY <2>1, <2>2, <2>3, <2>4, <2>5, <2>6 DEF Item
<1>3. CASE Publish
  <2>1. published + 1 \in Frames /\ published' \in 0..MaxFrames
    BY <1>3 DEF Publish, Frames
  <2>2. queue' \in Seq(Item) /\ Len(queue') <= QueueMaxSize
    BY <1>3, <2>1, PutNowaitProperties DEF Publish, Item
  <2>3. dropped' \in SUBSET Frames
    BY <1>3, <2>1 DEF Publish
  <2>4. QED
    BY <1>3, <2>1, <2>2, <2>3 DEF Publish, Item, loopVars, streamVars, callerVars
<1>4. CASE Close
  <2>1. queue' \in Seq(Item) /\ Len(queue') <= QueueMaxSize
    BY <1>4, PutNowaitProperties DEF Close, Item
  <2>2. sentAtClose' \in Nat /\ publishedAtClose' \in 0..MaxFrames
    BY <1>4, LenProperties DEF Close
  <2>3. stopEvent' \in BOOLEAN /\ closer' \in {"idle", "waiting", "cancelling"}
    BY <1>4 DEF Close
  <2>4. QED
    BY <1>4, <2>1, <2>2, <2>3 DEF Close, Item, loopVars, streamVars, historyVars
<1>5. CASE CloseTimeout
  <2>1. /\ genStop' \in [Attempts -> BOOLEAN]
        /\ rpc' \in [Attempts -> RpcStates]
        /\ gen' \in [Attempts -> GenStates]
        /\ hand' \in [Attempts -> {NoFrame} \cup Frames]
    BY <1>5 DEF CloseTimeout, streamVars
  <2>2. lost' \in SUBSET Frames
    BY <1>5 DEF CloseTimeout, CallInv
  <2>3. loop' \in LoopStates
    BY <1>5 DEF CloseTimeout
  <2>4. QED
    BY <1>5, <2>1, <2>2, <2>3 DEF CloseTimeout
<1>6. CASE CloseReturn
  BY <1>6 DEF CloseReturn, loopVars, streamVars, historyVars
<1>7. CASE LoopStart
  <2>1. LoopHead /\ backoff' = backoff
    BY <1>7 DEF LoopStart
  <2>2. QED
    BY <2>1, LoopHeadTyping
<1>8. CASE CallReturns
  <2>1. backoff' \in BackoffInitial..BackoffMax
    BY <1>8 DEF CallReturns
  <2>2. genStop' \in [Attempts -> BOOLEAN]
    BY <1>8 DEF CallReturns
  <2>3. QED
    BY <1>8, <2>1, <2>2 DEF CallReturns, callerVars, historyVars
<1>9. CASE ChannelClosed
  BY <1>9 DEF ChannelClosed, streamVars, callerVars, historyVars
<1>10. CASE BackoffStopped
  BY <1>10 DEF BackoffStopped, streamVars, callerVars, historyVars
<1>11. CASE BackoffTimeout
  <2>1. LoopHead /\ backoff' \in BackoffInitial..BackoffMax
    BY <1>11 DEF BackoffTimeout, Minimum
  <2>2. QED
    BY <2>1, LoopHeadTyping
<1>12. ASSUME NEW a \in Attempts, GenResume(a)
       PROVE  TypeOK'
  <2>1. /\ queue' \in Seq(Item) /\ Len(queue') <= QueueMaxSize
        /\ gen' \in [Attempts -> GenStates]
        /\ hand' \in [Attempts -> {NoFrame} \cup Frames]
    BY <1>12, TakeItemTyping DEF GenResume, Item
  <2>2. QED
    BY <1>12, <2>1 DEF GenResume, Item, loopVars, callerVars, historyVars
<1>13. ASSUME NEW a \in Attempts, GenWake(a)
       PROVE  TypeOK'
  <2>1. /\ queue' \in Seq(Item) /\ Len(queue') <= QueueMaxSize
        /\ gen' \in [Attempts -> GenStates]
        /\ hand' \in [Attempts -> {NoFrame} \cup Frames]
    BY <1>13, TakeItemTyping DEF GenWake
  <2>2. QED
    BY <1>13, <2>1 DEF GenWake, Item, loopVars, callerVars, historyVars
<1>14. ASSUME NEW a \in Attempts, GenTimeout(a)
       PROVE  TypeOK'
  BY <1>14 DEF GenTimeout, loopVars, callerVars, historyVars
<1>15. ASSUME NEW a \in Attempts, RpcUp(a)
       PROVE  TypeOK'
  BY <1>15 DEF RpcUp, loopVars, callerVars, historyVars
<1>16. ASSUME NEW a \in Attempts, RpcEnds(a)
       PROVE  TypeOK'
  BY <1>16 DEF RpcEnds, loopVars, callerVars, historyVars
<1>17. ASSUME NEW a \in Attempts, WriteDone(a)
       PROVE  TypeOK'
  BY <1>17 DEF WriteDone, HandInv, loopVars, callerVars
<1>18. ASSUME NEW a \in Attempts, WriteFails(a)
       PROVE  TypeOK'
  BY <1>18 DEF WriteFails, HandInv, loopVars, callerVars
<1>19. QED
  BY <1>1, <1>2, <1>3, <1>4, <1>5, <1>6, <1>7, <1>8, <1>9, <1>10, <1>11, <1>12,
     <1>13, <1>14, <1>15, <1>16, <1>17, <1>18
     DEF Next, Callers, RunStream, Generator, Grpc

LEMMA LoopHeadControl ==
    ASSUME TypeOK, HandInv, CallInv, StopInv, LoopHead, loop # "calling",
           loop \in {"created", "backoff"}
    PROVE  (HandInv /\ CallInv /\ StopInv)'
<1>1. CASE closed
  BY <1>1 DEF LoopHead, TypeOK, HandInv, CallInv, StopInv, Open
<1>2. CASE ~closed
  <2>1. /\ attempt + 1 \in Attempts
        /\ loop' = "calling"
        /\ attempt' = attempt + 1
        /\ gen' = [gen EXCEPT ![attempt + 1] = "ready"]
        /\ rpc' = [rpc EXCEPT ![attempt + 1] = "connecting"]
        /\ UNCHANGED <<hand, genStop>>
    BY <1>2, PublisherAssumption DEF LoopHead, TypeOK, Attempts
  <2>2. \A a \in Attempts : ~Open(a)
    BY DEF CallInv
  <2>3. gen[attempt + 1] = "none"
    BY <2>1 DEF CallInv, TypeOK, Attempts
  <2>4. HandInv'
    BY <2>1, <2>3 DEF HandInv, TypeOK
  <2>5. CallInv'
    BY <2>1, <2>2 DEF CallInv, TypeOK, Open, Attempts
  <2>6. StopInv'
    BY <2>1 DEF StopInv, TypeOK, Attempts
  <2>7. QED
    BY <2>4, <2>5, <2>6
<1>3. QED
  BY <1>1, <1>2

\* The loop, the calls and the generators keep step.
LEMMA ControlStep == IInv /\ [Next]_vars => (HandInv /\ CallInv /\ StopInv)'
<1> SUFFICES ASSUME IInv, [Next]_vars
             PROVE  (HandInv /\ CallInv /\ StopInv)'
  OBVIOUS
<1> USE DEF IInv, TypeOK, HandInv, CallInv, StopInv, Open, Ended, Attempts,
        NoFrame, Sentinel, loopVars, streamVars, callerVars, historyVars
<1>1. CASE UNCHANGED vars
  BY <1>1 DEF vars
<1>2. CASE Connect
  BY <1>2 DEF Connect
<1>3. CASE Publish
  BY <1>3 DEF Publish
<1>4. CASE Close
  BY <1>4 DEF Close
<1>5. CASE CloseTimeout
  BY <1>5 DEF CloseTimeout
<1>6. CASE CloseReturn
  BY <1>6 DEF CloseReturn
<1>7. CASE LoopStart
  BY <1>7, LoopHeadControl DEF LoopStart
<1>8. CASE CallReturns
  BY <1>8 DEF CallReturns
<1>9. CASE ChannelClosed
  BY <1>9 DEF ChannelClosed
<1>10. CASE BackoffStopped
  BY <1>10 DEF BackoffStopped
<1>11. CASE BackoffTimeout
  BY <1>11, LoopHeadControl DEF BackoffTimeout
<1>12. ASSUME NEW a \in Attempts, GenResume(a)
       PROVE  (HandInv /\ CallInv /\ StopInv)'
  BY <1>12 DEF GenResume, TakeItem
<1>13. ASSUME NEW a \in Attempts, GenWake(a)
       PROVE  (HandInv /\ CallInv /\ StopInv)'
  BY <1>13 DEF GenWake, TakeItem
<1>14. ASSUME NEW a \in Attempts, GenTimeout(a)
       PROVE  (HandInv /\ CallInv /\ StopInv)'
  BY <1>14 DEF GenTimeout
<1>15. ASSUME NEW a \in Attempts, RpcUp(a)
       PROVE  (HandInv /\ CallInv /\ StopInv)'
  BY <1>15 DEF RpcUp
<1>16. ASSUME NEW a \in Attempts, RpcEnds(a)
       PROVE  (HandInv /\ CallInv /\ StopInv)'
  BY <1>16 DEF RpcEnds
<1>17. ASSUME NEW a \in Attempts, WriteDone(a)
       PROVE  (HandInv /\ CallInv /\ StopInv)'
  BY <1>17 DEF WriteDone
<1>18. ASSUME NEW a \in Attempts, WriteFails(a)
       PROVE  (HandInv /\ CallInv /\ StopInv)'
  BY <1>18 DEF WriteFails
<1>19. QED
  BY <1>1, <1>2, <1>3, <1>4, <1>5, <1>6, <1>7, <1>8, <1>9, <1>10, <1>11,
     <1>12, <1>13, <1>14, <1>15, <1>16, <1>17, <1>18
     DEF Next, Callers, RunStream, Generator, Grpc

LEMMA TakeItemOrder ==
    ASSUME IInv, queue # <<>>, NEW a \in Attempts, TakeItem(a),
           UNCHANGED <<published, rpc, sent>>
    PROVE  OrderInv'
<1>1. /\ queue \in Seq(Item)
      /\ Len(queue) <= QueueMaxSize
  BY DEF IInv, TypeOK, Item
<1>2. /\ Head(queue) = queue[1]
      /\ Tail(queue) \in Seq(Item)
      /\ Len(queue) \in Nat \ {0}
      /\ Len(Tail(queue)) = Len(queue) - 1
      /\ \A i \in 1..Len(Tail(queue)) :
            i + 1 \in 1..Len(queue) /\ Tail(queue)[i] = queue[i + 1]
  BY <1>1, TailProperties
<1>3. CASE Head(queue) = Sentinel
  <2>1. /\ queue' = PutNowait(Tail(queue), Sentinel)
        /\ UNCHANGED hand
    BY <1>3 DEF TakeItem
  <2>2. Len(Tail(queue)) <= QueueMaxSize /\ Sentinel \in Item
    BY <1>1, <1>2, PublisherAssumption DEF Item
  <2> DEFINE t == Tail(queue)
  <2> HIDE DEF t
  <2>3. t \in Seq(Item) /\ Len(t) <= QueueMaxSize /\ queue' = PutNowait(t, Sentinel)
    BY <1>2, <2>1, <2>2 DEF t
  <2>4. /\ Len(t) \in Nat
        /\ Len(queue') = Len(t) \/ Len(queue') = Len(t) + 1
        /\ \A i \in 1..Len(t) : queue'[i] = t[i]
        /\ Len(queue') = Len(t) + 1 => queue'[Len(t) + 1] = Sentinel
    BY <2>2, <2>3, PutNowaitProperties
  <2>5. \A i \in 1..Len(queue') : queue'[i] # Sentinel =>
            i + 1 \in 1..Len(queue) /\ queue'[i] = queue[i + 1]
    <3>1. \A i \in 1..Len(t) : i + 1 \in 1..Len(queue) /\ t[i] = queue[i + 1]
      BY <1>2 DEF t
    <3>2. ASSUME NEW i \in 1..Len(queue'), queue'[i] # Sentinel
          PROVE  i \in 1..Len(t)
      BY <2>4, <3>2
    <3>3. QED
      BY <2>4, <3>1, <3>2
  <2>6. QueueOrdered'
    BY <1>2, <2>4, <2>5 DEF IInv, OrderInv, QueueOrdered
  <2>7. QueueFresh'
    BY <2>1, <2>5 DEF IInv, OrderInv, QueueFresh, Open
  <2>8. (HandFresh /\ SentFresh /\ SentInOrder)'
    BY <2>1 DEF IInv, OrderInv, HandFresh, SentFresh, SentInOrder, Open
  <2>9. QED
    BY <2>6, <2>7, <2>8 DEF OrderInv
<1>4. CASE Head(queue) # Sentinel
  <2>1. /\ queue' = Tail(queue)
        /\ hand' = [hand EXCEPT ![a] = queue[1]]
    BY <1>2, <1>4 DEF TakeItem
  <2>2. QED
    BY <1>2, <1>4, <2>1
       DEF IInv, TypeOK, OrderInv, QueueOrdered, QueueFresh, HandFresh, SentFresh,
           SentInOrder, Open
<1>5. QED
  BY <1>3, <1>4

LEMMA LoopHeadOrder ==
    ASSUME IInv, LoopHead
    PROVE  OrderInv'
<1>1. UNCHANGED <<queue, published, hand, sent>>
  BY DEF LoopHead, historyVars
<1>2. \A a \in Attempts : Open(a)' /\ hand[a] # NoFrame => Open(a)
  <2>1. CASE UNCHANGED rpc
    BY <2>1 DEF Open
  <2>2. CASE /\ attempt < MaxAttempts
             /\ rpc' = [rpc EXCEPT ![attempt + 1] = "connecting"]
    <3>1. attempt + 1 \in Attempts /\ attempt + 1 > attempt
      BY <2>2, PublisherAssumption DEF IInv, TypeOK, Attempts
    <3>2. hand[attempt + 1] = NoFrame
      BY <3>1 DEF IInv, CallInv, HandInv
    <3>3. QED
      BY <2>2, <3>1, <3>2 DEF IInv, TypeOK, Open
  <2>3. QED
    BY <2>1, <2>2 DEF LoopHead
<1>3. QED
  BY <1>1, <1>2
     DEF IInv, OrderInv, QueueOrdered, QueueFresh, HandFresh, SentFresh, SentInOrder

\* What is queued, held and sent stays in the order of publication.
LEMMA OrderStep == IInv /\ [Next]_vars => OrderInv'
<1> SUFFICES ASSUME IInv, [Next]_vars
             PROVE  OrderInv'
  OBVIOUS
<1> USE PublisherAssumption DEF IInv, loopVars, streamVars, callerVars,
        historyVars
<1>1. CASE UNCHANGED vars
  BY <1>1 DEF vars, OrderInv, QueueOrdered, QueueFresh, HandFresh, SentFresh,
              SentInOrder, Open
<1>2. CASE Connect
  <2>1. /\ Len(queue') = 0
        /\ UNCHANGED <<sent, hand, published, rpc>>
    BY <1>2, EmptySeq DEF Connect
  <2>2. QED
    BY <2>1 DEF OrderInv, QueueOrdered, QueueFresh, HandFresh, SentFresh,
                SentInOrder, Open
<1>3. CASE Publish
  <2>1. /\ queue \in Seq(Item) /\ Len(queue) <= QueueMaxSize
        /\ published + 1 \in Item /\ published \in Nat
        /\ sent \in Seq(Frames) /\ Len(sent) \in Nat
    BY <1>3, LenProperties DEF Publish, TypeOK, Item, Frames
  <2>2. /\ queue' = PutNowait(queue, published + 1)
        /\ published' = published + 1
        /\ UNCHANGED <<sent, hand, rpc>>
    BY <1>3 DEF Publish
  <2>3. /\ Len(queue) \in Nat
        /\ Len(queue') = Len(queue) \/ Len(queue') = Len(queue) + 1
        /\ \A i \in 1..Len(queue) : queue'[i] = queue[i]
        /\ Len(queue') = Len(queue) + 1 => queue'[Len(queue) + 1] = published + 1
    BY <2>1, <2>2, PutNowaitProperties
  <2>4. \A i \in 1..Len(queue') :
            \/ i \in 1..Len(queue) /\ queue'[i] = queue[i]
            \/ i = Len(queue) + 1 /\ queue'[i] = published + 1
    BY <2>3
  <2>5. QueueOrdered'
    <3>1. \A i \in 1..Len(queue) : queue[i] \in Item
      BY <2>1, ElementOfSeq
    <3>2. QED
      BY <2>1, <2>3, <2>4, <3>1 DEF OrderInv, QueueOrdered, QueueFresh, Item, Frames
  <2>6. QueueFresh'
    <3>1. SUFFICES ASSUME NEW i \in 1..Len(queue'), queue'[i] # Sentinel
                   PROVE  /\ queue'[i] <= published'
                          /\ \A k \in 1..Len(sent) : sent[k] < queue'[i]
                          /\ \A a \in Attempts : Open(a) /\ hand[a] # NoFrame
                                => hand[a] < queue'[i]
      BY <2>2 DEF QueueFresh, Open
    <3>2. CASE i \in 1..Len(queue) /\ queue'[i] = queue[i]
      <4>1. queue[i] \in Item
        BY <2>1, <3>2, ElementOfSeq
      <4>2. QED
        BY <2>1, <2>2, <3>1, <3>2, <4>1 DEF OrderInv, QueueFresh, Item, Frames
    <3>3. CASE queue'[i] = published + 1
      <4>1. \A k \in 1..Len(sent) : sent[k] \in Frames
        BY <2>1, ElementOfSeq
      <4>2. QED
        BY <2>1, <2>2, <3>3, <4>1
           DEF OrderInv, SentFresh, HandFresh, TypeOK, Frames, NoFrame
    <3>4. QED
      BY <2>4, <3>2, <3>3
  <2>7. (HandFresh /\ SentFresh)'
    <3>1. \A k \in 1..Len(sent) : sent[k] \in Frames
      BY <2>1, ElementOfSeq
    <3>2. QED
      BY <2>1, <2>2, <3>1
         DEF OrderInv, HandFresh, SentFresh, Open, TypeOK, Frames, NoFrame
  <2>8. SentInOrder'
    BY <2>2 DEF OrderInv, SentInOrder
  <2>9. QED
    BY <2>5, <2>6, <2>7, <2>8 DEF OrderInv
<1>4. CASE Close
  <2>1. UNCHANGED <<published, sent, hand, rpc>>
    BY <1>4 DEF Close
  <2>2. /\ queue \in Seq(Item) /\ Len(queue) <= QueueMaxSize
        /\ Sentinel \in Item
    BY DEF TypeOK, Item
  <2>3. Len(queue) \in Nat
    BY <2>2, LenProperties
  <2>4. \A i \in 1..Len(queue') :
            queue'[i] # Sentinel => i \in 1..Len(queue) /\ queue'[i] = queue[i]
    <3>1. CASE queue' = queue
      BY <3>1
    <3>2. CASE queue' = PutNowait(queue, Sentinel)
      <4>1. /\ Len(queue') = Len(queue) \/ Len(queue') = Len(queue) + 1
            /\ \A i \in 1..Len(queue) : queue'[i] = queue[i]
            /\ Len(queue') = Len(queue) + 1 => queue'[Len(queue) + 1] = Sentinel
        BY <2>2, <3>2, PutNowaitProperties
      <4>2. QED
        BY <2>3, <4>1
    <3>3. QED
      BY <1>4, <3>1, <3>2 DEF Close
  <2>5. Len(queue') \in Nat
    BY <1>4, <2>2, <2>3, PutNowaitProperties DEF Close
  <2>6. QueueOrdered' /\ QueueFresh'
    BY <2>1, <2>4, <2>5 DEF OrderInv, QueueOrdered, QueueFresh, Open
  <2>7. QED
    BY <2>1, <2>6 DEF OrderInv, HandFresh, SentFresh, SentInOrder, Open
<1>5. CASE CloseTimeout
  <2>1. CASE UNCHANGED <<rpc, hand>>
    BY <1>5, <2>1 DEF CloseTimeout, OrderInv, QueueOrdered, QueueFresh, HandFresh,
                      SentFresh, SentInOrder, Open
  <2>2. CASE /\ attempt \in Attempts
             /\ rpc' = [rpc EXCEPT ![attempt] = "cancelled"]
             /\ hand' = [hand EXCEPT ![attempt] = NoFrame]
    <3>1. UNCHANGED <<queue, published, sent>>
      BY <1>5 DEF CloseTimeout
    <3>2. \A a \in Attempts : hand'[a] = hand[a] \/ hand'[a] = NoFrame
      BY <2>2 DEF TypeOK
    <3>3. \A a \in Attempts : Open(a)' => Open(a) /\ hand'[a] = hand[a]
      BY <2>2 DEF TypeOK, Open
    <3>4. QED
      BY <3>1, <3>2, <3>3 DEF OrderInv, QueueOrdered, QueueFresh, HandFresh,
                              SentFresh, SentInOrder, TypeOK, NoFrame
  <2>3. QED
    BY <1>5, <2>1, <2>2 DEF CloseTimeout, CallInv, streamVars
<1>6. CASE CloseReturn
  BY <1>6 DEF CloseReturn, OrderInv, QueueOrdered, QueueFresh, HandFresh,
              SentFresh, SentInOrder, Open
<1>7. CASE LoopStart
  BY <1>7, LoopHeadOrder DEF LoopStart
<1>8. CASE CallReturns
  BY <1>8 DEF CallReturns, OrderInv, QueueOrdered, QueueFresh, HandFresh,
              SentFresh, SentInOrder, Open
<1>9. CASE ChannelClosed
  BY <1>9 DEF ChannelClosed, OrderInv, QueueOrdered, QueueFresh, HandFresh,
              SentFresh, SentInOrder, Open
<1>10. CASE BackoffStopped
  BY <1>10 DEF BackoffStopped, OrderInv, QueueOrdered, QueueFresh, HandFresh,
              SentFresh, SentInOrder, Open
<1>11. CASE BackoffTimeout
  BY <1>11, LoopHeadOrder DEF BackoffTimeout
<1>12. ASSUME NEW a \in Attempts, GenResume(a)
       PROVE  OrderInv'
  <2>1. CASE UNCHANGED <<queue, hand>>
    BY <1>12, <2>1 DEF GenResume, OrderInv, QueueOrdered, QueueFresh, HandFresh,
                   SentFresh, SentInOrder, Open
  <2>2. CASE queue # <<>> /\ TakeItem(a)
    BY <1>12, <2>2, TakeItemOrder DEF GenResume
  <2>3. QED
    BY <1>12, <2>1, <2>2 DEF GenResume
<1>13. ASSUME NEW a \in Attempts, GenWake(a)
       PROVE  OrderInv'
  BY <1>13, TakeItemOrder DEF GenWake
<1>14. ASSUME NEW a \in Attempts, GenTimeout(a)
       PROVE  OrderInv'
  BY <1>14 DEF GenTimeout, OrderInv, QueueOrdered, QueueFresh, HandFresh,
              SentFresh, SentInOrder, Open, TypeOK
<1>15. ASSUME NEW a \in Attempts, RpcUp(a)
       PROVE  OrderInv'
  BY <1>15 DEF RpcUp, OrderInv, QueueOrdered, QueueFresh, HandFresh,
              SentFresh, SentInOrder, Open, TypeOK
<1>16. ASSUME NEW a \in Attempts, RpcEnds(a)
       PROVE  OrderInv'
  BY <1>16 DEF RpcEnds, OrderInv, QueueOrdered, QueueFresh, HandFresh,
              SentFresh, SentInOrder, Open, TypeOK
<1>17. ASSUME NEW a \in Attempts, WriteDone(a)
       PROVE  OrderInv'
  <2>1. /\ hand[a] \in Frames /\ hand[a] # NoFrame /\ Open(a)
        /\ sent \in Seq(Frames)
    BY <1>17 DEF WriteDone, TypeOK, HandInv, Open, NoFrame
  <2>2. /\ sent' = Append(sent, hand[a])
        /\ hand' = [hand EXCEPT ![a] = NoFrame]
        /\ UNCHANGED <<queue, published, rpc>>
    BY <1>17 DEF WriteDone
  <2>3. /\ Len(sent) \in Nat /\ Len(sent') = Len(sent) + 1
        /\ \A k \in 1..Len(sent) : sent'[k] = sent[k]
        /\ sent'[Len(sent) + 1] = hand[a]
    BY <2>1, <2>2, AppendProperties, LenProperties
  <2>4. \A k \in 1..Len(sent') :
            \/ k \in 1..Len(sent) /\ sent'[k] = sent[k]
            \/ k = Len(sent) + 1 /\ sent'[k] = hand[a]
    BY <2>3
  <2>5. \A b \in Attempts : b # a => ~Open(b)
    BY <2>1 DEF CallInv
  <2>6. SentInOrder'
    BY <2>1, <2>3, <2>4 DEF OrderInv, SentInOrder, HandFresh
  <2>7. QueueFresh'
    BY <2>1, <2>2, <2>4, <2>5 DEF OrderInv, QueueFresh, Open, TypeOK
  <2>8. (HandFresh /\ SentFresh)'
    BY <2>1, <2>2, <2>4, <2>5 DEF OrderInv, HandFresh, SentFresh, Open, TypeOK, NoFrame
  <2>9. QueueOrdered'
    BY <2>2 DEF OrderInv, QueueOrdered
  <2>10. QED
    BY <2>6, <2>7, <2>8, <2>9 DEF OrderInv
<1>18. ASSUME NEW a \in Attempts, WriteFails(a)
       PROVE  OrderInv'
  BY <1>18 DEF WriteFails, OrderInv, QueueOrdered, QueueFresh, HandFresh,
               SentFresh, SentInOrder, Open, TypeOK, NoFrame
<1>19. QED
  BY <1>1, <1>2, <1>3, <1>4, <1>5, <1>6, <1>7, <1>8, <1>9, <1>10, <1>11,
     <1>12, <1>13, <1>14, <1>15, <1>16, <1>17, <1>18
     DEF Next, Callers, RunStream, Generator, Grpc

LEMMA TakeItemClosed ==
    ASSUME IInv, queue # <<>>, NEW a \in Attempts, TakeItem(a), UNCHANGED closed
    PROVE  NoStraySentinel'
<1>1. CASE closed
  BY <1>1 DEF NoStraySentinel
<1>2. CASE ~closed
  <2>1. queue \in Seq(Item) /\ Len(queue) \in Nat \ {0}
    BY TailProperties DEF IInv, TypeOK, Item
  <2>2. \A i \in 1..Len(queue) : queue[i] # Sentinel
    BY <1>2 DEF IInv, NoStraySentinel
  <2>3. Head(queue) # Sentinel
    BY <2>1, <2>2, TailProperties
  <2>4. queue' = Tail(queue)
    BY <2>3 DEF TakeItem
  <2>5. \A i \in 1..Len(queue') : queue'[i] # Sentinel
    BY <2>1, <2>2, <2>4, TailProperties
  <2>6. QED
    BY <2>5 DEF NoStraySentinel
<1>3. QED
  BY <1>1, <1>2

\* A sentinel is only ever put into the queue of a closed publisher.
LEMMA SentinelStep == IInv /\ [Next]_vars => NoStraySentinel'
<1> SUFFICES ASSUME IInv, [Next]_vars
             PROVE  NoStraySentinel'
  OBVIOUS
<1> USE PublisherAssumption DEF IInv, loopVars, streamVars, callerVars,
        historyVars
<1>1. CASE UNCHANGED vars
  BY <1>1 DEF vars, NoStraySentinel
<1>2. CASE Connect
  <2>1. Len(queue') = 0
    BY <1>2, EmptySeq DEF Connect
  <2>2. QED
    BY <2>1 DEF NoStraySentinel
<1>3. CASE Publish
  <2>1. /\ queue \in Seq(Item) /\ Len(queue) <= QueueMaxSize
        /\ published + 1 \in Item /\ published + 1 # Sentinel
    BY <1>3 DEF Publish, TypeOK, Item, Frames, Sentinel
  <2>2. /\ queue' = PutNowait(queue, published + 1)
        /\ UNCHANGED closed
    BY <1>3 DEF Publish
  <2>3. /\ Len(queue) \in Nat
        /\ Len(queue') = Len(queue) \/ Len(queue') = Len(queue) + 1
        /\ \A i \in 1..Len(queue) : queue'[i] = queue[i]
        /\ Len(queue') = Len(queue) + 1 => queue'[Len(queue) + 1] = published + 1
    BY <2>1, <2>2, PutNowaitProperties
  <2>4. QED
    BY <2>1, <2>2, <2>3 DEF NoStraySentinel
<1>4. CASE Close
  BY <1>4 DEF Close, NoStraySentinel
<1>5. CASE CloseTimeout
  BY <1>5 DEF CloseTimeout, NoStraySentinel
<1>6. CASE CloseReturn
  BY <1>6 DEF CloseReturn, NoStraySentinel
<1>7. CASE LoopStart
  BY <1>7 DEF LoopStart, LoopHead, NoStraySentinel
<1>8. CASE CallReturns
  BY <1>8 DEF CallReturns, NoStraySentinel
<1>9. CASE ChannelClosed
  BY <1>9 DEF ChannelClosed, NoStraySentinel
<1>10. CASE BackoffStopped
  BY <1>10 DEF BackoffStopped, NoStraySentinel
<1>11. CASE BackoffTimeout
  BY <1>11 DEF BackoffTimeout, LoopHead, NoStraySentinel
<1>12. ASSUME NEW a \in Attempts, GenResume(a)
       PROVE  NoStraySentinel'
  <2>1. CASE UNCHANGED queue
    BY <1>12, <2>1 DEF GenResume, NoStraySentinel
  <2>2. CASE queue # <<>> /\ TakeItem(a)
    BY <1>12, <2>2, TakeItemClosed DEF GenResume
  <2>3. QED
    BY <1>12, <2>1, <2>2 DEF GenResume
<1>13. ASSUME NEW a \in Attempts, GenWake(a)
       PROVE  NoStraySentinel'
  BY <1>13, TakeItemClosed DEF GenWake
<1>14. ASSUME NEW a \in Attempts, GenTimeout(a)
       PROVE  NoStraySentinel'
  BY <1>14 DEF GenTimeout, NoStraySentinel
<1>15. ASSUME NEW a \in Attempts, RpcUp(a)
       PROVE  NoStraySentinel'
  BY <1>15 DEF RpcUp, NoStraySentinel
<1>16. ASSUME NEW a \in Attempts, RpcEnds(a)
       PROVE  NoStraySentinel'
  BY <1>16 DEF RpcEnds, NoStraySentinel
<1>17. ASSUME NEW a \in Attempts, WriteDone(a)
       PROVE  NoStraySentinel'
  BY <1>17 DEF WriteDone, NoStraySentinel
<1>18. ASSUME NEW a \in Attempts, WriteFails(a)
       PROVE  NoStraySentinel'
  BY <1>18 DEF WriteFails, NoStraySentinel
<1>19. QED
  BY <1>1, <1>2, <1>3, <1>4, <1>5, <1>6, <1>7, <1>8, <1>9, <1>10, <1>11,
     <1>12, <1>13, <1>14, <1>15, <1>16, <1>17, <1>18
     DEF Next, Callers, RunStream, Generator, Grpc

\* After close() an open call writes at most one more frame.
LEMMA ClosedStep == IInv /\ [Next]_vars => ClosedInv'
<1> SUFFICES ASSUME IInv, [Next]_vars
             PROVE  ClosedInv'
  OBVIOUS
<1> USE DEF IInv, loopVars, streamVars, callerVars, historyVars
<1>1. CASE UNCHANGED vars
  BY <1>1 DEF vars, ClosedInv, Open
<1>2. CASE Connect
  BY <1>2 DEF Connect, ClosedInv, Open
<1>3. CASE Publish
  BY <1>3 DEF Publish, ClosedInv, Open
<1>4. CASE Close
  <2>1. Len(sent) \in Nat /\ UNCHANGED <<sent, gen, rpc>>
    BY <1>4, LenProperties DEF Close, TypeOK
  <2>2. closed => UNCHANGED sentAtClose
    BY <1>4 DEF Close
  <2>3. ~closed => sentAtClose' = Len(sent)
    BY <1>4 DEF Close
  <2>4. QED
    BY <2>1, <2>2, <2>3 DEF ClosedInv, Open
<1>5. CASE CloseTimeout
  BY <1>5 DEF CloseTimeout, ClosedInv, Open, TypeOK, CallInv
<1>6. CASE CloseReturn
  BY <1>6 DEF CloseReturn, ClosedInv, Open
<1>7. CASE LoopStart
  <2>1. LoopHead
    BY <1>7 DEF LoopStart
  <2>2. CASE closed
    BY <2>1, <2>2 DEF LoopHead, ClosedInv, Open
  <2>3. CASE ~closed
    BY <2>1, <2>3 DEF LoopHead, ClosedInv
  <2>4. QED
    BY <2>2, <2>3
<1>8. CASE CallReturns
  BY <1>8 DEF CallReturns, ClosedInv, Open
<1>9. CASE ChannelClosed
  BY <1>9 DEF ChannelClosed, ClosedInv, Open
<1>10. CASE BackoffStopped
  BY <1>10 DEF BackoffStopped, ClosedInv, Open
<1>11. CASE BackoffTimeout
  <2>1. LoopHead
    BY <1>11 DEF BackoffTimeout
  <2>2. CASE closed
    BY <2>1, <2>2 DEF LoopHead, ClosedInv, Open
  <2>3. CASE ~closed
    BY <2>1, <2>3 DEF LoopHead, ClosedInv
  <2>4. QED
    BY <2>2, <2>3
<1>12. ASSUME NEW a \in Attempts, GenResume(a)
       PROVE  ClosedInv'
  <2>1. CASE closed
    BY <1>12, <2>1 DEF GenResume, ClosedInv, Open, TypeOK
  <2>2. CASE ~closed
    BY <1>12, <2>2 DEF GenResume, ClosedInv
  <2>3. QED
    BY <2>1, <2>2
<1>13. ASSUME NEW a \in Attempts, GenWake(a)
       PROVE  ClosedInv'
  BY <1>13 DEF GenWake, TakeItem, ClosedInv, Open, TypeOK
<1>14. ASSUME NEW a \in Attempts, GenTimeout(a)
       PROVE  ClosedInv'
  BY <1>14 DEF GenTimeout, ClosedInv, Open, TypeOK
<1>15. ASSUME NEW a \in Attempts, RpcUp(a)
       PROVE  ClosedInv'
  BY <1>15 DEF RpcUp, ClosedInv, Open, TypeOK
<1>16. ASSUME NEW a \in Attempts, RpcEnds(a)
       PROVE  ClosedInv'
  BY <1>16 DEF RpcEnds, ClosedInv, Open, TypeOK
<1>17. ASSUME NEW a \in Attempts, WriteDone(a)
       PROVE  ClosedInv'
  <2>1. Len(sent') = Len(sent) + 1 /\ Len(sent) \in Nat
    BY <1>17, AppendProperties, LenProperties DEF WriteDone, TypeOK, HandInv
  <2>2. /\ gen' = [gen EXCEPT ![a] = "ready"]
        /\ UNCHANGED <<closed, sentAtClose, rpc>>
    BY <1>17 DEF WriteDone
  <2>3. closed => Len(sent) <= sentAtClose
    BY <1>17 DEF WriteDone, ClosedInv, Open
  <2>4. \A b \in Attempts : b # a => ~Open(b)
    BY <1>17 DEF WriteDone, CallInv, Open
  <2>5. QED
    BY <2>1, <2>2, <2>3, <2>4 DEF ClosedInv, Open, TypeOK
<1>18. ASSUME NEW a \in Attempts, WriteFails(a)
       PROVE  ClosedInv'
  BY <1>18 DEF WriteFails, ClosedInv, Open, TypeOK
<1>19. QED
  BY <1>1, <1>2, <1>3, <1>4, <1>5, <1>6, <1>7, <1>8, <1>9, <1>10, <1>11,
     <1>12, <1>13, <1>14, <1>15, <1>16, <1>17, <1>18
     DEF Next, Callers, RunStream, Generator, Grpc

-----------------------------------------------------------------------------
(***************************************************************************)
(* The theorems.                                                           *)
(***************************************************************************)

LEMMA Invariance == Spec => []IInv
<1>1. IInv /\ [Next]_vars => IInv'
  BY TypeStep, ControlStep, OrderStep, SentinelStep, ClosedStep DEF IInv
<1>2. QED
  BY InitIInv, <1>1, PTL DEF Spec

\* The variables keep their types and the queue its bound.
THEOREM TypeCorrect == Spec => []TypeOK
<1>1. IInv => TypeOK
  BY DEF IInv
<1>2. QED
  BY Invariance, <1>1, PTL

\* Frames reach the platform in the order of publication and at most once,
\* whatever the number of reconnections and stale generators.
THEOREM Ordered == Spec => []SentInOrder
<1>1. IInv => SentInOrder
  BY DEF IInv, OrderInv
<1>2. QED
  BY Invariance, <1>1, PTL

\* A connection never meets the sentinel of an earlier one.
THEOREM SentinelConfined == Spec => []NoStraySentinel
<1>1. IInv => NoStraySentinel
  BY DEF IInv
<1>2. QED
  BY Invariance, <1>1, PTL

\* At most one frame is sent after close() has set _closed.
THEOREM ClosePrompt == Spec => []AtMostOneSentAfterClose
<1>1. IInv => AtMostOneSentAfterClose
  BY DEF IInv, ClosedInv, AtMostOneSentAfterClose
<1>2. QED
  BY Invariance, <1>1, PTL

\* No call is open but the one the loop awaits, and no generator of an earlier
\* attempt is without its stop signal.
THEOREM CallsEnd == Spec => []NothingLeftRunning
<1>1. IInv => NothingLeftRunning
  BY DEF IInv, CallInv, StopInv, NothingLeftRunning
<1>2. QED
  BY Invariance, <1>1, PTL

\* Whoever ends the task has closed the publisher before.
EndInv ==
    /\ ReconnectsUntilClosed
    /\ stopEvent => closed
    /\ closer # "idle" => closed

LEMMA EndStep == EndInv /\ [Next]_vars => EndInv'
<1> SUFFICES ASSUME EndInv, [Next]_vars
             PROVE  EndInv'
  OBVIOUS
<1> USE DEF EndInv, ReconnectsUntilClosed, callerVars, loopVars
<1>1. CASE UNCHANGED vars
  BY <1>1 DEF vars
<1>2. CASE Connect
  BY <1>2 DEF Connect
<1>3. CASE Publish
  BY <1>3 DEF Publish
<1>4. CASE Close
  BY <1>4 DEF Close
<1>5. CASE CloseTimeout
  BY <1>5 DEF CloseTimeout
<1>6. CASE CloseReturn
  BY <1>6 DEF CloseReturn
<1>7. CASE LoopStart \/ BackoffTimeout
  BY <1>7 DEF LoopStart, BackoffTimeout, LoopHead
<1>8. CASE CallReturns \/ ChannelClosed \/ BackoffStopped
  BY <1>8 DEF CallReturns, ChannelClosed, BackoffStopped
<1>9. ASSUME NEW a \in Attempts, Generator(a) \/ Grpc(a)
      PROVE  UNCHANGED <<loop, closed, stopEvent, closer>>
  BY <1>9 DEF Generator, Grpc, GenResume, GenWake, GenTimeout, RpcUp, RpcEnds, WriteDone, WriteFails
<1>10. QED
  BY <1>1, <1>2, <1>3, <1>4, <1>5, <1>6, <1>7, <1>8, <1>9 DEF Next, Callers, RunStream

\* The reconnect loop of an open publisher never ends, however many calls fail.
THEOREM AlwaysReconnects == Spec => []ReconnectsUntilClosed
<1>1. Init => EndInv
  BY DEF Init, EndInv, ReconnectsUntilClosed
<1>2. EndInv => ReconnectsUntilClosed
  BY DEF EndInv
<1>3. QED
  BY <1>1, <1>2, EndStep, PTL DEF Spec

-----------------------------------------------------------------------------
(***************************************************************************)
(* Publisher implements LossyFifo.                                         *)
(***************************************************************************)

Pending == QueuedFrames \cup InFlight

LEMMA SubsetIsLose ==
    ASSUME QueuedFrames' \subseteq Pending, InFlight' \subseteq Pending,
           UNCHANGED <<published, sent>>
    PROVE  Fifo!Lose
BY DEF Fifo!Lose, Pending

\* What get() takes from the queue is in the hand of an open call, or lost.
LEMMA TakeItemPending ==
    ASSUME IInv, queue # <<>>, NEW a \in Attempts, TakeItem(a), UNCHANGED rpc
    PROVE  QueuedFrames' \subseteq Pending /\ InFlight' \subseteq Pending
<1>1. /\ queue \in Seq(Item)
      /\ Len(queue) <= QueueMaxSize
  BY DEF IInv, TypeOK, Item
<1>2. /\ Head(queue) = queue[1]
      /\ Tail(queue) \in Seq(Item)
      /\ Len(queue) \in Nat \ {0}
      /\ Len(Tail(queue)) = Len(queue) - 1
      /\ \A i \in 1..Len(Tail(queue)) :
            i + 1 \in 1..Len(queue) /\ Tail(queue)[i] = queue[i + 1]
  BY <1>1, TailProperties
<1>3. CASE Head(queue) = Sentinel
  <2>1. InFlight' = InFlight
    BY <1>3 DEF TakeItem, InFlight, Open
  <2> DEFINE t == Tail(queue)
  <2> HIDE DEF t
  <2>2. t \in Seq(Item) /\ Len(t) <= QueueMaxSize /\ Sentinel \in Item
    BY <1>1, <1>2, PublisherAssumption DEF t, Item
  <2>3. queue' = PutNowait(t, Sentinel)
    BY <1>3 DEF TakeItem, t
  <2>4. /\ Len(t) \in Nat
        /\ Len(queue') = Len(t) \/ Len(queue') = Len(t) + 1
        /\ \A i \in 1..Len(t) : queue'[i] = t[i]
        /\ Len(queue') = Len(t) + 1 => queue'[Len(t) + 1] = Sentinel
    BY <2>2, <2>3, PutNowaitProperties
  <2>5. \A i \in 1..Len(t) : i + 1 \in 1..Len(queue) /\ t[i] = queue[i + 1]
    BY <1>2 DEF t
  <2>6. \A i \in 1..Len(queue') :
            queue'[i] = Sentinel \/ \E j \in 1..Len(queue) : queue'[i] = queue[j]
    <3>1. \A i \in 1..Len(queue') : i \in 1..Len(t) \/ queue'[i] = Sentinel
      BY <2>4
    <3>2. QED
      BY <2>4, <2>5, <3>1
  <2>7. QED
    BY <2>1, <2>6 DEF QueuedFrames, Pending
<1>4. CASE Head(queue) # Sentinel
  <2>1. /\ queue' = Tail(queue)
        /\ hand' = [hand EXCEPT ![a] = queue[1]]
        /\ 1 \in 1..Len(queue)
    BY <1>2, <1>4 DEF TakeItem
  <2>2. queue[1] \in QueuedFrames
    BY <1>2, <1>4, <2>1 DEF QueuedFrames
  <2>3. InFlight' \subseteq InFlight \cup {queue[1]}
    BY <2>1 DEF InFlight, Open, IInv, TypeOK
  <2>4. QueuedFrames' \subseteq QueuedFrames
    BY <1>2, <2>1 DEF QueuedFrames
  <2>5. QED
    BY <2>2, <2>3, <2>4 DEF Pending
<1>5. QED
  BY <1>3, <1>4

\* An attempt starts with an empty hand.
LEMMA LoopHeadPending ==
    ASSUME IInv, LoopHead
    PROVE  QueuedFrames' = QueuedFrames /\ InFlight' \subseteq InFlight
<1>1. UNCHANGED <<queue, hand>>
  BY DEF LoopHead
<1>2. \A a \in Attempts : Open(a)' /\ hand[a] # NoFrame => Open(a)
  <2>1. CASE UNCHANGED rpc
    BY <2>1 DEF Open
  <2>2. CASE /\ attempt < MaxAttempts
             /\ rpc' = [rpc EXCEPT ![attempt + 1] = "connecting"]
    <3>1. attempt + 1 \in Attempts /\ attempt + 1 > attempt
      BY <2>2, PublisherAssumption DEF IInv, TypeOK, Attempts
    <3>2. hand[attempt + 1] = NoFrame
      BY <3>1 DEF IInv, CallInv, HandInv
    <3>3. QED
      BY <2>2, <3>1, <3>2 DEF IInv, TypeOK, Open
  <2>3. QED
    BY <2>1, <2>2 DEF LoopHead
<1>3. QED
  BY <1>1, <1>2 DEF QueuedFrames, InFlight

\* Every step of the code is a step of the lossy FIFO, or leaves it alone.
LEMMA StepSimulation == IInv /\ [Next]_vars => [Fifo!Next]_(Fifo!vars)
<1> SUFFICES ASSUME IInv, [Next]_vars
             PROVE  [Fifo!Next]_(Fifo!vars)
  OBVIOUS
<1> USE PublisherAssumption DEF IInv, loopVars, streamVars, callerVars,
        historyVars
<1>1. CASE UNCHANGED vars
  BY <1>1 DEF vars, QueuedFrames, InFlight, Open, Fifo!vars
<1>2. CASE Connect
  <2>1. Len(queue') = 0 /\ UNCHANGED <<hand, rpc, published, sent>>
    BY <1>2, EmptySeq DEF Connect
  <2>2. QueuedFrames' = {} /\ InFlight' = InFlight
    BY <2>1 DEF QueuedFrames, InFlight, Open
  <2>3. QED
    BY <2>1, <2>2, SubsetIsLose DEF Pending, Fifo!Next
<1>3. CASE Publish
  <2>1. /\ queue \in Seq(Item) /\ Len(queue) <= QueueMaxSize
        /\ published + 1 \in Item /\ published + 1 # Sentinel
    BY <1>3 DEF Publish, TypeOK, Item, Frames, Sentinel
  <2>2. /\ queue' = PutNowait(queue, published + 1)
        /\ published' = published + 1 /\ published < MaxFrames
        /\ UNCHANGED <<hand, rpc, sent>>
    BY <1>3 DEF Publish
  <2>3. /\ Len(queue) \in Nat
        /\ Len(queue') = Len(queue) \/ Len(queue') = Len(queue) + 1
        /\ \A i \in 1..Len(queue) : queue'[i] = queue[i]
        /\ Len(queue') = Len(queue) + 1 => queue'[Len(queue) + 1] = published + 1
    BY <2>1, <2>2, PutNowaitProperties
  <2>4. CASE Len(queue') = Len(queue)
    <3>1. QueuedFrames' = QueuedFrames
      BY <2>3, <2>4 DEF QueuedFrames
    <3>2. QED
      BY <2>2, <3>1 DEF Fifo!Next, Fifo!Offer, InFlight, Open
  <2>5. CASE Len(queue') = Len(queue) + 1
    <3>1. \A i \in 1..Len(queue') : i \in 1..Len(queue) \/ i = Len(queue) + 1
      BY <2>3, <2>5
    <3>2. \A i \in 1..Len(queue) : i \in 1..Len(queue')
      BY <2>3, <2>5
    <3>3. Len(queue) + 1 \in 1..Len(queue')
      BY <2>3, <2>5
    <3>4. QueuedFrames' = QueuedFrames \cup {published + 1}
      BY <2>1, <2>3, <2>5, <3>1, <3>2, <3>3 DEF QueuedFrames
    <3>5. QED
      BY <2>2, <3>4 DEF Fifo!Next, Fifo!Offer, InFlight, Open
  <2>6. QED
    BY <2>3, <2>4, <2>5
<1>4. CASE Close
  <2>1. UNCHANGED <<published, sent, hand, rpc>>
    BY <1>4 DEF Close
  <2>2. /\ queue \in Seq(Item) /\ Len(queue) <= QueueMaxSize
        /\ Sentinel \in Item
    BY DEF TypeOK, Item
  <2>3. QueuedFrames' \subseteq QueuedFrames
    <3>1. CASE queue' = queue
      BY <3>1 DEF QueuedFrames
    <3>2. CASE queue' = PutNowait(queue, Sentinel)
      <4>1. /\ Len(queue) \in Nat
            /\ Len(queue') = Len(queue) \/ Len(queue') = Len(queue) + 1
            /\ \A i \in 1..Len(queue) : queue'[i] = queue[i]
            /\ Len(queue') = Len(queue) + 1 => queue'[Len(queue) + 1] = Sentinel
        BY <2>2, <3>2, PutNowaitProperties
      <4>2. \A i \in 1..Len(queue') : queue'[i] # Sentinel => i \in 1..Len(queue)
        BY <4>1
      <4>3. QED
        BY <4>1, <4>2 DEF QueuedFrames
    <3>3. QED
      BY <1>4, <3>1, <3>2 DEF Close
  <2>4. InFlight' = InFlight
    BY <2>1 DEF InFlight, Open
  <2>5. QED
    BY <2>1, <2>3, <2>4, SubsetIsLose DEF Pending, Fifo!Next
<1>5. CASE CloseTimeout
  <2>1. UNCHANGED <<queue, published, sent>>
    BY <1>5 DEF CloseTimeout
  <2>2. InFlight' \subseteq InFlight
    BY <1>5 DEF CloseTimeout, InFlight, Open, CallInv, TypeOK, streamVars
  <2>3. QueuedFrames' = QueuedFrames
    BY <2>1 DEF QueuedFrames
  <2>4. QED
    BY <2>1, <2>2, <2>3, SubsetIsLose DEF Pending, Fifo!Next
<1>6. CASE CloseReturn
  BY <1>6 DEF CloseReturn, QueuedFrames, InFlight, Open, Fifo!vars
<1>7. CASE LoopStart
  <2>1. LoopHead /\ UNCHANGED <<published, sent>>
    BY <1>7 DEF LoopStart, LoopHead
  <2>2. QED
    BY <2>1, LoopHeadPending, SubsetIsLose DEF Pending, Fifo!Next
<1>8. CASE CallReturns
  BY <1>8 DEF CallReturns, QueuedFrames, InFlight, Open, Fifo!vars
<1>9. CASE ChannelClosed
  BY <1>9 DEF ChannelClosed, QueuedFrames, InFlight, Open, Fifo!vars
<1>10. CASE BackoffStopped
  BY <1>10 DEF BackoffStopped, QueuedFrames, InFlight, Open, Fifo!vars
<1>11. CASE BackoffTimeout
  <2>1. LoopHead /\ UNCHANGED <<published, sent>>
    BY <1>11 DEF BackoffTimeout, LoopHead
  <2>2. QED
    BY <2>1, LoopHeadPending, SubsetIsLose DEF Pending, Fifo!Next
<1>12. ASSUME NEW a \in Attempts, GenResume(a)
       PROVE  [Fifo!Next]_(Fifo!vars)
  <2>1. UNCHANGED <<rpc, published, sent>>
    BY <1>12 DEF GenResume
  <2>2. CASE UNCHANGED <<queue, hand>>
    BY <2>1, <2>2 DEF QueuedFrames, InFlight, Open, Fifo!vars
  <2>3. CASE queue # <<>> /\ TakeItem(a)
    BY <2>1, <2>3, TakeItemPending, SubsetIsLose DEF Fifo!Next
  <2>4. QED
    BY <1>12, <2>2, <2>3 DEF GenResume
<1>13. ASSUME NEW a \in Attempts, GenWake(a)
       PROVE  [Fifo!Next]_(Fifo!vars)
  <2>1. queue # <<>> /\ TakeItem(a) /\ UNCHANGED <<rpc, published, sent>>
    BY <1>13 DEF GenWake
  <2>2. QED
    BY <2>1, TakeItemPending, SubsetIsLose DEF Fifo!Next
<1>14. ASSUME NEW a \in Attempts, GenTimeout(a)
       PROVE  [Fifo!Next]_(Fifo!vars)
  BY <1>14 DEF GenTimeout, QueuedFrames, InFlight, Open, Fifo!vars
<1>15. ASSUME NEW a \in Attempts, RpcUp(a)
       PROVE  [Fifo!Next]_(Fifo!vars)
  <2>1. UNCHANGED <<queue, published, sent>>
    BY <1>15 DEF RpcUp
  <2>2. InFlight' \subseteq InFlight
    BY <1>15 DEF RpcUp, InFlight, Open, TypeOK
  <2>3. QueuedFrames' = QueuedFrames
    BY <2>1 DEF QueuedFrames
  <2>4. QED
    BY <2>1, <2>2, <2>3, SubsetIsLose DEF Pending, Fifo!Next
<1>16. ASSUME NEW a \in Attempts, RpcEnds(a)
       PROVE  [Fifo!Next]_(Fifo!vars)
  <2>1. UNCHANGED <<queue, published, sent>>
    BY <1>16 DEF RpcEnds
  <2>2. InFlight' \subseteq InFlight
    BY <1>16 DEF RpcEnds, InFlight, Open, TypeOK
  <2>3. QueuedFrames' = QueuedFrames
    BY <2>1 DEF QueuedFrames
  <2>4. QED
    BY <2>1, <2>2, <2>3, SubsetIsLose DEF Pending, Fifo!Next
<1>17. ASSUME NEW a \in Attempts, WriteDone(a)
       PROVE  [Fifo!Next]_(Fifo!vars)
  <2>1. hand[a] \in Frames /\ hand[a] # NoFrame /\ Open(a)
    BY <1>17 DEF WriteDone, TypeOK, HandInv, Open, NoFrame
  <2>2. /\ sent' = Append(sent, hand[a])
        /\ hand' = [hand EXCEPT ![a] = NoFrame]
        /\ UNCHANGED <<queue, published, rpc>>
    BY <1>17 DEF WriteDone
  <2>3. \A b \in Attempts : Open(b) => b = a
    BY <2>1 DEF CallInv
  <2>4. InFlight = {hand[a]} /\ InFlight' = {}
    BY <2>1, <2>2, <2>3 DEF InFlight, Open, TypeOK
  <2>5. \A g \in QueuedFrames : hand[a] < g
    BY <2>1 DEF OrderInv, QueueFresh, QueuedFrames
  <2>6. /\ QueuedFrames' = QueuedFrames
        /\ \A g \in QueuedFrames : g \in Int
        /\ hand[a] \in Int
    BY <2>1, <2>2, ElementOfSeq DEF QueuedFrames, TypeOK, Frames
  <2>7. /\ hand[a] \notin QueuedFrames
        /\ \A g \in QueuedFrames \cup InFlight : hand[a] <= g
    BY <2>4, <2>5, <2>6
  <2>8. /\ hand[a] \in QueuedFrames \cup InFlight
        /\ (QueuedFrames \cup InFlight)' = (QueuedFrames \cup InFlight) \ {hand[a]}
    BY <2>4, <2>6, <2>7
  <2>9. QED
    BY <2>2, <2>7, <2>8 DEF Fifo!Next, Fifo!Deliver
<1>18. ASSUME NEW a \in Attempts, WriteFails(a)
       PROVE  [Fifo!Next]_(Fifo!vars)
  <2>1. UNCHANGED <<queue, published, sent>>
    BY <1>18 DEF WriteFails
  <2>2. InFlight' \subseteq InFlight
    BY <1>18 DEF WriteFails, InFlight, Open, TypeOK, Ended
  <2>3. QueuedFrames' = QueuedFrames
    BY <2>1 DEF QueuedFrames
  <2>4. QED
    BY <2>1, <2>2, <2>3, SubsetIsLose DEF Pending, Fifo!Next
<1>19. QED
  BY <1>1, <1>2, <1>3, <1>4, <1>5, <1>6, <1>7, <1>8, <1>9, <1>10, <1>11,
     <1>12, <1>13, <1>14, <1>15, <1>16, <1>17, <1>18
     DEF Next, Callers, RunStream, Generator, Grpc

\* The publisher is a FIFO that loses but neither reorders nor repeats.
THEOREM Implementation == Spec => ImplementsLossyFifo
<1>1. Init => Fifo!Init
  BY EmptySeq DEF Init, Fifo!Init, QueuedFrames, InFlight, Open
<1>2. IInv /\ [Next]_vars => [Fifo!Next]_(Fifo!vars)
  BY StepSimulation
<1>3. QED
  BY Invariance, <1>1, <1>2, PTL DEF Spec, ImplementsLossyFifo, Fifo!Spec

=============================================================================
