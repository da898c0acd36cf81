------------------------- MODULE PublisherAccounting -------------------------
(***************************************************************************)
(* Where the frames of a Publisher are: every published frame is in one    *)
(* place, and each call that fails costs one frame at most, for every      *)
(* queue size and every number of frames and attempts.                     *)
(***************************************************************************)
EXTENDS PublisherProofs, FiniteSetTheorems

\* The six sets hold the frames up to p, each in one of them.
Partition(p, Q, H, S, L, D, C) ==
    /\ Q \cup H \cup S \cup L \cup D \cup C = 1..p
    /\ Q \cap (H \cup S \cup L \cup D \cup C) = {}
    /\ H \cap (S \cup L \cup D \cup C) = {}
    /\ S \cap (L \cup D \cup C) = {}
    /\ L \cap (D \cup C) = {}
    /\ D \cap C = {}

\* No two generators hold the same frame.
HandsDiffer ==
    \A a, b \in Attempts : a # b /\ hand[a] # NoFrame => hand[a] # hand[b]

PlacesInv ==
    /\ Partition(published, QueuedFrames, HeldFrames, SentFrames, lost, dropped, discarded)
    /\ HandsDiffer

LEMMA PlacesAccount == PlacesInv <=> Accounted
<1> DEFINE places == <<QueuedFrames, HeldFrames, SentFrames, lost, dropped, discarded>>
<1>1. /\ places[1] = QueuedFrames /\ places[2] = HeldFrames /\ places[3] = SentFrames
      /\ places[4] = lost /\ places[5] = dropped /\ places[6] = discarded
  OBVIOUS
<1>2. \A i \in 1..6 : i = 1 \/ i = 2 \/ i = 3 \/ i = 4 \/ i = 5 \/ i = 6
  OBVIOUS
<1>3. Accounted <=> /\ UNION {places[i] : i \in 1..6} = 1..published
                    /\ \A i, j \in 1..6 : i # j => places[i] \cap places[j] = {}
                    /\ HandsDiffer
  BY DEF Accounted, HandsDiffer
<1> HIDE DEF places
<1>4. UNION {places[i] : i \in 1..6}
        = QueuedFrames \cup HeldFrames \cup SentFrames \cup lost \cup dropped \cup discarded
  <2>1. \A i \in 1..6 : places[i] \subseteq QueuedFrames \cup HeldFrames \cup SentFrames \cup lost
                                              \cup dropped \cup discarded
    BY <1>1, <1>2
  <2>2. \A i \in {1, 2, 3, 4, 5, 6} : i \in 1..6 /\ places[i] \subseteq UNION {places[k] : k \in 1..6}
    OBVIOUS
  <2>3. /\ QueuedFrames \subseteq UNION {places[i] : i \in 1..6}
        /\ HeldFrames \subseteq UNION {places[i] : i \in 1..6}
        /\ SentFrames \subseteq UNION {places[i] : i \in 1..6}
        /\ lost \subseteq UNION {places[i] : i \in 1..6}
        /\ dropped \subseteq UNION {places[i] : i \in 1..6}
        /\ discarded \subseteq UNION {places[i] : i \in 1..6}
    BY <1>1, <2>2
  <2>4. UNION {places[i] : i \in 1..6} \subseteq QueuedFrames \cup HeldFrames \cup SentFrames
                                              \cup lost \cup dropped \cup discarded
    BY <2>1
  <2> QED BY <2>3, <2>4
<1>5. (\A i, j \in 1..6 : i # j => places[i] \cap places[j] = {})
        <=> /\ QueuedFrames \cap (HeldFrames \cup SentFrames \cup lost \cup dropped \cup discarded) = {}
            /\ HeldFrames \cap (SentFrames \cup lost \cup dropped \cup discarded) = {}
            /\ SentFrames \cap (lost \cup dropped \cup discarded) = {}
            /\ lost \cap (dropped \cup discarded) = {}
            /\ dropped \cap discarded = {}
  <2>1. ASSUME \A i, j \in 1..6 : i # j => places[i] \cap places[j] = {}
        PROVE  \A i, j \in {1, 2, 3, 4, 5, 6} : i # j => places[i] \cap places[j] = {}
    BY <2>1
  <2>2. ASSUME \A i, j \in {1, 2, 3, 4, 5, 6} : i # j => places[i] \cap places[j] = {}
        PROVE  \A i, j \in 1..6 : i # j => places[i] \cap places[j] = {}
    BY <2>2, <1>2
  <2>3. (\A i, j \in {1, 2, 3, 4, 5, 6} : i # j => places[i] \cap places[j] = {})
          <=> /\ places[1] \cap places[2] = {} /\ places[1] \cap places[3] = {}
              /\ places[1] \cap places[4] = {} /\ places[1] \cap places[5] = {}
              /\ places[1] \cap places[6] = {} /\ places[2] \cap places[3] = {}
              /\ places[2] \cap places[4] = {} /\ places[2] \cap places[5] = {}
              /\ places[2] \cap places[6] = {} /\ places[3] \cap places[4] = {}
              /\ places[3] \cap places[5] = {} /\ places[3] \cap places[6] = {}
              /\ places[4] \cap places[5] = {} /\ places[4] \cap places[6] = {}
              /\ places[5] \cap places[6] = {}
    <3>1. \A i, j : places[i] \cap places[j] = places[j] \cap places[i]
      OBVIOUS
    <3> QED BY <3>1
  <2> QED BY <1>1, <2>1, <2>2, <2>3
<1> QED BY <1>3, <1>4, <1>5 DEF PlacesInv, Partition

-----------------------------------------------------------------------------
(***************************************************************************)
(* What the queue operations do to the frames in the queue.                *)
(***************************************************************************)

FramesIn(q) == {q[i] : i \in 1..Len(q)} \ {Sentinel}

LEMMA PutSentinelFrames ==
    ASSUME NEW q \in Seq(Item), Len(q) <= QueueMaxSize
    PROVE  FramesIn(PutNowait(q, Sentinel)) = FramesIn(q)
<1> DEFINE p == PutNowait(q, Sentinel)
<1> HIDE DEF p
<1>1. /\ Len(q) \in Nat
      /\ Len(p) = Len(q) \/ Len(p) = Len(q) + 1
      /\ \A i \in 1..Len(q) : p[i] = q[i]
      /\ Len(p) = Len(q) + 1 => p[Len(q) + 1] = Sentinel
  BY PutNowaitProperties DEF p, Item
<1>2. \A i \in 1..Len(p) : p[i] # Sentinel => i \in 1..Len(q) /\ p[i] = q[i]
  BY <1>1
<1>3. \A i \in 1..Len(q) : i \in 1..Len(p) /\ p[i] = q[i]
  BY <1>1
<1>4. FramesIn(p) = FramesIn(q)
  BY <1>2, <1>3 DEF FramesIn
<1> QED BY <1>4 DEF p

LEMMA PutFrameFrames ==
    ASSUME NEW q \in Seq(Item), Len(q) < QueueMaxSize, NEW x \in Frames
    PROVE  FramesIn(PutNowait(q, x)) = FramesIn(q) \cup {x}
<1> DEFINE p == Append(q, x)
<1> HIDE DEF p
<1>1. /\ Len(q) \in Nat
      /\ Len(p) = Len(q) + 1
      /\ \A i \in 1..Len(q) : p[i] = q[i]
      /\ p[Len(q) + 1] = x
  BY AppendProperties, LenProperties DEF p, Item
<1>2. \A i \in 1..Len(p) : i \in 1..Len(q) \/ i = Len(q) + 1
  BY <1>1
<1>3. (\A i \in 1..Len(q) : i \in 1..Len(p)) /\ Len(q) + 1 \in 1..Len(p)
  BY <1>1
<1>4. x # Sentinel
  BY PublisherAssumption DEF Frames, Sentinel
<1>5. FramesIn(p) = FramesIn(q) \cup {x}
  BY <1>1, <1>2, <1>3, <1>4 DEF FramesIn
<1> QED BY <1>5 DEF p, PutNowait

LEMMA TailFrames ==
    ASSUME NEW q \in Seq(Item), q # <<>>,
           \A i, j \in 1..Len(q) : i < j /\ q[i] # Sentinel /\ q[j] # Sentinel => q[i] < q[j]
    PROVE  /\ Head(q) = Sentinel => FramesIn(Tail(q)) = FramesIn(q)
           /\ Head(q) # Sentinel => /\ Head(q) \in FramesIn(q)
                                    /\ FramesIn(Tail(q)) = FramesIn(q) \ {Head(q)}
<1> DEFINE t == Tail(q)
<1> HIDE DEF t
<1>1. /\ Head(q) = q[1]
      /\ Len(q) \in Nat \ {0}
      /\ Len(t) = Len(q) - 1
      /\ \A i \in 1..Len(t) : i + 1 \in 1..Len(q) /\ t[i] = q[i + 1]
  BY TailProperties DEF t
<1>2. \A i \in 1..Len(q) : i = 1 \/ (i - 1 \in 1..Len(t) /\ t[i - 1] = q[i])
  <2>1. \A i \in 1..Len(q) : i # 1 => i - 1 \in 1..Len(t) /\ (i - 1) + 1 = i
    BY <1>1
  <2> QED BY <1>1, <2>1
<1>3. FramesIn(q) = (FramesIn(t) \cup {q[1]}) \ {Sentinel}
  <2>1. FramesIn(q) \subseteq FramesIn(t) \cup {q[1]}
    BY <1>2 DEF FramesIn
  <2>2. FramesIn(t) \subseteq FramesIn(q)
    BY <1>1 DEF FramesIn
  <2>3. 1 \in 1..Len(q) /\ Sentinel \notin FramesIn(q) /\ Sentinel \notin FramesIn(t)
    BY <1>1 DEF FramesIn
  <2>4. q[1] # Sentinel => q[1] \in FramesIn(q)
    BY <2>3 DEF FramesIn
  <2> QED BY <2>1, <2>2, <2>3, <2>4
<1>4. ASSUME q[1] # Sentinel PROVE q[1] \notin FramesIn(t)
  <2>1. \A i \in 1..Len(t) : t[i] # Sentinel => q[1] < t[i]
    <3>1. \A i \in 1..Len(t) : i + 1 \in 1..Len(q) /\ 1 < i + 1 /\ t[i] = q[i + 1]
      BY <1>1
    <3>2. 1 \in 1..Len(q)
      BY <1>1
    <3> QED BY <1>4, <3>1, <3>2
  <2>2. \A i \in 1..Len(q) : q[i] \in Int
    BY ElementOfSeq, PublisherAssumption DEF Item, Frames, Sentinel
  <2>3. \A i \in 1..Len(t) : t[i] # Sentinel => t[i] # q[1]
    <3>1. 1 \in 1..Len(q) /\ q[1] \in Int
      BY <1>1, <2>2
    <3> QED BY <2>1, <3>1
  <2> QED BY <2>3 DEF FramesIn
<1>5. Sentinel \notin FramesIn(t)
  BY DEF FramesIn
<1>6. CASE Head(q) = Sentinel
  BY <1>1, <1>3, <1>5, <1>6 DEF t
<1>7. CASE Head(q) # Sentinel
  BY <1>1, <1>3, <1>4, <1>5, <1>7 DEF t
<1> QED BY <1>6, <1>7

-----------------------------------------------------------------------------
(***************************************************************************)
(* What a step may do to the places of the frames.                         *)
(***************************************************************************)

\* Every frame stays where it is.
Rests ==
    /\ UNCHANGED <<published, hand, lost, dropped, discarded>>
    /\ QueuedFrames' = QueuedFrames
    /\ SentFrames' = SentFrames

\* A new frame goes into the queue, or is dropped.
Publishes ==
    /\ published \in Nat
    /\ published' = published + 1
    /\ UNCHANGED <<hand, lost, discarded>>
    /\ SentFrames' = SentFrames
    /\ \/ QueuedFrames' = QueuedFrames \cup {published + 1} /\ dropped' = dropped
       \/ QueuedFrames' = QueuedFrames /\ dropped' = dropped \cup {published + 1}

\* The frames of the queue are discarded.
Forgets ==
    /\ UNCHANGED <<published, hand, lost, dropped>>
    /\ SentFrames' = SentFrames
    /\ QueuedFrames' = {}
    /\ discarded' = discarded \cup QueuedFrames

\* A frame of the queue goes into the empty hand of the generator of a.
Takes(a, f) ==
    /\ UNCHANGED <<published, lost, dropped, discarded>>
    /\ SentFrames' = SentFrames
    /\ hand[a] = NoFrame
    /\ f \in QueuedFrames
    /\ QueuedFrames' = QueuedFrames \ {f}
    /\ hand' = [hand EXCEPT ![a] = f]

\* The frame in the hand of a is sent, or lost.
LetsGo(a) ==
    /\ UNCHANGED <<published, dropped, discarded>>
    /\ QueuedFrames' = QueuedFrames
    /\ hand[a] # NoFrame
    /\ hand' = [hand EXCEPT ![a] = NoFrame]
    /\ \/ SentFrames' = SentFrames \cup {hand[a]} /\ lost' = lost
       \/ SentFrames' = SentFrames /\ lost' = lost \cup {hand[a]}

Moves ==
    \/ Rests \/ Publishes \/ Forgets
    \/ \E a \in Attempts : LetsGo(a) \/ \E f \in QueuedFrames : Takes(a, f)

LEMMA MovesKeepPlaces ==
    ASSUME TypeOK, PlacesInv, Moves
    PROVE  PlacesInv'
<1> DEFINE Q == QueuedFrames
           H == HeldFrames
           S == SentFrames
<1>1. hand \in [Attempts -> {NoFrame} \cup Frames] /\ published \in Nat
  BY PublisherAssumption DEF TypeOK
<1>2. Partition(published, Q, H, S, lost, dropped, discarded) /\ HandsDiffer
  BY DEF PlacesInv
<1>3. CASE Rests
  <2>1. HeldFrames' = HeldFrames /\ HandsDiffer'
    BY <1>2, <1>3 DEF Rests, HeldFrames, HandsDiffer
  <2> QED BY <1>2, <1>3, <2>1 DEF Rests, PlacesInv, Partition
<1>4. CASE Publishes
  <2>1. HeldFrames' = HeldFrames /\ HandsDiffer'
    BY <1>2, <1>4 DEF Publishes, HeldFrames, HandsDiffer
  <2>2. 1..(published + 1) = (1..published) \cup {published + 1} /\ published + 1 \notin 1..published
    BY <1>1
  <2> DEFINE n == published + 1
  <2>3. \/ QueuedFrames' = Q \cup {n} /\ dropped' = dropped
        \/ QueuedFrames' = Q /\ dropped' = dropped \cup {n}
    BY <1>4 DEF Publishes
  <2>4. /\ published' = n /\ lost' = lost /\ discarded' = discarded /\ SentFrames' = S
        /\ HeldFrames' = H
    BY <1>4, <2>1 DEF Publishes
  <2>5. 1..n = (1..published) \cup {n} /\ n \notin 1..published
    BY <2>2
  <2> HIDE DEF n, Q, H, S
  <2>6. Partition(n, QueuedFrames', H, S, lost, dropped', discarded)
    BY <1>2, <2>3, <2>5 DEF Partition
  <2> QED BY <2>1, <2>4, <2>6 DEF PlacesInv
<1>5. CASE Forgets
  <2>1. HeldFrames' = HeldFrames /\ HandsDiffer'
    BY <1>2, <1>5 DEF Forgets, HeldFrames, HandsDiffer
  <2> QED BY <1>2, <1>5, <2>1 DEF Forgets, PlacesInv, Partition
<1>6. ASSUME NEW a \in Attempts, NEW f \in QueuedFrames, Takes(a, f)
      PROVE  PlacesInv'
  <2>1. /\ hand[a] = NoFrame /\ hand' = [hand EXCEPT ![a] = f]
        /\ f # NoFrame
    BY <1>6 DEF Takes, QueuedFrames, NoFrame, Sentinel
  <2>2. HeldFrames' = H \cup {f}
    BY <1>1, <2>1 DEF HeldFrames
  <2>3. f \notin H
    BY <1>2 DEF Partition
  <2>4. HandsDiffer'
    <3>1. \A b \in Attempts : hand[b] # f
      BY <2>1, <2>3 DEF HeldFrames
    <3> QED BY <1>1, <1>2, <2>1, <3>1 DEF HandsDiffer
  <2>5. /\ published' = published /\ lost' = lost /\ dropped' = dropped
        /\ discarded' = discarded /\ SentFrames' = S /\ QueuedFrames' = Q \ {f} /\ f \in Q
    BY <1>6 DEF Takes
  <2> HIDE DEF Q, H, S
  <2>6. Partition(published, Q \ {f}, H \cup {f}, S, lost, dropped, discarded)
    BY <1>2, <2>5 DEF Partition
  <2> QED BY <2>2, <2>4, <2>5, <2>6 DEF PlacesInv
<1>7. ASSUME NEW a \in Attempts, LetsGo(a)
      PROVE  PlacesInv'
  <2> DEFINE h == hand[a]
  <2>1. h # NoFrame /\ hand' = [hand EXCEPT ![a] = NoFrame]
    BY <1>7 DEF LetsGo
  <2>2. \A b \in Attempts : b # a => hand[b] # h
    BY <1>2, <2>1 DEF HandsDiffer
  <2>3. h \in H /\ HeldFrames' = H \ {h}
    BY <1>1, <2>1, <2>2 DEF HeldFrames
  <2>4. HandsDiffer'
    BY <1>1, <1>2, <2>1 DEF HandsDiffer
  <2>5. /\ published' = published /\ dropped' = dropped
        /\ discarded' = discarded /\ QueuedFrames' = Q
        /\ \/ SentFrames' = S \cup {h} /\ lost' = lost
           \/ SentFrames' = S /\ lost' = lost \cup {h}
    BY <1>7 DEF LetsGo
  <2> HIDE DEF Q, H, S, h
  <2>6. Partition(published, Q, H \ {h}, SentFrames', lost', dropped, discarded)
    BY <1>2, <2>3, <2>5 DEF Partition
  <2> QED BY <2>3, <2>4, <2>5, <2>6 DEF PlacesInv
<1> QED BY <1>3, <1>4, <1>5, <1>6, <1>7 DEF Moves

LEMMA TakeItemMoves ==
    ASSUME IInv, queue # <<>>, NEW a \in Attempts, hand[a] = NoFrame, TakeItem(a),
           UNCHANGED <<published, sent, lost, dropped, discarded>>
    PROVE  Moves
<1>1. /\ queue \in Seq(Item) /\ Len(queue) <= QueueMaxSize
      /\ QueueOrdered
      /\ QueuedFrames = FramesIn(queue) /\ QueuedFrames' = FramesIn(queue')
      /\ SentFrames' = SentFrames
  BY DEF IInv, TypeOK, OrderInv, Item, QueuedFrames, FramesIn, SentFrames
<1>2. /\ Head(queue) = Sentinel => FramesIn(Tail(queue)) = FramesIn(queue)
      /\ Head(queue) # Sentinel => /\ Head(queue) \in FramesIn(queue)
                                   /\ FramesIn(Tail(queue)) = FramesIn(queue) \ {Head(queue)}
  BY <1>1, TailFrames DEF QueueOrdered
<1>3. CASE Head(queue) = Sentinel
  <2>1. queue' = PutNowait(Tail(queue), Sentinel) /\ hand' = hand
    BY <1>3 DEF TakeItem
  <2>2. Tail(queue) \in Seq(Item) /\ Len(Tail(queue)) <= QueueMaxSize
    BY <1>1, TailProperties, PublisherAssumption
  <2>3. FramesIn(queue') = FramesIn(queue)
    BY <1>2, <1>3, <2>1, <2>2, PutSentinelFrames
  <2> QED BY <1>1, <2>1, <2>3 DEF Moves, Rests
<1>4. CASE Head(queue) # Sentinel
  <2>1. queue' = Tail(queue) /\ hand' = [hand EXCEPT ![a] = Head(queue)]
    BY <1>4 DEF TakeItem
  <2>2. Takes(a, Head(queue)) /\ Head(queue) \in QueuedFrames
    BY <1>1, <1>2, <1>4, <2>1 DEF Takes
  <2> QED BY <2>2 DEF Moves
<1> QED BY <1>3, <1>4

LEMMA StepMoves == IInv /\ [Next]_vars => Moves
<1> SUFFICES ASSUME IInv, [Next]_vars
             PROVE  Moves
  OBVIOUS
<1> USE DEF loopVars, streamVars, callerVars, historyVars
<1> DEFINE still == UNCHANGED <<published, hand, lost, dropped, discarded, queue, sent>>
<1>0. still => Moves
  BY DEF Moves, Rests, QueuedFrames, SentFrames
<1> HIDE DEF still
<1>t. /\ queue \in Seq(Item) /\ Len(queue) <= QueueMaxSize /\ Len(queue) \in Nat
      /\ published \in 0..MaxFrames
  BY LenProperties DEF IInv, TypeOK, Item
<1>f. QueuedFrames = FramesIn(queue) /\ QueuedFrames' = FramesIn(queue')
  BY DEF QueuedFrames, FramesIn
<1>1. CASE UNCHANGED vars
  BY <1>0, <1>1 DEF vars, still
<1>2. CASE Connect
  <2>1. queue' = <<>> /\ Len(queue') = 0
    BY <1>2, EmptySeq DEF Connect
  <2>2. QueuedFrames' = {}
    BY <2>1 DEF QueuedFrames
  <2>3. SentFrames' = SentFrames
    BY <1>2 DEF Connect, SentFrames
  <2>4. Forgets
    BY <1>2, <2>2, <2>3 DEF Connect, Forgets
  <2> QED BY <2>4 DEF Moves
<1>3. CASE Publish
  <2>1. /\ published + 1 \in Frames /\ published \in Nat
        /\ published' = published + 1 /\ queue' = PutNowait(queue, published + 1)
        /\ UNCHANGED <<hand, sent, lost, discarded>>
        /\ dropped' = IF Len(queue) < QueueMaxSize THEN dropped ELSE dropped \cup {published + 1}
    BY <1>3, <1>t, PublisherAssumption DEF Publish, Frames
  <2>2. SentFrames' = SentFrames
    BY <2>1 DEF SentFrames
  <2>3. \/ QueuedFrames' = QueuedFrames \cup {published + 1} /\ dropped' = dropped
        \/ QueuedFrames' = QueuedFrames /\ dropped' = dropped \cup {published + 1}
    <3>1. CASE Len(queue) < QueueMaxSize
      <4>1. FramesIn(PutNowait(queue, published + 1)) = FramesIn(queue) \cup {published + 1}
        BY <1>t, <2>1, <3>1, PutFrameFrames
      <4> QED BY <1>f, <2>1, <3>1, <4>1
    <3>2. CASE ~(Len(queue) < QueueMaxSize)
      BY <1>f, <2>1, <3>2 DEF PutNowait
    <3> QED BY <3>1, <3>2
  <2>4. Publishes
    BY <2>1, <2>2, <2>3 DEF Publishes
  <2> QED BY <2>4 DEF Moves
<1>4. CASE Close
  <2>1. UNCHANGED <<published, hand, lost, dropped, discarded, sent>>
    BY <1>4 DEF Close
  <2>2. queue' = queue \/ queue' = PutNowait(queue, Sentinel)
    BY <1>4 DEF Close
  <2>3. QueuedFrames' = QueuedFrames
    BY <1>t, <1>f, <2>2, PutSentinelFrames
  <2>4. SentFrames' = SentFrames
    BY <2>1 DEF SentFrames
  <2> QED BY <2>1, <2>3, <2>4 DEF Moves, Rests
<1>5. CASE CloseTimeout
  <2>1. UNCHANGED <<queue, published, sent, dropped, discarded>>
    BY <1>5 DEF CloseTimeout
  <2>2. CASE UNCHANGED <<hand, lost>>
    BY <1>0, <2>1, <2>2 DEF still
  <2>3. CASE /\ loop = "calling"
             /\ hand' = [hand EXCEPT ![attempt] = NoFrame]
             /\ lost' = lost \cup ({hand[attempt]} \ {NoFrame})
    <3>1. attempt \in Attempts /\ hand \in [Attempts -> {NoFrame} \cup Frames]
      BY <2>3 DEF IInv, CallInv, TypeOK
    <3>2. CASE hand[attempt] = NoFrame
      <4>1. hand' = hand /\ lost' = lost
        BY <2>3, <3>1, <3>2
      <4> QED BY <1>0, <2>1, <4>1 DEF still
    <3>3. CASE hand[attempt] # NoFrame
      <4>1. LetsGo(attempt)
        BY <2>1, <2>3, <3>3 DEF LetsGo, QueuedFrames, SentFrames
      <4> QED BY <3>1, <4>1 DEF Moves
    <3> QED BY <3>2, <3>3
  <2> QED BY <1>5, <2>2, <2>3 DEF CloseTimeout
<1>6. CASE CloseReturn
  BY <1>0, <1>6 DEF CloseReturn, still
<1>7. CASE LoopStart
  BY <1>0, <1>7 DEF LoopStart, LoopHead, still
<1>8. CASE CallReturns
  BY <1>0, <1>8 DEF CallReturns, still
<1>9. CASE ChannelClosed
  BY <1>0, <1>9 DEF ChannelClosed, still
<1>10. CASE BackoffStopped
  BY <1>0, <1>10 DEF BackoffStopped, still
<1>11. CASE BackoffTimeout
  BY <1>0, <1>11 DEF BackoffTimeout, LoopHead, still
<1>12. ASSUME NEW a \in Attempts, GenResume(a)
       PROVE  Moves
  <2>1. UNCHANGED <<published, sent, lost, dropped, discarded>> /\ hand[a] = NoFrame
    BY <1>12 DEF GenResume, IInv, HandInv
  <2>2. CASE UNCHANGED <<queue, hand>>
    BY <1>0, <2>1, <2>2 DEF still
  <2>3. CASE queue # <<>> /\ TakeItem(a)
    BY <2>1, <2>3, TakeItemMoves
  <2> QED BY <1>12, <2>2, <2>3 DEF GenResume
<1>13. ASSUME NEW a \in Attempts, GenWake(a)
       PROVE  Moves
  <2>1. UNCHANGED <<published, sent, lost, dropped, discarded>> /\ hand[a] = NoFrame
        /\ queue # <<>> /\ TakeItem(a)
    BY <1>13 DEF GenWake, IInv, HandInv
  <2> QED BY <2>1, TakeItemMoves
<1>14. ASSUME NEW a \in Attempts, GenTimeout(a)
       PROVE  Moves
  BY <1>0, <1>14 DEF GenTimeout, still
<1>15. ASSUME NEW a \in Attempts, RpcUp(a)
       PROVE  Moves
  BY <1>0, <1>15 DEF RpcUp, still
<1>16. ASSUME NEW a \in Attempts, RpcEnds(a)
       PROVE  Moves
  BY <1>0, <1>16 DEF RpcEnds, still
<1>17. ASSUME NEW a \in Attempts, WriteDone(a)
       PROVE  Moves
  <2>1. /\ sent' = Append(sent, hand[a]) /\ hand[a] # NoFrame /\ hand[a] \in Frames
        /\ hand' = [hand EXCEPT ![a] = NoFrame]
        /\ UNCHANGED <<queue, published, lost, dropped, discarded>>
    BY <1>17 DEF WriteDone, IInv, HandInv, TypeOK
  <2>2. /\ Len(sent) \in Nat /\ Len(sent') = Len(sent) + 1
        /\ \A i \in 1..Len(sent) : sent'[i] = sent[i]
        /\ sent'[Len(sent) + 1] = hand[a]
    BY <2>1, AppendProperties, LenProperties DEF IInv, TypeOK
  <2>3. /\ \A i \in 1..Len(sent') : i \in 1..Len(sent) \/ i = Len(sent) + 1
        /\ \A i \in 1..Len(sent) : i \in 1..Len(sent')
        /\ Len(sent) + 1 \in 1..Len(sent')
    BY <2>2
  <2>4. SentFrames' = SentFrames \cup {hand[a]}
    BY <2>2, <2>3 DEF SentFrames
  <2>5. LetsGo(a)
    BY <2>1, <2>4 DEF LetsGo, QueuedFrames
  <2> QED BY <2>5 DEF Moves
<1>18. ASSUME NEW a \in Attempts, WriteFails(a)
       PROVE  Moves
  <2>1. LetsGo(a)
    BY <1>18 DEF WriteFails, LetsGo, IInv, HandInv, QueuedFrames, SentFrames
  <2> QED BY <2>1 DEF Moves
<1> QED
  BY <1>1, <1>2, <1>3, <1>4, <1>5, <1>6, <1>7, <1>8, <1>9, <1>10, <1>11,
     <1>12, <1>13, <1>14, <1>15, <1>16, <1>17, <1>18
     DEF Next, Callers, RunStream, Generator, Grpc

LEMMA InitPlaces == Init => PlacesInv
<1> SUFFICES ASSUME Init PROVE PlacesInv
  OBVIOUS
<1>1. QueuedFrames = {} /\ SentFrames = {} /\ HeldFrames = {} /\ HandsDiffer
  BY EmptySeq DEF Init, QueuedFrames, SentFrames, HeldFrames, HandsDiffer
<1>2. published = 0 /\ lost = {} /\ dropped = {} /\ discarded = {} /\ 1..0 = {}
  BY DEF Init
<1> QED BY <1>1, <1>2 DEF PlacesInv, Partition

LEMMA PlacesInvariance == Spec => []PlacesInv
<1>1. IInv /\ PlacesInv /\ [Next]_vars => PlacesInv'
  BY StepMoves, MovesKeepPlaces DEF IInv
<1> QED BY InitPlaces, Invariance, <1>1, PTL DEF Spec

\* No frame disappears or is in two places, whatever the size of the queue and
\* the number of reconnections, generators left behind and calls of close().
THEOREM EveryFrameAccounted == Spec => []Accounted
<1> QED BY PlacesInvariance, PlacesAccount, PTL

LEMMA MovesGoForward ==
    ASSUME TypeOK, Moves, NEW f \in 1..published
    PROVE  /\ f \in QueuedFrames' => f \in QueuedFrames
           /\ f \in HeldFrames' => f \in QueuedFrames \cup HeldFrames
           /\ f \in SentFrames' => f \in HeldFrames \cup SentFrames
<1>1. hand \in [Attempts -> {NoFrame} \cup Frames] /\ published \in Nat
  BY PublisherAssumption DEF TypeOK
<1>2. CASE Rests
  BY <1>2 DEF Rests, HeldFrames
<1>3. CASE Publishes
  <2>1. f # published + 1
    BY <1>1
  <2> QED BY <1>3, <2>1 DEF Publishes, HeldFrames
<1>4. CASE Forgets
  BY <1>4 DEF Forgets, HeldFrames
<1>5. ASSUME NEW a \in Attempts, NEW x \in QueuedFrames, Takes(a, x)
      PROVE  HeldFrames' \subseteq HeldFrames \cup {x}
  BY <1>1, <1>5 DEF Takes, HeldFrames
<1>6. ASSUME NEW a \in Attempts, LetsGo(a)
      PROVE  HeldFrames' \subseteq HeldFrames /\ hand[a] \in HeldFrames
  BY <1>1, <1>6 DEF LetsGo, HeldFrames
<1>7. CASE \E a \in Attempts : \E x \in QueuedFrames : Takes(a, x)
  BY <1>5, <1>7 DEF Takes
<1>8. CASE \E a \in Attempts : LetsGo(a)
  BY <1>6, <1>8 DEF LetsGo
<1> QED BY <1>2, <1>3, <1>4, <1>7, <1>8 DEF Moves

\* A frame that has left the queue never returns to it, whatever becomes of the call that
\* had it in hand.
THEOREM FramesOnlyAdvance == Spec => NeverPutBack
<1> DEFINE Forward(f) == /\ f \in QueuedFrames' => f \in QueuedFrames
                         /\ f \in HeldFrames' => f \in QueuedFrames \cup HeldFrames
                         /\ f \in SentFrames' => f \in HeldFrames \cup SentFrames
<1>1. IInv /\ [Next]_vars => [\A f \in 1..published : Forward(f)]_vars
  BY StepMoves, MovesGoForward DEF IInv
<1> QED BY Invariance, <1>1, PTL DEF Spec, NeverPutBack

-----------------------------------------------------------------------------
(***************************************************************************)
(* What a failed call costs.                                               *)
(***************************************************************************)

\* The attempts whose call has ended and whose generator is done with it.
Spent == {a \in Attempts : Ended(a) /\ gen[a] = "done"}

\* An attempt has a generator only once it has a call.
CallStarted == \A a \in Attempts : gen[a] # "none" => rpc[a] # "none"

\* Each spent attempt has lost one frame at most.
SpentInv ==
    /\ CallStarted
    /\ Cardinality(lost) <= Cardinality(Spent)

\* An attempt that is spent stays spent, and a frame is lost only when another
\* becomes so.
LEMMA SpentGrows ==
    ASSUME IInv, CallStarted, [Next]_vars
    PROVE  /\ CallStarted'
           /\ Spent \subseteq Spent'
           /\ \/ lost' = lost
              \/ \E a \in Spent' \ Spent : \E f \in Frames : lost' = lost \cup {f}
<1> DEFINE Goal == /\ CallStarted'
                   /\ Spent \subseteq Spent'
                   /\ \/ lost' = lost
                      \/ \E a \in Spent' \ Spent : \E f \in Frames : lost' = lost \cup {f}
<1> SUFFICES Goal
  OBVIOUS
<1> USE DEF loopVars, streamVars, callerVars, historyVars
<1>t. /\ gen \in [Attempts -> GenStates] /\ rpc \in [Attempts -> RpcStates]
      /\ hand \in [Attempts -> {NoFrame} \cup Frames]
      /\ HandInv /\ CallInv /\ attempt \in 0..MaxAttempts
  BY DEF IInv, TypeOK
<1>0. ASSUME UNCHANGED <<gen, rpc, lost>> PROVE Goal
  BY <1>0 DEF CallStarted, Spent, Ended
<1>g. ASSUME UNCHANGED <<rpc, lost>>, NEW a \in Attempts, NEW s, gen' = [gen EXCEPT ![a] = s],
             gen[a] # "none", gen[a] # "done"
      PROVE  Goal
  BY <1>g, <1>t DEF CallStarted, Spent, Ended
<1>r. ASSUME UNCHANGED <<gen, lost>>, NEW a \in Attempts, NEW s, rpc' = [rpc EXCEPT ![a] = s],
             Open(a), s # "none"
      PROVE  Goal
  BY <1>r, <1>t DEF CallStarted, Spent, Ended, Open
<1>l. ASSUME LoopHead, UNCHANGED lost PROVE Goal
  <2>1. CASE UNCHANGED <<gen, rpc>>
    BY <1>0, <1>l, <2>1
  <2>2. CASE /\ attempt < MaxAttempts
             /\ gen' = [gen EXCEPT ![attempt + 1] = "ready"]
             /\ rpc' = [rpc EXCEPT ![attempt + 1] = "connecting"]
    <3> DEFINE n == attempt + 1
    <3>1. n \in Attempts /\ gen[n] = "none"
      BY <1>t, <2>2, PublisherAssumption DEF CallInv, Attempts
    <3>2. gen' = [gen EXCEPT ![n] = "ready"] /\ rpc' = [rpc EXCEPT ![n] = "connecting"]
      BY <2>2
    <3> HIDE DEF n
    <3> QED BY <1>l, <1>t, <3>1, <3>2 DEF CallStarted, Spent, Ended
  <2> QED BY <1>l, <2>1, <2>2 DEF LoopHead
<1> HIDE DEF Goal
<1>1. CASE UNCHANGED vars
  BY <1>0, <1>1 DEF vars
<1>2. CASE Connect
  BY <1>2, <1>t DEF Connect, Goal, CallStarted, Spent, Ended
<1>3. CASE Publish
  BY <1>0, <1>3 DEF Publish
<1>4. CASE Close
  BY <1>0, <1>4 DEF Close
<1>5. CASE CloseTimeout
  <2>1. CASE UNCHANGED <<gen, rpc, lost>>
    BY <1>0, <2>1
  <2>2. CASE /\ loop = "calling" /\ Open(attempt)
             /\ rpc' = [rpc EXCEPT ![attempt] = "cancelled"]
             /\ gen' = [gen EXCEPT ![attempt] = "done"]
             /\ lost' = lost \cup ({hand[attempt]} \ {NoFrame})
    <3>1. attempt \in Attempts /\ hand[attempt] \in {NoFrame} \cup Frames
      BY <1>t, <2>2 DEF CallInv
    <3>2. CallStarted' /\ Spent \subseteq Spent'
      BY <1>t, <2>2, <3>1 DEF CallStarted, Spent, Ended, Open
    <3>3. attempt \in Spent' \ Spent
      BY <1>t, <2>2, <3>1 DEF Spent, Ended, Open
    <3>4. lost' = lost \/ (hand[attempt] \in Frames /\ lost' = lost \cup {hand[attempt]})
      BY <2>2, <3>1
    <3> QED BY <3>2, <3>3, <3>4 DEF Goal
  <2> QED BY <1>5, <2>1, <2>2 DEF CloseTimeout
<1>6. CASE CloseReturn
  BY <1>0, <1>6 DEF CloseReturn
<1>7. CASE LoopStart
  BY <1>l, <1>7 DEF LoopStart, LoopHead
<1>8. CASE CallReturns
  BY <1>0, <1>8 DEF CallReturns
<1>9. CASE ChannelClosed
  BY <1>0, <1>9 DEF ChannelClosed
<1>10. CASE BackoffStopped
  BY <1>0, <1>10 DEF BackoffStopped
<1>11. CASE BackoffTimeout
  BY <1>l, <1>11 DEF BackoffTimeout, LoopHead
<1>12. ASSUME NEW a \in Attempts, GenResume(a)
       PROVE  Goal
  <2>1. UNCHANGED <<rpc, lost>> /\ gen[a] = "ready"
    BY <1>12 DEF GenResume
  <2>2. \/ gen' = [gen EXCEPT ![a] = "done"] \/ gen' = [gen EXCEPT ![a] = "polling"]
        \/ gen' = [gen EXCEPT ![a] = "holding"]
    BY <1>12 DEF GenResume, TakeItem
  <2> QED BY <1>g, <2>1, <2>2
<1>13. ASSUME NEW a \in Attempts, GenWake(a)
       PROVE  Goal
  <2>1. UNCHANGED <<rpc, lost>> /\ gen[a] = "polling"
    BY <1>13 DEF GenWake
  <2>2. gen' = [gen EXCEPT ![a] = "done"] \/ gen' = [gen EXCEPT ![a] = "holding"]
    BY <1>13 DEF GenWake, TakeItem
  <2> QED BY <1>g, <2>1, <2>2
<1>14. ASSUME NEW a \in Attempts, GenTimeout(a)
       PROVE  Goal
  <2>1. UNCHANGED <<rpc, lost>> /\ gen[a] \in {"polling", "orphaned"}
        /\ gen' = [gen EXCEPT ![a] = "done"]
    BY <1>14 DEF GenTimeout
  <2> QED BY <1>g, <2>1
<1>15. ASSUME NEW a \in Attempts, RpcUp(a)
       PROVE  Goal
  BY <1>r, <1>15 DEF RpcUp, Open
<1>16. ASSUME NEW a \in Attempts, RpcEnds(a)
       PROVE  Goal
  <2>1. /\ UNCHANGED <<gen, lost>> /\ Open(a)
        /\ \E s \in {"refused", "clean", "has_errors", "broken"} : rpc' = [rpc EXCEPT ![a] = s]
    BY <1>16 DEF RpcEnds, Open
  <2> QED BY <1>r, <2>1
<1>17. ASSUME NEW a \in Attempts, WriteDone(a)
       PROVE  Goal
  <2>1. UNCHANGED <<rpc, lost>> /\ gen[a] = "holding" /\ gen' = [gen EXCEPT ![a] = "ready"]
    BY <1>17 DEF WriteDone
  <2> QED BY <1>g, <2>1
<1>18. ASSUME NEW a \in Attempts, WriteFails(a)
       PROVE  Goal
  <2>1. /\ gen[a] = "holding" /\ Ended(a) /\ gen' = [gen EXCEPT ![a] = "done"] /\ rpc' = rpc
        /\ lost' = lost \cup {hand[a]} /\ hand[a] \in Frames
    BY <1>18, <1>t DEF WriteFails, HandInv
  <2>2. CallStarted' /\ Spent \subseteq Spent' /\ a \in Spent' \ Spent
    BY <1>t, <2>1 DEF CallStarted, Spent, Ended
  <2> QED BY <2>1, <2>2 DEF Goal
<1> QED
  BY <1>1, <1>2, <1>3, <1>4, <1>5, <1>6, <1>7, <1>8, <1>9, <1>10, <1>11,
     <1>12, <1>13, <1>14, <1>15, <1>16, <1>17, <1>18
     DEF Next, Callers, RunStream, Generator, Grpc

LEMMA FiniteParts ==
    ASSUME TypeOK
    PROVE  IsFiniteSet(Attempts) /\ IsFiniteSet(lost)
<1>1. IsFiniteSet(1..MaxAttempts) /\ IsFiniteSet(1..MaxFrames)
  BY FS_Interval, PublisherAssumption
<1>2. lost \in SUBSET (1..MaxFrames)
  BY DEF TypeOK, Frames
<1> QED BY <1>1, <1>2, FS_Subset DEF Attempts

LEMMA SpentStep ==
    ASSUME IInv, SpentInv, [Next]_vars
    PROVE  SpentInv'
<1>1. /\ CallStarted' /\ Spent \subseteq Spent'
      /\ \/ lost' = lost
         \/ \E a \in Spent' \ Spent : \E f \in Frames : lost' = lost \cup {f}
  BY SpentGrows DEF SpentInv
<1>2. IsFiniteSet(Attempts) /\ IsFiniteSet(lost)
  BY FiniteParts DEF IInv
<1>3. Spent' \in SUBSET Attempts /\ Spent \in SUBSET Attempts
  BY DEF Spent, Attempts
<1>4. IsFiniteSet(Spent') /\ IsFiniteSet(Spent)
  BY <1>2, <1>3, FS_Subset
<1>5. Cardinality(lost) <= Cardinality(Spent)
  BY DEF SpentInv
<1>6. Cardinality(lost) \in Nat /\ Cardinality(Spent) \in Nat /\ Cardinality(Spent') \in Nat
  BY <1>2, <1>4, FS_CardinalityType
<1>7. CASE lost' = lost
  <2>1. Cardinality(Spent) <= Cardinality(Spent')
    BY <1>1, <1>4, FS_Subset
  <2> QED BY <1>1, <1>5, <1>6, <1>7, <2>1 DEF SpentInv
<1>8. ASSUME NEW a \in Spent' \ Spent, NEW f \in Frames, lost' = lost \cup {f}
      PROVE  SpentInv'
  <2>1. Cardinality(Spent \cup {a}) = Cardinality(Spent) + 1
    BY <1>4, <1>8, FS_AddElement
  <2>2. Cardinality(Spent \cup {a}) <= Cardinality(Spent')
    <3>1. Spent \cup {a} \in SUBSET (Spent')
      BY <1>1
    <3> QED BY <1>4, <3>1, FS_Subset
  <2>3. Cardinality(lost') <= Cardinality(lost) + 1
    <3>1. Cardinality(lost \cup {f}) = IF f \in lost THEN Cardinality(lost) ELSE Cardinality(lost) + 1
      BY <1>2, FS_AddElement
    <3> QED BY <1>6, <1>8, <3>1
  <2>4. Cardinality(lost') \in Nat
    BY <1>2, <1>8, FS_AddElement, FS_CardinalityType
  <2>5. Cardinality(lost') <= Cardinality(Spent')
    BY <1>5, <1>6, <2>1, <2>2, <2>3, <2>4
  <2> QED BY <1>1, <2>5 DEF SpentInv
<1> QED BY <1>1, <1>7, <1>8

LEMMA SpentBounds ==
    ASSUME IInv, SpentInv
    PROVE  LossBound
<1> DEFINE K == {a \in Attempts : Ended(a) /\ gen[a] = "holding"}
           E == {a \in Attempts : Ended(a)}
           T == {hand[a] : a \in K}
           stuck == HeldFrames \ InFlight
<1>1. IsFiniteSet(Attempts) /\ IsFiniteSet(lost)
  BY FiniteParts DEF IInv
<1>2. IsFiniteSet(E) /\ IsFiniteSet(K) /\ IsFiniteSet(Spent)
  <2>1. E \in SUBSET Attempts /\ K \in SUBSET Attempts /\ Spent \in SUBSET Attempts
    BY DEF Spent
  <2> HIDE DEF E, K
  <2> QED BY <1>1, <2>1, FS_Subset
<1>3. Cardinality(K) + Cardinality(Spent) <= Cardinality(E)
  <2>1. K \cap Spent = {} /\ K \cup Spent \in SUBSET E
    BY DEF Spent
  <2> HIDE DEF E, K
  <2>2. Cardinality(K \cup Spent) = Cardinality(K) + Cardinality(Spent) - Cardinality(K \cap Spent)
    BY <1>2, FS_Union
  <2>3. Cardinality(K \cup Spent) <= Cardinality(E)
    BY <1>2, <2>1, FS_Subset
  <2>4. Cardinality(K \cap Spent) = 0
    BY <2>1, FS_EmptySet
  <2>5. /\ Cardinality(K) \in Nat /\ Cardinality(Spent) \in Nat /\ Cardinality(E) \in Nat
    BY <1>2, FS_CardinalityType
  <2> QED BY <2>2, <2>3, <2>4, <2>5
<1>4. IsFiniteSet(T) /\ Cardinality(T) <= Cardinality(K)
  <2> DEFINE g == [a \in K |-> hand[a]]
  <2>1. g \in Surjection(K, T)
    BY DEF Surjection
  <2> HIDE DEF g, K, T
  <2> QED BY <1>2, <2>1, FS_Surjection
<1>5. stuck \in SUBSET T
  <2>1. ASSUME NEW a \in Attempts, hand[a] # NoFrame, hand[a] \notin InFlight
        PROVE  a \in K
    <3>1. ~Open(a)
      BY <2>1 DEF InFlight
    <3>2. gen[a] = "holding" /\ rpc[a] # "none" /\ rpc[a] \in RpcStates
      BY <2>1 DEF IInv, HandInv, SpentInv, CallStarted, TypeOK
    <3> QED BY <3>1, <3>2 DEF Open, Ended, RpcStates
  <2> QED BY <2>1 DEF HeldFrames
<1>6. IsFiniteSet(stuck) /\ Cardinality(stuck) <= Cardinality(T)
  <2> HIDE DEF stuck, T
  <2> QED BY <1>4, <1>5, FS_Subset
<1>7. /\ Cardinality(stuck) \in Nat /\ Cardinality(T) \in Nat /\ Cardinality(K) \in Nat
      /\ Cardinality(E) \in Nat /\ Cardinality(lost) \in Nat /\ Cardinality(Spent) \in Nat
  <2> HIDE DEF stuck, T, K, E
  <2> QED BY <1>1, <1>2, <1>4, <1>6, FS_CardinalityType
<1>8. Cardinality(lost) <= Cardinality(Spent)
  BY DEF SpentInv
<1>9. Cardinality(lost) + Cardinality(stuck) <= Cardinality(E)
  <2> HIDE DEF stuck, T, K, E
  <2> QED BY <1>3, <1>4, <1>6, <1>7, <1>8
<1> QED BY <1>9 DEF LossBound

\* A failed call costs at most the one frame its poller had in hand, however
\* often the stream is broken, refused or cancelled.
THEOREM LossBounded == Spec => []LossBound
<1>1. Init => SpentInv
  <2> SUFFICES ASSUME Init PROVE SpentInv
    OBVIOUS
  <2>1. CallStarted /\ Spent = {} /\ lost = {}
    BY DEF Init, CallStarted, Spent, Ended
  <2> QED BY <2>1, FS_EmptySet DEF SpentInv
<1>2. IInv /\ SpentInv /\ [Next]_vars => SpentInv'
  BY SpentStep
<1>3. IInv /\ SpentInv => LossBound
  BY SpentBounds
<1> QED BY Invariance, <1>1, <1>2, <1>3, PTL DEF Spec

=============================================================================
