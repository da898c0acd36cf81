------------------------------ MODULE Publisher ------------------------------
(***************************************************************************)
(* TelemetryPublisher (client/telemetry_publisher.py), which               *)
(* DetectionPublisher and NotificationPublisher repeat line for line: a    *)
(* bounded queue between the callers that publish and one reconnect loop,  *)
(* which opens a client-streaming RPC per attempt and feeds it from an     *)
(* async generator that polls the queue.                                   *)
(*                                                                         *)
(* Everything runs on one asyncio event loop, so an action is the code     *)
(* between two awaits.  The actors are the callers (Connect, Publish,      *)
(* Close), the reconnect loop (_run_stream), one generator per attempt     *)
(* (_stream_generator, pulled by gRPC's request poller), and the RPC       *)
(* itself, which the platform or the network ends whenever it likes.       *)
(*                                                                         *)
(* A frame is the number of the publish call that produced it.             *)
(*                                                                         *)
(* The definitions introduced by "Fault:" are not steps of the program:    *)
(* each is a plausible mistake in the definition that follows it, and      *)
(* there is a property that fails when it takes that definition's place.   *)
(***************************************************************************)
EXTENDS Integers, Sequences, FiniteSets

CONSTANTS
    QueueMaxSize,       \* queue_max_size
    MaxFrames,          \* bound on the publish calls
    MaxAttempts,        \* bound on the attempts to open the stream
    BackoffInitial,     \* _BACKOFF_INITIAL
    BackoffMax          \* _BACKOFF_MAX

ASSUME PublisherAssumption ==
    /\ QueueMaxSize \in Nat \ {0}
    /\ MaxFrames \in Nat
    /\ MaxAttempts \in Nat
    /\ BackoffInitial \in Nat \ {0}
    /\ BackoffMax \in Nat
    /\ BackoffInitial <= BackoffMax

VARIABLES
    closed,             \* _closed
    stopEvent,          \* _stop_event.is_set()
    queue,              \* _queue
    loop,               \* where _run_stream, the _stream_task, is
    attempt,            \* number of the latest attempt
    backoff,            \* the loop's backoff
    gen,                \* where the generator of each attempt is
    hand,               \* the frame that generator has yielded, NoFrame if none
    genStop,            \* gen_stop.is_set() of each attempt
    rpc,                \* the ProduceTelemetry call of each attempt
    closer,             \* where the caller of close() is
    published,          \* number of publish calls: the last frame
    sent,               \* history: the frames written to a stream, in order
    lost,               \* history: taken from the queue and never written
    dropped,            \* history: refused because the queue was full
    discarded,          \* history: left in a queue that connect() replaced
    publishedAtClose,   \* history: value of published when _closed was set
    sentAtClose         \* history: value of Len(sent) when _closed was set

loopVars    == <<loop, attempt, backoff>>
streamVars  == <<gen, hand, genStop, rpc>>
callerVars  == <<closed, stopEvent, closer, publishedAtClose, sentAtClose>>
historyVars == <<sent, lost, dropped, discarded>>

vars == <<queue, published, loopVars, streamVars, callerVars, historyVars>>

-----------------------------------------------------------------------------

Attempts == 1..MaxAttempts
Frames   == 1..MaxFrames
NoFrame  == 0
Sentinel == 0           \* _SENTINEL: never equal to a frame

LoopStates == {"none", "created", "calling", "cleanup", "backoff", "done"}
GenStates  == {"none", "ready", "polling", "orphaned", "holding", "done"}
RpcStates  == {"none", "connecting", "up",
               "clean", "has_errors", "refused", "broken", "cancelled"}

\* Fault: the queue is created without maxsize.
PutNowaitUnbounded(q, item) == Append(q, item)

\* queue.put_nowait, with asyncio.QueueFull ignored.
PutNowait(q, item) == IF Len(q) < QueueMaxSize THEN Append(q, item) ELSE q

Minimum(x, y) == IF x <= y THEN x ELSE y

Open(a)  == rpc[a] \in {"connecting", "up"}
Ended(a) == rpc[a] \in {"clean", "has_errors", "refused", "broken", "cancelled"}

TypeOK ==
    /\ closed \in BOOLEAN
    /\ stopEvent \in BOOLEAN
    /\ queue \in Seq({Sentinel} \cup Frames)
    /\ Len(queue) <= QueueMaxSize
    /\ loop \in LoopStates
    /\ attempt \in 0..MaxAttempts
    /\ backoff \in BackoffInitial..BackoffMax
    /\ gen \in [Attempts -> GenStates]
    /\ hand \in [Attempts -> {NoFrame} \cup Frames]
    /\ genStop \in [Attempts -> BOOLEAN]
    /\ rpc \in [Attempts -> RpcStates]
    /\ closer \in {"idle", "waiting", "cancelling"}
    /\ published \in 0..MaxFrames
    /\ sent \in Seq(Frames)
    /\ lost \in SUBSET Frames
    /\ dropped \in SUBSET Frames
    /\ discarded \in SUBSET Frames
    /\ publishedAtClose \in 0..MaxFrames
    /\ sentAtClose \in Nat

Init ==
    /\ closed = FALSE
    /\ stopEvent = FALSE
    /\ queue = <<>>
    /\ loop = "none"
    /\ attempt = 0
    /\ backoff = BackoffInitial
    /\ gen = [a \in Attempts |-> "none"]
    /\ hand = [a \in Attempts |-> NoFrame]
    /\ genStop = [a \in Attempts |-> FALSE]
    /\ rpc = [a \in Attempts |-> "none"]
    /\ closer = "idle"
    /\ published = 0
    /\ sent = <<>>
    /\ lost = {}
    /\ dropped = {}
    /\ discarded = {}
    /\ publishedAtClose = 0
    /\ sentAtClose = 0

-----------------------------------------------------------------------------
(***************************************************************************)
(* The callers.                                                            *)
(***************************************************************************)

\* The frames in the queue, without the sentinel.
QueuedFrames == {queue[i] : i \in 1..Len(queue)} \ {Sentinel}

\* Fault: connect() keeps the queue it finds.
ConnectKeepsQueue ==
    /\ loop \in {"none", "done"}
    /\ closer = "idle"
    /\ attempt < MaxAttempts
    /\ closed' = FALSE
    /\ stopEvent' = FALSE
    /\ loop' = "created"
    /\ backoff' = BackoffInitial
    /\ UNCHANGED <<queue, discarded, attempt, streamVars, closer, published, sent,
                   lost, dropped, publishedAtClose, sentAtClose>>

(***************************************************************************)
(* connect(): new stop event, new queue, new task.  The callers modelled   *)
(* connect a publisher that was never connected or whose close() has       *)
(* returned.  A generator still waiting in get() waits on the old queue,   *)
(* which nobody fills any more.  (The sentinel cannot wake it late: it     *)
(* wakes a waiting get() in the event-loop turn that also wakes the loop,  *)
(* so before close() returns.)                                             *)
(***************************************************************************)
Connect ==
    /\ loop \in {"none", "done"}
    /\ closer = "idle"
    /\ attempt < MaxAttempts
    /\ closed' = FALSE
    /\ stopEvent' = FALSE
    /\ queue' = <<>>
    /\ discarded' = discarded \cup QueuedFrames
    /\ loop' = "created"
    /\ backoff' = BackoffInitial
    /\ gen' = [a \in Attempts |->
                 IF gen[a] = "polling" THEN "orphaned" ELSE gen[a]]
    /\ UNCHANGED <<attempt, hand, genStop, rpc, closer, published, sent, lost,
                   dropped, publishedAtClose, sentAtClose>>

(***************************************************************************)
(* publish_asset_telemetry() / publish_subasset_telemetry() once there is  *)
(* a queue: they do not look at _closed.  A full queue refuses the frame.  *)
(***************************************************************************)
Publish ==
    /\ loop # "none"
    /\ published < MaxFrames
    /\ published' = published + 1
    /\ queue' = PutNowait(queue, published + 1)
    /\ dropped' = IF Len(queue) < QueueMaxSize THEN dropped
                                               ELSE dropped \cup {published + 1}
    /\ UNCHANGED <<loopVars, streamVars, callerVars, sent, lost, discarded>>

\* close() up to wait_for(self._stream_task): at once if there is no task to
\* wait for.
Close ==
    /\ closer = "idle"
    /\ closed' = TRUE
    /\ IF loop = "none"
         THEN UNCHANGED <<stopEvent, queue>>
         ELSE /\ stopEvent' = TRUE
              /\ queue' = PutNowait(queue, Sentinel)
    /\ closer' = IF loop \in {"none", "done"} THEN "idle" ELSE "waiting"
    /\ IF closed
         THEN UNCHANGED <<publishedAtClose, sentAtClose>>
         ELSE /\ publishedAtClose' = published
              /\ sentAtClose' = Len(sent)
    /\ UNCHANGED <<loopVars, streamVars, published, historyVars>>

\* Fault: close() awaits the task without a time limit.
CloseTimeoutNever == FALSE

(***************************************************************************)
(* wait_for's 10 s are over: the task is cancelled.  In the RPC, the call  *)
(* is cancelled with its request poller (unless it has already ended), and *)
(* the loop's finally block is still to run; elsewhere the task ends.      *)
(***************************************************************************)
CloseTimeout ==
    /\ closer = "waiting"
    /\ loop # "done"
    /\ closer' = "cancelling"
    /\ IF loop = "calling"
         THEN /\ loop' = "cleanup"
              /\ genStop' = [genStop EXCEPT ![attempt] = TRUE]
              /\ IF Open(attempt)
                   THEN /\ rpc' = [rpc EXCEPT ![attempt] = "cancelled"]
                        /\ gen' = [gen EXCEPT ![attempt] = "done"]
                        /\ hand' = [hand EXCEPT ![attempt] = NoFrame]
                        /\ lost' = lost \cup ({hand[attempt]} \ {NoFrame})
                   ELSE UNCHANGED <<rpc, gen, hand, lost>>
         ELSE /\ loop' = "done"
              /\ UNCHANGED <<streamVars, lost>>
    /\ UNCHANGED <<queue, published, attempt, backoff, closed, stopEvent, sent,
                   dropped, discarded, publishedAtClose, sentAtClose>>

\* The task is done, and close() returns.
CloseReturn ==
    /\ closer # "idle"
    /\ loop = "done"
    /\ closer' = "idle"
    /\ UNCHANGED <<queue, published, loopVars, streamVars, closed, stopEvent,
                   historyVars, publishedAtClose, sentAtClose>>

-----------------------------------------------------------------------------
(***************************************************************************)
(* The reconnect loop, _run_stream.                                        *)
(***************************************************************************)

(***************************************************************************)
(* The head of "while not self._closed" and the attempt up to the await of *)
(* the RPC.  The request poller starts with the call: it pulls the first   *)
(* frame without waiting for a connection.                                 *)
(***************************************************************************)
LoopHead ==
    /\ IF closed
         THEN /\ loop' = "done"
              /\ UNCHANGED <<attempt, gen, rpc>>
         ELSE /\ attempt < MaxAttempts
              /\ loop' = "calling"
              /\ attempt' = attempt + 1
              /\ gen' = [gen EXCEPT ![attempt + 1] = "ready"]
              /\ rpc' = [rpc EXCEPT ![attempt + 1] = "connecting"]
    /\ UNCHANGED <<queue, published, hand, genStop, callerVars, historyVars>>

LoopStart ==
    /\ loop = "created"
    /\ UNCHANGED backoff
    /\ LoopHead

\* Fault: the finally block does not set gen_stop.
CallReturnsWithoutStop ==
    /\ loop = "calling"
    /\ Ended(attempt)
    /\ loop' = "cleanup"
    /\ backoff' = IF rpc[attempt] = "clean" /\ ~closed THEN BackoffInitial
                                                       ELSE backoff
    /\ UNCHANGED <<queue, published, attempt, streamVars, callerVars,
                   historyVars>>

\* Fault: every attempt gets a queue of its own, like its stop signal.
CallReturnsFreshQueue ==
    /\ loop = "calling"
    /\ Ended(attempt)
    /\ loop' = "cleanup"
    /\ genStop' = [genStop EXCEPT ![attempt] = TRUE]
    /\ backoff' = IF rpc[attempt] = "clean" /\ ~closed THEN BackoffInitial
                                                       ELSE backoff
    /\ queue' = <<>>
    /\ lost' = lost \cup QueuedFrames
    /\ UNCHANGED <<published, attempt, gen, hand, rpc, callerVars, sent, dropped,
                   discarded>>

\* Fault: the frame in hand when the call ended is put back for the next attempt.
CallReturnsPutsBack ==
    /\ loop = "calling"
    /\ Ended(attempt)
    /\ loop' = "cleanup"
    /\ genStop' = [genStop EXCEPT ![attempt] = TRUE]
    /\ backoff' = IF rpc[attempt] = "clean" /\ ~closed THEN BackoffInitial
                                                       ELSE backoff
    /\ queue' = IF hand[attempt] = NoFrame THEN queue ELSE PutNowait(queue, hand[attempt])
    /\ UNCHANGED <<published, attempt, gen, hand, rpc, callerVars, historyVars>>

\* The RPC has ended: the answer or the exception is handled, and the finally
\* block starts to close the channel.
CallReturns ==
    /\ loop = "calling"
    /\ Ended(attempt)
    /\ loop' = "cleanup"
    /\ genStop' = [genStop EXCEPT ![attempt] = TRUE]
    /\ backoff' = IF rpc[attempt] = "clean" /\ ~closed THEN BackoffInitial
                                                       ELSE backoff
    /\ UNCHANGED <<queue, published, attempt, gen, hand, rpc, callerVars,
                   historyVars>>

\* The channel is closed.
ChannelClosed ==
    /\ loop = "cleanup"
    /\ loop' = IF closed THEN "done" ELSE "backoff"
    /\ UNCHANGED <<queue, published, attempt, backoff, streamVars, callerVars,
                   historyVars>>

\* _stop_event is set during the backoff.
BackoffStopped ==
    /\ loop = "backoff"
    /\ stopEvent
    /\ loop' = "done"
    /\ UNCHANGED <<queue, published, attempt, backoff, streamVars, callerVars,
                   historyVars>>

\* The backoff is over.
BackoffTimeout ==
    /\ loop = "backoff"
    /\ backoff' = Minimum(2 * backoff, BackoffMax)
    /\ LoopHead

-----------------------------------------------------------------------------
(***************************************************************************)
(* The generator of attempt a, _stream_generator.                          *)
(***************************************************************************)

\* Fault: the item is read and left in the queue.
TakeItemPeeks(a) ==
    /\ gen' = [gen EXCEPT ![a] = "holding"]
    /\ hand' = [hand EXCEPT ![a] = Head(queue)]
    /\ UNCHANGED queue

\* Fault: a generator that finds out after get() that it is stale puts the frame
\* back, like the sentinel.
TakeItemPutsBack(a) ==
    IF Head(queue) = Sentinel \/ genStop[a]
      THEN /\ queue' = PutNowait(Tail(queue), Head(queue))
           /\ gen' = [gen EXCEPT ![a] = "done"]
           /\ UNCHANGED hand
      ELSE /\ queue' = Tail(queue)
           /\ gen' = [gen EXCEPT ![a] = "holding"]
           /\ hand' = [hand EXCEPT ![a] = Head(queue)]

\* get() returns the item at the head of a queue that is not empty.
TakeItem(a) ==
    IF Head(queue) = Sentinel
      THEN /\ queue' = PutNowait(Tail(queue), Sentinel)
           /\ gen' = [gen EXCEPT ![a] = "done"]
           /\ UNCHANGED hand
      ELSE /\ queue' = Tail(queue)
           /\ gen' = [gen EXCEPT ![a] = "holding"]
           /\ hand' = [hand EXCEPT ![a] = Head(queue)]

\* Fault: the loop condition does not look at _closed.
GenResumeIgnoresClosed(a) ==
    /\ gen[a] = "ready"
    /\ IF genStop[a]
         THEN /\ gen' = [gen EXCEPT ![a] = "done"]
              /\ UNCHANGED <<queue, hand>>
         ELSE IF queue = <<>>
                THEN /\ gen' = [gen EXCEPT ![a] = "polling"]
                     /\ UNCHANGED <<queue, hand>>
                ELSE TakeItem(a)
    /\ UNCHANGED <<published, loopVars, genStop, rpc, callerVars, historyVars>>

\* The poller asks for a frame: the loop condition, then get(), which only
\* suspends on an empty queue.
GenResume(a) ==
    /\ gen[a] = "ready"
    /\ IF closed \/ genStop[a]
         THEN /\ gen' = [gen EXCEPT ![a] = "done"]
              /\ UNCHANGED <<queue, hand>>
         ELSE IF queue = <<>>
                THEN /\ gen' = [gen EXCEPT ![a] = "polling"]
                     /\ UNCHANGED <<queue, hand>>
                ELSE TakeItem(a)
    /\ UNCHANGED <<published, loopVars, genStop, rpc, callerVars, historyVars>>

\* An item arrives while get() waits: no condition is looked at again.
GenWake(a) ==
    /\ gen[a] = "polling"
    /\ queue # <<>>
    /\ TakeItem(a)
    /\ UNCHANGED <<published, loopVars, genStop, rpc, callerVars, historyVars>>

\* Fault: the loop condition does not look at gen_stop.
GenTimeoutIgnoresStop(a) ==
    /\ gen[a] \in {"polling", "orphaned"}
    /\ closed
    /\ gen' = [gen EXCEPT ![a] = "done"]
    /\ UNCHANGED <<queue, published, loopVars, hand, genStop, rpc, callerVars,
                   historyVars>>

\* Fault: a timeout of get() ends the generator instead of polling again.
GenTimeoutReturns(a) ==
    /\ gen[a] \in {"polling", "orphaned"}
    /\ gen' = [gen EXCEPT ![a] = "done"]
    /\ UNCHANGED <<queue, published, loopVars, hand, genStop, rpc, callerVars,
                   historyVars>>

\* One second without an item, and the loop condition no longer holds.
GenTimeout(a) ==
    /\ gen[a] \in {"polling", "orphaned"}
    /\ closed \/ genStop[a]
    /\ gen' = [gen EXCEPT ![a] = "done"]
    /\ UNCHANGED <<queue, published, loopVars, hand, genStop, rpc, callerVars,
                   historyVars>>

-----------------------------------------------------------------------------
(***************************************************************************)
(* gRPC and the platform.                                                  *)
(***************************************************************************)

RpcUp(a) ==
    /\ rpc[a] = "connecting"
    /\ rpc' = [rpc EXCEPT ![a] = "up"]
    /\ UNCHANGED <<queue, published, loopVars, gen, hand, genStop, callerVars,
                   historyVars>>

(***************************************************************************)
(* The call ends: refused before it was up, broken or answered after.  The *)
(* platform may answer before the generator is done.  Only the close of    *)
(* the publisher ends the last attempt within the bound.                   *)
(***************************************************************************)
RpcEnds(a) ==
    /\ closed \/ a < MaxAttempts
    /\ \/ /\ rpc[a] = "connecting"
          /\ rpc' = [rpc EXCEPT ![a] = "refused"]
       \/ /\ rpc[a] = "up"
          /\ \E outcome \in {"clean", "has_errors", "broken"} :
                rpc' = [rpc EXCEPT ![a] = outcome]
    /\ UNCHANGED <<queue, published, loopVars, gen, hand, genStop, callerVars,
                   historyVars>>

\* The poller writes the frame and comes back for the next one.
WriteDone(a) ==
    /\ gen[a] = "holding"
    /\ rpc[a] = "up"
    /\ sent' = Append(sent, hand[a])
    /\ gen' = [gen EXCEPT ![a] = "ready"]
    /\ hand' = [hand EXCEPT ![a] = NoFrame]
    /\ UNCHANGED <<queue, published, loopVars, genStop, rpc, callerVars, lost,
                   dropped, discarded>>

\* A write on a call that has ended raises, and the poller gives up.
WriteFails(a) ==
    /\ gen[a] = "holding"
    /\ Ended(a)
    /\ lost' = lost \cup {hand[a]}
    /\ gen' = [gen EXCEPT ![a] = "done"]
    /\ hand' = [hand EXCEPT ![a] = NoFrame]
    /\ UNCHANGED <<queue, published, loopVars, genStop, rpc, callerVars, sent,
                   dropped, discarded>>

-----------------------------------------------------------------------------

Callers == Connect \/ Publish \/ Close \/ CloseTimeout \/ CloseReturn

RunStream ==
    LoopStart \/ CallReturns \/ ChannelClosed \/ BackoffStopped \/ BackoffTimeout

Generator(a) == GenResume(a) \/ GenWake(a) \/ GenTimeout(a)

Grpc(a) == RpcUp(a) \/ RpcEnds(a) \/ WriteDone(a) \/ WriteFails(a)

Next == Callers \/ RunStream \/ \E a \in Attempts : Generator(a) \/ Grpc(a)

Spec == Init /\ [][Next]_vars

(***************************************************************************)
(* The SDK's own steps and its timers are taken once they stay possible:   *)
(* the event loop runs what is ready.  Nothing obliges a caller or the     *)
(* platform to do anything.                                                *)
(***************************************************************************)
SdkFairness ==
    /\ WF_vars(RunStream)
    /\ WF_vars(CloseTimeout \/ CloseReturn)
    /\ \A a \in Attempts : WF_vars(Generator(a)) /\ WF_vars(WriteFails(a))

FairSpec == Spec /\ SdkFairness

\* Moreover the platform answers a connection attempt, and reads an open stream.
PlatformFairness ==
    \A a \in Attempts :
        /\ WF_vars(rpc[a] = "connecting" /\ (RpcUp(a) \/ RpcEnds(a)))
        /\ WF_vars(WriteDone(a))

-----------------------------------------------------------------------------
(***************************************************************************)
(* What a publisher promises.                                              *)
(***************************************************************************)

SentFrames == {sent[i] : i \in 1..Len(sent)}

\* The frames in the hands of generators.
HeldFrames == {hand[a] : a \in Attempts} \ {NoFrame}

\* The frame an open call may still write.
InFlight == {hand[a] : a \in {b \in Attempts : Open(b)}} \ {NoFrame}

\* Frames reach the platform in the order they were published and at most once,
\* over every reconnection, although the generators of ended attempts take
\* frames from the same queue (_stream_generator, _run_stream).
SentInOrder ==
    \A i, j \in 1..Len(sent) : i < j => sent[i] < sent[j]

\* No frame disappears or is in two places: each publish call's frame is in the
\* queue, in the hand of exactly one generator, sent, lost with a failed call,
\* refused by a full queue or discarded by a new connect().
Accounted ==
    LET places == <<QueuedFrames, HeldFrames, SentFrames, lost, dropped, discarded>>
    IN  /\ UNION {places[i] : i \in 1..6} = 1..published
        /\ \A i, j \in 1..6 : i # j => places[i] \cap places[j] = {}
        /\ \A a, b \in Attempts :
              a # b /\ hand[a] # NoFrame => hand[a] # hand[b]

\* A frame only moves forward: out of the queue into a hand and from there to the platform.
\* What a failed call had in hand, and may have reached the platform, is never put back, and
\* no generator takes a frame that is not in the queue (_stream_generator, _run_stream).
NeverPutBack ==
    [][\A f \in 1..published :
          /\ f \in QueuedFrames' => f \in QueuedFrames
          /\ f \in HeldFrames' => f \in QueuedFrames \cup HeldFrames
          /\ f \in SentFrames' => f \in HeldFrames \cup SentFrames]_vars

\* However its calls end, a publisher that has not been closed goes on reconnecting: the
\* task of an open one is never over (_run_stream), so that what is published later still
\* has somebody to send it.
ReconnectsUntilClosed == loop = "done" => closed

\* A failed call costs at most the one frame its poller had in hand: the queue
\* itself survives every reconnection.
LossBound ==
    Cardinality(lost) + Cardinality(HeldFrames \ InFlight)
        <= Cardinality({a \in Attempts : Ended(a)})

\* Once close() has set _closed, at most one more frame reaches the platform, the
\* one in hand or on its way to a waiting get(): the generator looks at _closed
\* before it takes another, whatever the queue holds.
AtMostOneSentAfterClose ==
    closed => Len(sent) <= sentAtClose + 1

\* The sentinel of one connection never ends the streams of the next: it is only
\* ever in the queue of a closed publisher.
NoStraySentinel ==
    (\E i \in 1..Len(queue) : queue[i] = Sentinel) => closed

\* Only the call the loop awaits can be open, and every earlier attempt's
\* generator has been told to stop; so nothing is left running when the task is
\* done, cancelled or not.
NothingLeftRunning ==
    \A a \in Attempts :
        /\ Open(a) => loop = "calling" /\ a = attempt
        /\ a <= attempt /\ loop \in {"created", "backoff", "done"} => genStop[a]

\* The publisher is a FIFO that loses but neither reorders nor repeats: every step
\* of the code is a step of LossyFifo on the frames that can still be sent.
Fifo == INSTANCE LossyFifo
            WITH offered <- published,
                 pending <- QueuedFrames \cup InFlight,
                 delivered <- sent

ImplementsLossyFifo == Fifo!Spec

\* close() returns, whatever the platform does: the 10 s limit ends a call that
\* the platform never answers.
CloseTerminates == closer # "idle" ~> closer = "idle"

\* "Each attempt gets its own stop signal so stale generators exit promptly":
\* no generator outlives its attempt for good, waiting on an idle queue.
StaleGeneratorsExit ==
    \A a \in Attempts : genStop[a] ~> gen[a] = "done"

\* If the platform answers connection attempts and reads its streams, the loop keeps
\* reconnecting and no frame stays in the queue of an open publisher for ever.
FramesLeaveQueue ==
    PlatformFairness => \A f \in Frames : f \in QueuedFrames ~> (f \notin QueuedFrames \/ closed)

-----------------------------------------------------------------------------
(***************************************************************************)
(* What the docstrings say and the code does not do.                       *)
(***************************************************************************)

\* "Drain the queue": when close() has returned from a stream that the platform
\* ended cleanly, its generator exhausted, every frame published before close()
\* has left the queue.
CloseDrainsQueue ==
    /\ closed /\ loop = "done" /\ closer = "idle"
    /\ attempt > 0 /\ rpc[attempt] = "clean" /\ gen[attempt] = "done"
    => \A f \in QueuedFrames : f > publishedAtClose
=============================================================================
