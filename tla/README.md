# Formal verification of the ZQNT edge SDK

TLA+ models of the parts of `edge_sdk` that carry state across awaits, messages
and failures, TLC configurations that check them on small instances, and TLAPS
proofs of the properties that matter most. Source references are relative to
the repository root.

## 1. The system

An *edge adapter* is a Python asyncio process that represents devices of one
vendor. The SDK gives it a gRPC server the platform calls (`EdgeServer`), gRPC
clients it calls the platform with (`ConnectorClient`, `MissionAutonomyClient`)
and three streaming publishers (`TelemetryPublisher`, `DetectionPublisher`,
`NotificationPublisher`). Everything runs on one event loop: an atomic step is the
code between two awaits, and every await is a point where any other task may run.

| component | state it keeps | operations | interacts with | hard behaviour | correct when |
|---|---|---|---|---|---|
| `TelemetryPublisher` (`client/telemetry_publisher.py`) | `_closed`, `_stop_event`, `_queue`, `_stream_task`; per attempt `gen_stop`, the generator and the RPC; the backoff | `connect`, `publish_*`, `close`, `_run_stream`, `_stream_generator` | callers through the queue, gRPC's request poller through the generator, the platform | reconnection with generators of dead attempts still alive, full queue, close during anything, 10 s limit | frames go out in order and at most once, nothing disappears unaccounted, a failure costs one frame, `close()` ends and leaves nothing running |
| `DetectionPublisher`, `NotificationPublisher` | the same, statement by statement | the same, other builders | the same | the same | the same |
| `LiveDataService` (`client/live_data_service.py`) | the three publishers | `connect`, `close`, `produce_*` | the publishers | closes in sequence: one error skips the rest | everything opened is closed |
| `EdgeServer` lifecycle and registration (`server/edge_server.py`) | gRPC server, health status, the registry entry in Redis | `serve`, `stop`, `_register` | Redis, the platform's load balancer, other adapters of the vendor | one key per vendor shared by instances, crash without expiry, cancellation between steps, failed writes swallowed | the registry says online exactly while a server of the vendor serves |
| servicer (`server/edge_server.py`) | none of its own | one handler per RPC | adapter, converters | errors must become responses; streams | every call gets exactly one answer |
| command registry (`adapter/base.py`, `adapter/commands.py`) | `_registered`, overrides of the adapter class | `register_command`, `get_capabilities`, `supports_method`, `send_custom_command`, typed methods | servicer | three computations that must agree | what is advertised can be executed, what is refused is not advertised |
| `ConnectorClient` (`client/connector_client.py`) | channel, stub | `connect`, `close`, calls with retries, `redeem_asset_claim`, `ensure_asset` | connector service | retries of calls whose answer was lost; single-use claims; `close()` during a retry | an asset that exists is found; a claim is not wasted |
| `MissionAutonomyClient` | channel, stub | `connect`, `close`, `get_scheduler` | mission service | the same call loop | the same |
| authentication (`auth.py`) | public key, service token | token verification, interceptors | server, channels | skew, order of checks, fail closed | only the platform's token is admitted |
| `EdgeAdapterRuntime` (`config.py`) | the clients | `__aenter__`, `__aexit__`, `serve` | all clients, server | partial failure and cancellation between two steps | everything opened is closed |
| converters (`server/_converters.py`), models (`models/`) | none | proto to model and back | servicer, clients | legacy task configuration | nothing is lost in a conversion |

`PROJECT.json` lists every component with its status, and under `hazards` every
place where the code is hard to test, with the properties that watch it.

## 2. Structure and plan

| modules | stands for | section |
|---|---|---|
| `LossyFifo`, `Publisher`, `MCPublisher`, `PublisherProofs`, `PublisherAccounting` | one publisher and its abstract promise | 3 |
| `Discovery`, `EdgeRegistration`, `MCEdgeRegistration`, `EdgeRegistrationProofs` | serve, stop, crash and restart of the adapters of a vendor over one registry entry, and what they promise the platform | 4 |
| `Connector`, `MCConnector`, `ConnectorProofs` | the call loop with lost answers and retries, claim redemption, `ensure_asset` | 5 |
| `Commands`, `Authentication`, composed by `Servicer`; `MCServicer`, `CommandsProofs`, `ServicerProofs` | a call of the platform, from the interceptor to its answer | 6 |
| `Lifecycle`, `LifecycleProofs` | several clients opened and closed as one | 7 |
| `Converters`, `MCConverters`, `ConvertersProofs` | between the wire and the models | 8 |

All planned modules are written. What is left: the observation streams of
`ConnectorClient` (`watch_assets`), and the two other event builders, which copy
fields.

In every module the definitions introduced by "Fault:" are plausible mistakes; each
property fails when one of them replaces the definition it belongs to.

## 3. The publisher

### Modules

* `LossyFifo` is the abstract promise: frames are offered in order, the oldest
  pending one may be delivered, any pending ones may be lost.
* `Publisher` is the code of `TelemetryPublisher`; the other two publishers repeat
  its lifecycle, loop and generator line by line. A frame is the number of its
  publish call; the builders decide nothing.
* `MCPublisher` is the module TLC runs, with one cfg per question.
* `PublisherProofs` holds the inductive invariant and the theorems, `PublisherAccounting` those
  about where the frames are and how many a failed call loses.

### State and actions

| model | code |
|---|---|
| `closed`, `stopEvent`, `queue` | `_closed`, `_stop_event`, `_queue` |
| `loop`, `attempt`, `backoff` | the position of `_run_stream`, its iteration, its `backoff` |
| `gen[a]`, `hand[a]`, `genStop[a]` | the generator of attempt `a`, the frame it has yielded, its `gen_stop` |
| `rpc[a]` | the `ProduceTelemetry` call of attempt `a` |
| `closer` | the await in `close()` |
| `sent`, `lost`, `dropped`, `discarded`, `publishedAtClose`, `sentAtClose` | history |

`Connect`, `Publish`, `Close`, `CloseTimeout`, `CloseReturn` are the callers;
`LoopStart`, `CallReturns`, `ChannelClosed`, `BackoffStopped`, `BackoffTimeout` the
segments of `_run_stream` between awaits; `GenResume`, `GenWake`, `GenTimeout` those
of `_stream_generator`; `RpcUp`, `RpcEnds`, `WriteDone`, `WriteFails` are grpc.aio and
the platform, modelled from how the code uses them: the request poller starts with
the call and pulls the first frame before the call is connected, pulls the next one
after each write, and gives up when a write fails because the call is over. The
poller is not told that the call is over, so a generator waiting in `get()` may take
one more frame for a dead call. Time is abstracted: every timeout may fire at any
moment it is pending. "Sent" means handed to an open stream; what the network loses
behind it is out of the SDK's sight and of the model.

Callers are assumed to await `close()` before they `connect()` again. Close may
be called at any other time, also before connect or twice. Publishing is possible
whenever there is a queue, also after close, as in the code.

### Runs

| run | shows |
|---|---|
| `publisher_safety` | types and queue bound; `SentInOrder`; `Accounted` (every frame is in exactly one place); `LossBound` (one frame per ended call); `AtMostOneSentAfterClose`; `NoStraySentinel`; `NothingLeftRunning`; no frame comes back, to the queue or to a second call (`NeverPutBack`); refinement of `LossyFifo` |
| `publisher_liveness` | `CloseTerminates` and `StaleGeneratorsExit` under the fairness of the event loop alone; `FramesLeaveQueue` with a platform that finally accepts and reads |
| `publisher_close_drains` | violated: `close()` is documented to drain the queue and does not |

Two more docstrings say what the code does not do, and no run is spent on them. "when
the buffer is full the oldest frame is dropped silently"
(`client/telemetry_publisher.py:43-44`): `Publish` keeps the queue and drops the frame
that is being published. "Frames published while disconnected are buffered" (`:43`):
the first frame in the queue is in the generator's hand when an attempt is refused, and
is lost with it; `LossBound` says that it is one frame per attempt and no more.

Bounds: two attempts are enough for a stale generator beside a live one (the third
attempt adds a second stale generator, a case the proofs cover and an offline run
with three attempts and two frames confirmed); a queue of two with three frames
reaches the full queue, a frame in hand and one dropped; two backoff doublings
reach the maximum. The last attempt of the bound only ends once the publisher is
closed, so the model never stops because attempts ran out.

Fairness: `SdkFairness` is weak fairness of the loop, of the generators, of gRPC's
report of a failed write and of the end of `close()`: the event loop runs what is
ready and its timers fire. `PlatformFairness` adds, for `FramesLeaveQueue` only, that a
connection attempt is decided and an open stream is read. No caller is obliged to
do anything. Deadlock is checked in every run.

### Proofs

For every queue size, number of frames and number of attempts, from
`PublisherAssumption` alone: `TypeCorrect`, `Ordered`, `SentinelConfined`,
`ClosePrompt`, `CallsEnd`, `AlwaysReconnects` and `Implementation` (Publisher implements LossyFifo),
and in `PublisherAccounting` `EveryFrameAccounted`, `LossBounded` and `FramesOnlyAdvance`.

`SentInOrder` is not inductive: that a written frame is newer than all before it
depends on what is still in the queue and in the hand of the open call. The
inductive invariant `IInv` therefore states that sent frames, the frame in hand of
the one open call and the queue form one increasing chain (`OrderInv`); that at most
the call the loop awaits is open and later attempts are unused (`CallInv`); that a
hand is full exactly in state holding (`HandInv`); that attempts no longer awaited
have their stop signal (`StopInv`); and what an open call may still write after close
(`ClosedInv`). There is one lemma per part with one case per action. The refinement
needs no more: every step but `Publish` and `WriteDone` shrinks the set of frames
that can still be sent, which is `LossyFifo!Lose` or a stutter. `AlwaysReconnects`, which no
run repeats, says that the task of an open publisher is never over, however its calls end; it needs an
invariant of its own (`EndInv`): whoever sets the stop event, or waits in `close()` and may
cancel the task, has closed the publisher before.

`PublisherAccounting` builds on `IInv`. `StepMoves` shows that each step only moves frames in one
of five ways (`Rests`, `Publishes`, `Forgets`, `Takes`, `LetsGo`), and `MovesKeepPlaces` that each
of them keeps the six places disjoint; that get() removes all copies of a frame needs the queue
to be in order, and that a hand is empty before it takes needs `HandInv`. `EveryFrameAccounted`
follows. `FramesOnlyAdvance` (`NeverPutBack`) follows from `StepMoves` as well: none of the five moves
puts a frame where it has been before. `LossBounded` counts: a frame is lost only when an ended attempt becomes *spent* (its
generator done), a spent attempt stays so (`SpentGrows`), and a frame in the hand of a stale
generator belongs to an ended attempt that is not spent yet.

Model-checked only: the liveness properties, which are beyond the prover.

## 4. Registration

`EdgeRegistration` is `EdgeServer.serve`, `stop` and `_register` of any number of
adapters of one vendor. Each is a process of its own with its own endpoint; they
share the registry entry `zqnt:edge-endpoints:{vendor}`. `MCEdgeRegistration` is the
module TLC runs. `Discovery` is what the platform sees of it: the instances that accept calls
(`up`) and the one on offer (`found`). An instance is offered only while it is up, an offer is
withdrawn only by an instance that is, and in an orderly deployment, with or without overlap,
no instance goes while it is the one on offer.

| model | code |
|---|---|
| `entry` | the registry entry: none, or an endpoint with its online flag |
| `serving[i]` | the await of `serve()`: `start()`, `_register(online=True)`, `wait_for_termination()`, or `stop()` after a cancellation |
| `stopping[i]` | the await of `stop()`: the deregistration (read, write back), the server's grace period |
| `server[i]`, `health[i]` | the gRPC server, and what its health service says |
| `seen[i]` | the entry `deregister_edge_endpoint()` has read and will write back offline |
| `caching[i]` | whether `zqnt_utils.caching` can be imported; without it the adapter writes its own endpoint |

`deregister_edge_endpoint()` is outside the repository; the tests show that it keeps
the entry, marks it offline and does nothing without an entry, so it reads before it
writes, and another adapter may write in between. What may happen in a deployment is
`env`, chosen initially from `Environments`: "faults", registry calls that fail (the
failure is logged and swallowed); "crashes", processes that die anywhere; "early",
`serve()` cancelled, or `stop()` called, while the server starts or registers;
"overlap", instances that run at the same time, as in a rolling restart. One `stop()`
per run of an instance is assumed, and a registration is configured.

| run | shows |
|---|---|
| `registration` | overlapping instances without faults: an online entry always names an instance that listens and is healthy (`OnlineMeansListening`); one instance after the other, with crashes and early stops: the serving one can be discovered (`DiscoverableAlone`); failing registry calls stop neither a start nor a stop (`ServesWithoutRegistry`, `StopCompletes`); in every one of these deployments the platform sees `Discovery` (`ImplementsDiscovery`) |
| `registration_rolling` | violated: the stop of the old adapter hides the new one |

A `stop()` that another task calls while `serve()` awaits the server's start or its registration is
overtaken by the registration (`Registered` after `Deregister`): the stopped server stays online until another
adapter of the vendor writes the entry. `DiscoverableAlone` and `StopCompletes` hold
with such stops. The entry has no expiry either: after a crash it stays online until another adapter of
the vendor writes it (the `ttl_seconds` of `README.md:266` does not exist in
`RegistrationConfig`).

Two instances are enough to overwrite each other's entry in either order; starts are
not bounded. `FairSpec` is weak fairness of each instance's own steps: the event loop
runs, and a registry call comes back with or without success. The SDK puts no limit
on these calls, so `StopCompletes` and `ServesWithoutRegistry` depend on the Redis
client's; with a registry that never answers neither would hold.

Proved for any set of instances: `TypeCorrect`; `OnlineListens`
(`OnlineMeansListening`); `Discoverable` (`DiscoverableAlone`); `Implementation`
(`ImplementsDiscovery`). The first of these needs that
from its own deregistration on an instance is never the online one (`OnlineInv`): the write back of another
instance may bring its endpoint back, but only offline. The second needs that the
serving instance is alone (`AloneInv`), so that nobody else writes. The refinement combines `OnlineInv`
with what ties the await of `serve()` and `stop()` to the server (`UpInv`: whoever is about to write the
entry is up, or was stopped early) and with `OneAtATime` for deployments without overlap;
`OfferOf` says what each write of the entry does to the offer, and each action of the
code is then one of the four of `Discovery` or a stutter. It holds with crashes, failing
registry calls and early stops too, which `Discovery` allows their effects and no others: an
instance stopped early may be offered after it has gone. What the abstract actions alone are good for is
`OfferedIsUp`: in an orderly deployment the platform is never led to an instance that does not accept calls. The liveness properties are model-checked only.

## 5. The connector client

`Connector` is `ConnectorClient.ensure_asset` with everything it calls: `_call` and its
retries, `get_asset_by_sn`, `redeem_asset_claim`; with `connect()` and `close()` at any
time, several tasks sharing the client, and restarts of the process. `MCConnector` is
the module TLC runs.

| model | code |
|---|---|
| `assets`, `code` | the platform: the assets it knows, the adapter's claim code |
| `late` | redemptions whose call has ended and that may still reach the platform |
| `link` | `_channel` and `_stub`: none, open, or in `channel.close()` |
| `pc[t]`, `op[t]`, `attempt[t]` | the await of task `t`, the call it is in, the attempt of `_call` |
| `req[t]` | the attempt's request: sent, answered, cancelled |
| `result[t]` | how `ensure_asset()` ended; "error" is any exception |
| `known` | history: tasks whose asset existed when they began, until the platform answers them with an error |

The platform is external: a code is single-use and assets are insert-only
(`client/connector_client.py:133-139, 189`), errors are gRPC errors or, with `ErrorAnswers`,
responses with `has_errors`. `Console` lets assets be created and the code be revoked
meanwhile. A request given up on may arrive later or never; two late redemptions
for one asset are one, since the second could only be refused. Backoffs and
deadlines may end at any moment. `connect()` on an open client is not modelled.

| run | shows |
|---|---|
| `connector` | a returned asset exists (`ReturnedExists`); no task redeems the code for an asset that existed when it began, unless its lookup is answered with `has_errors` (`KnownNeverRedeemed`); `ensure_asset()` ends, whatever the platform does (`EnsureEnds`) |
| `connector_lost_answer` | violated: the retry of a redemption whose answer was lost is refused, and `ensure_asset()` says there is no asset |

A lookup that the platform answers with `has_errors` counts as a missing asset as well
(`client/connector_client.py:113`): `ensure_asset()` then tries the code for an asset that
exists, is refused and returns `None`. That is why `KnownNeverRedeemed` excepts it.

Two tasks and two assets compete for one code; two attempts are one retry, enough for
a lost answer; calls of `ensure_asset` and restarts are not bounded. `FairSpec` is weak
fairness of each call: an attempt has a deadline and a backoff a timer. The platform
need not answer.

Proved for any tasks, assets and number of attempts, also 0: `TypeCorrect`,
`ReturnsKnown` (an answer that says an asset exists stays true on its way:
`AnswerInv`) and `NeverRedeemsKnown` (an asset that exists is
never looked up in vain: `KnownInv`).

## 6. The service

A call of the platform passes the interceptor, is gated on what the adapter supports,
runs the adapter's code and is answered. Three modules:

* `Commands` is the state a call depends on, the adapter's overrides and declarations,
  and the repository's own tables: the catalog with its schemas, which method stands for
  which id, what each inherited body delegates to with which parameters, and what is
  dispatched by id, which request fields may stay unset and what the dispatch reads of the
  parameters. The tables are written out in full since the properties are about
  them: `SupportsMethod` (what is admitted), `MethodServedBy` and `IdServedBy` (what
  runs) and `Capability` (what is advertised) are three computations that have to agree, and
  `BodyArguments` and `DispatchArguments` say what stands for a parameter on its way: the
  caller's own value, None (NaN in a coordinate), or a value of its type that nobody sent.
* `Authentication` is the verdict of the interceptor on a token, and two clocks.
* `Servicer` extends both and adds the calls.

| model | code |
|---|---|
| `overrides` | the methods the adapter's class overrides (`_is_overridden`), fixed |
| `registry`, `handlers` | `_commands`: the declared state of an id, and whether it has a handler |
| `auth`, `now`, `platformNow` | the configuration; the adapter's clock; the platform's |
| `pc[c]` | the call: sent, past the interceptor, waiting for the first message of its stream, in the adapter's code, answered |
| `req[c]` | the request: its RPC, its command, and in `given` the parameters the caller has set |
| `servedBy[c]`, `response[c]` | whose code runs it, and (history) how that ended |
| `answer[c]` | the status and the message the caller gets |
| `sent`, `ended`, `first`, `inbox`, `handed` | a stream: `first` is the message `ManualControlInput` takes off to find the asset |

The adapter may call `register_command` between any two steps of a call. `Arrive` is the
interceptor; `Refuse`, `Undecodable`, `BeginStream`, `Begin` are the handler up to its
first await; `Peek` and `PeekEmpty` the first message; `AdapterReads`,
`AdapterYields`, `AdapterReturns`, `AdapterRaises`, `DetectionsEnd` the adapter's code with
what the handler makes of it; `Cancel` a client that gives up. An enumeration in a request is
decoded outside the handler's try block (`server/edge_server.py:388`), so a value of a newer
platform ends in UNKNOWN; a token whose header or payload is JSON but not an object
raises `AttributeError` in the interceptor and ends in UNKNOWN too. Both are in the
model, and no property is about them.

| run | shows |
|---|---|
| `service` | the typed RPC of a command is admitted exactly if it is served, and served exactly if its id is (`SameBothWays`); what is advertised runs (`AdvertisedRuns`) and what runs is advertised (`ServedIsAdvertised`); what the caller has set reaches the code that runs, and what it has not set is not made up on the way (`ArgumentsCarried`); errors and execution ids reach the caller, also through a relay (`AnswerTruthful`); manual-control messages reach the adapter once and in order (`StreamIntact`); a valid token of the platform is admitted wherever the clocks stand (`FreshAccepted`), and nothing else is (`OnlyValidAdmitted`) |
| `service_radar` | violated: a detection without a box, which `models/common.py:569` allows, ends the whole stream with an error |

`AdvertisedRuns` excepts a declaration without a handler, which `register_command` leaves to
the adapter, and asks only that some parameters lead to code: an adapter that overrides
one of the two methods behind `asset.boot_sub_asset` advertises the id.

`ArgumentsCarried` follows the parameters over both conversions, typed request to handler
and id to typed request. It does not say that a handler's parameters satisfy the schema,
since they need not: the inherited bodies pass the optional fields that are not set as
None (`payloadIndex`, `locked` and `altitude` in `adapter/base.py:402, 447-449`), and the
schemas (`adapter/commands.py:39-41`) do not allow null. `change_zoom` and `change_lens` do
the same with a lens or a zoom that the schema requires. What the property does say is
that nothing else stands for a missing parameter, except FALSE for `force` and the empty
`taskId`. A call by id is held to send what its schema requires, because the dispatch
does not check it: a missing zoom becomes 0, a missing `enabled` FALSE, a missing mode IDLE
and a missing id the empty text. The client, user and session ids of manual control have no place in the
catalog and do not reach a handler. The coordinates of a typed request have no presence on
the wire and count as set.

Bounds: one call is enough, since calls share nothing but declarations and clocks, which
change freely beside it; the proofs are for any set. The instance has three adapters, which
override up to three methods, and three declarations, one of them of a stream, so that each way a call may be served
occurs: by override, by handler, by the half of a two-method id, by nobody, each with the
optional and, by id, the required parameters sent or left out. Clocks run to 3 with a
skew, drift and lifetime of 1, so that a token expires within the skew, beyond it, and
arrives before it was issued. Streams have two messages, the one taken off and one more.
The bounds of `Drift` and `Skew` are assumed: the SDK's allowance is meant to cover the
distance of the clocks (`Drift <= Skew`).

No fairness: a call may wait for ever in the adapter's code, and nothing is promised.

Proved for any calls, RPCs, ids, adapters, declarations, clocks and stream
length: `TypeCorrect` and all eight properties. `SameBothWays` and `AdvertisedRuns`
hold in every state, whatever the overrides and handlers are: the
proofs in `CommandsProofs` go through the tables row by row. `ArgumentsCarried`
(`ArgumentsAlwaysCarried`) needs that a running call was sent as some request, and that code of
the other kind runs only where a table leads to it (`Routed`); the rest is again row by
row: a body builds no parameter its schema lacks (`BodiesFollowSchemas`), the dispatch reads
every parameter of the schema (`DispatchReadsSchemas`), and what is not sent is None
(`AbsentIsNone`). `ServedIsAdvertised` needs
that a handler is never registered without a declaration (`DeclaredHandlers`). The
token properties need that the clocks stay within `Drift` (`ClocksClose`) and that a token is
not issued later than the platform's present (`IssuedBefore`). `AnswerTruthful` needs
that a call that is not over has no answer (`Truthful`), and `StreamIntact` that what was
handed over, the message taken off and the rest are always the numbers sent so far.

## 7. Opening and closing

`Lifecycle` is `LiveDataService` (three publishers) and `EdgeAdapterRuntime` (a publisher
between two clients that hold a channel), chosen by `owner`; both close one after the
other. A publisher is reduced to its task (`conn`: none, running, ended, cancelled), its
`_closed` flag and, as history, the streams that a second `connect()` has made it forget
(`orphans`). `at` is the component whose `close()` is waiting. `Connect` opens all, since no
`connect()` suspends; `ConnectFails` is an `__aenter__` that raises half-way; `Proceed` is
the sequence of closes up to the next wait; `TaskEnds`, `TimedOut`, `ChannelCloses`,
`CloseCancelled` are the ways in which a wait ends.

| run | shows |
|---|---|
| `lifecycle` | a `close()` that returns leaves no stream of the publishers running, whatever timed out on the way, and none that was forgotten either if every `connect()` followed a `close()` that returned (`CloseReturnsClean`); no publisher ever has two streams if `connect()` follows a `close()` that returned (`OneStreamEach`); `close()` ends even if no service answers (`CloseEnds`) |

What the model also shows: if a `close()` of `LiveDataService` is cancelled while it waits
for the telemetry stream, that stream's task is cancelled and kept; a second `close()`
waits for the cancelled task, and its `CancelledError` leaves `close()` before the other two
publishers are closed, in spite of "Safe to call even if some streams failed to open"
(`client/live_data_service.py:73`). And a `connect()` of the runtime that fails half-way
leaves what it opened, as `__aexit__` does not run after an `__aenter__` that raised. `CloseReturnsClean` is
about the `close()` that returns; one that raises or is cancelled promises nothing. And a second `connect()`
without a `close()` between overwrites the task of the first
(`client/telemetry_publisher.py:87`): no later `close()` awaits the forgotten stream, which
may run on after it. `orphans` counts these streams, and what `CloseReturnsClean` says of them is
restricted to `proper`, the histories without such a `connect()`.

Bounds: `MaxOrphans` streams of two are enough for one to be forgotten and to end while
another is forgotten; openings and closings are not bounded. Fairness is
weak fairness of `TimedOut` and of `ChannelCloses` only: a timer fires and a channel
closes, a service need not answer. The run does not check
deadlock, since a runtime that was left is not entered again.

Proved for any `MaxOrphans`: `TypeCorrect`, `ClosedIsClean`, `NeverTwoStreams`. That nothing
runs when `close()` returns needs that whatever is behind `at` no longer runs while it
waits, and that components outside the owner never did; that nothing forgotten runs, under `proper`, is
`OneStreamEach`, which needs the same of the state `connect()` finds.

## 8. Converters

`Converters` is the part of `server/_converters.py` and of the publishers' builders in which a
field's fate depends on more than the field: a conversion is one step from `input` to
`output`. Values keep their form (`Null`, an enum's member by name or by number, JSON lists and
objects) and nothing else; of fields that are treated alike one or two are kept.

* `ReadTask`: a task has its configuration in a oneof, or as JSON text whose dataclass the
  task type selects. A key is a field's name in a spelling: camel, snake, pascal, upper or
  kebab case, with or without marks between the words; `NormKey` folds case and marks, as the code does, so that
  `MeantIsRead` fails if either is left in. A missing
  required field makes the configuration, or the element of a list, be dropped.
* `SendAsset`, `ReadAsset`: an asset as a message and back. Optional fields that are not set
  are left out, and an enumeration that this SDK does not know reads as the default.
* `PublishExecution`: an execution event, with what LiveData requires of it.
* `PublishTelemetry`: readings in an envelope with the time of sending (the readings' own timestamp is
  not used), details and groups; the battery's percentage goes out as text (`OnWire`).

| run | shows |
|---|---|
| `converters` | a configuration is read as the oneof would have carried it, in whatever spelling (`MeantIsRead`), also if the other source says something else; nothing is half built (`NoPartialConfig`); an asset survives the way out and back, zeroes included (`AssetSurvives`); an execution event that names its asset is accepted (`NamedExecutionAccepted`); a reading arrives exactly if it is set, in the one place for it (`ReadingsArrive`) |
| `converters_execution` | violated: the example of `client/notification_publisher.py:17-19` builds an event that LiveData refuses, since it does not name its asset |

The inputs of `MCConverters` are every configuration with one or two values per field and up
to two elements per list, in each form; every such text with a key left out, null, doubled
or unknown, also inside a list; both sources at once; and values of a newer platform.
`MeantIsRead` compares with the configuration the text was written from, which is kept beside it
as `meant`. The run does not check deadlock: a conversion is done after one step.

An element of a list that lacks a required field becomes `None` in the list, while the
configuration is kept (`server/_converters.py:529-545`), although "downstream consumers can
rely on the typed configs regardless of the source" (`:475-481`): the code is modelled so, and
`NoPartialConfig` says only that it is not half built. An unknown task status, break
reason or vehicle action raises, while an unknown type, vendor or connection of an asset
becomes the default, so that an asset of a newer vendor is taken for one of DJI.

The texts also have keys that are no fields and keys that are superseded by the same field in
another spelling, and the listed assets sub-assets of a newer vendor. `AssetSurvives` excepts what
such an enumeration makes of an asset, and `NoPartialConfig` compares each element with the list that
counts, the last if a text has several.

Proved, in `ConvertersProofs`, from `ConvertersAssumption` alone: the five properties
(`MeantAlwaysRead`, `NeverPartial`, `AssetAlwaysSurvives`, `NamedAlwaysAccepted`,
`ReadingsAlwaysArrive`); and, which no run repeats, `TypeCorrect` and `AlwaysOneConfig`: a task has at
most one configuration, the oneof's if that is set, whatever text comes with it. The assumption is about the shape of the inputs (records
with the fields of their class, lists that are sequences, texts that are JSON) and, for
`meant`, what it is for a writer to have meant a configuration: `Means` says it of
the input only, without the operators that read it and with a table of its own for the task types
(`TextType`). So the theorems hold for fields of any value, lists of any length and texts with any
keys, in any order and any spelling.

The invariant is `Computed`: the output is none or what the conversion makes of the input. The
rest is lemmas on the operators. `LastCounts`: of several pairs for a field, `ValueOf` gives the last.
`BuildProperties`: what is built has exactly its class's fields, those the text states or else
their defaults, and is built only if the required ones are stated. `ListRead`: a list keeps its length
and its order, each element built or dropped on its own. `BuiltAsWritten`: a text that writes a
record is read as that record; `ElementWritten`, `ConfigWritten` and, for the oneof,
`ElementCarried`, `TypedRead` apply it to the two levels of a configuration. `OptionalsReturn` and
`OptionalsStay`: leaving out what is None and reading what is absent as None undo each other.

## 9. Not modelled

`PROJECT.json` lists the status of every part. Of the publisher: the contents of frames, the
size of the transport's buffers; two connections at once are in `Lifecycle` only. Of the
registration: two stops of one instance at once. Of the connector: the skill contract
calls (one `_call` each) and the `AssetMonitoring` stream. Of authentication: the
interceptors that add the adapter's credential to outbound calls, and cryptography, which is
one flaw of a token. Of the service: what requests and responses carry besides. Of the
converters: missions, capability snapshots, the events that copy their fields, and the
readers of telemetry (`server/_converters.py:663-800`), which nothing calls and which read a
message that the wire contract no longer has. Of the configuration: the environment
and logging.

Every invariant and every action property that a passing run checks, and both refinements, are
also proved for every value of the constants. Beyond the prover, and model-checked only, is liveness:
`CloseTerminates`, `StaleGeneratorsExit`, `FramesLeaveQueue`, `ServesWithoutRegistry`,
`StopCompletes`, `EnsureEnds` and `CloseEnds`, which need fairness and ENABLED.
