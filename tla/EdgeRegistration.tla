--------------------------- MODULE EdgeRegistration ---------------------------
(***************************************************************************)
(* EdgeServer.serve, stop and _register (server/edge_server.py) of the     *)
(* adapters of one vendor.  Each adapter is a process of its own with its  *)
(* own endpoint, but all of them write the one registry entry              *)
(* zqnt:edge-endpoints:{vendor}, which the platform reads to find the      *)
(* endpoint to call.  An action is the code between two awaits.            *)
(***************************************************************************)
CONSTANTS
    Instances,          \* the adapters of the vendor, each with its endpoint
    NoEntry,            \* the registry has no entry for the vendor
    Environments        \* sets of what may happen in a deployment:
                        \*   "overlap"  instances run at the same time
                        \*   "crashes"  instances die without running stop()
                        \*   "faults"   calls of the registry fail
                        \*   "early"    serve() is stopped or cancelled before it waits

ASSUME RegistrationAssumption ==
    /\ NoEntry \notin [endpoint : Instances, online : BOOLEAN]
    /\ Environments \subseteq SUBSET {"overlap", "crashes", "faults", "early"}

VARIABLES
    env,                \* what may happen; never changes
    entry,              \* the registry entry of the vendor
    serving,            \* where serve() is in each instance
    stopping,           \* where stop() is in each instance
    server,             \* the gRPC server of each instance
    health,             \* its health service says SERVING
    seen,               \* the entry that deregister_edge_endpoint() has read
    caching             \* zqnt_utils.caching can be imported; never changes

vars == <<env, entry, serving, stopping, server, health, seen, caching>>

-----------------------------------------------------------------------------

Entry == [endpoint : Instances, online : BOOLEAN]

\* Fault: the address the server is bound to is registered, not the configured one.
BoundAddressDto(i, online) == [endpoint |-> "[::]:50051", online |-> online]

\* The EdgeEndpointDTO of instance i.
Dto(i, online) == [endpoint |-> i, online |-> online]

TypeOK ==
    /\ env \in Environments
    /\ entry \in Entry \cup {NoEntry}
    /\ serving \in [Instances ->
                      {"off", "starting", "registering", "waiting", "cancelled"}]
    /\ stopping \in [Instances ->
                      {"idle", "deregister", "write", "server", "grace", "returned"}]
    /\ server \in [Instances -> {"none", "listening", "draining", "stopped"}]
    /\ health \in [Instances -> BOOLEAN]
    /\ seen \in [Instances -> Entry \cup {NoEntry}]
    /\ caching \in [Instances -> BOOLEAN]

Init ==
    /\ env \in Environments
    /\ entry = NoEntry
    /\ serving = [i \in Instances |-> "off"]
    /\ stopping = [i \in Instances |-> "idle"]
    /\ server = [i \in Instances |-> "none"]
    /\ health = [i \in Instances |-> FALSE]
    /\ seen = [i \in Instances |-> NoEntry]
    /\ caching \in [Instances -> BOOLEAN]

\* A registry write: it takes effect, or the error is logged and swallowed.
WriteEntry(new) ==
    \/ entry' = new
    \/ "faults" \in env /\ UNCHANGED entry

-----------------------------------------------------------------------------
(***************************************************************************)
(* serve()                                                                 *)
(***************************************************************************)

\* A new process: the health service says SERVING before the server starts.
Serve(i) ==
    /\ serving[i] = "off"
    /\ "overlap" \in env \/ \A j \in Instances : serving[j] = "off"
    /\ serving' = [serving EXCEPT ![i] = "starting"]
    /\ stopping' = [stopping EXCEPT ![i] = "idle"]
    /\ server' = [server EXCEPT ![i] = "none"]
    /\ health' = [health EXCEPT ![i] = TRUE]
    /\ UNCHANGED <<env, entry, seen, caching>>

\* server.start() is done, and _register(online=True) begins.
ServerStarted(i) ==
    /\ serving[i] = "starting"
    /\ server' = [server EXCEPT ![i] = "listening"]
    /\ serving' = [serving EXCEPT ![i] = "registering"]
    /\ UNCHANGED <<env, entry, stopping, health, seen, caching>>

\* Fault: the entry is only created, never overwritten.
RegisteredIfAbsent(i) ==
    /\ serving[i] = "registering"
    /\ IF entry = NoEntry THEN WriteEntry(Dto(i, TRUE)) ELSE UNCHANGED entry
    /\ serving' = [serving EXCEPT ![i] = "waiting"]
    /\ UNCHANGED <<env, stopping, server, health, seen, caching>>

\* Fault: a registration that fails ends serve().
RegisteredOrEnds(i) ==
    /\ serving[i] = "registering"
    /\ \/ /\ entry' = Dto(i, TRUE)
          /\ serving' = [serving EXCEPT ![i] = "waiting"]
          /\ UNCHANGED <<server, health>>
       \/ /\ "faults" \in env
          /\ serving' = [serving EXCEPT ![i] = "off"]
          /\ server' = [server EXCEPT ![i] = "none"]
          /\ health' = [health EXCEPT ![i] = FALSE]
          /\ UNCHANGED entry
    /\ UNCHANGED <<env, stopping, seen, caching>>

\* _register(online=True) is over, with or without success.
Registered(i) ==
    /\ serving[i] = "registering"
    /\ WriteEntry(Dto(i, TRUE))
    /\ serving' = [serving EXCEPT ![i] = "waiting"]
    /\ UNCHANGED <<env, stopping, server, health, seen, caching>>

\* wait_for_termination() returns, since another task has stopped the server.
Terminated(i) ==
    /\ serving[i] = "waiting"
    /\ server[i] = "stopped"
    /\ stopping[i] = "returned"
    /\ serving' = [serving EXCEPT ![i] = "off"]
    /\ UNCHANGED <<env, entry, stopping, server, health, seen, caching>>

\* Fault: a cancelled serve() stops the server only.
CancelStopsServerOnly(i) ==
    /\ serving[i] = "waiting"
    /\ stopping[i] = "idle"
    /\ serving' = [serving EXCEPT ![i] = "cancelled"]
    /\ stopping' = [stopping EXCEPT ![i] = "server"]
    /\ UNCHANGED <<env, entry, server, health, seen, caching>>

\* wait_for_termination() is cancelled: serve() calls stop().
Cancel(i) ==
    /\ serving[i] = "waiting"
    /\ stopping[i] = "idle"
    /\ serving' = [serving EXCEPT ![i] = "cancelled"]
    /\ stopping' = [stopping EXCEPT ![i] = "deregister"]
    /\ UNCHANGED <<env, entry, server, health, seen, caching>>

(***************************************************************************)
(* Cancelled before it waits, serve() ends without stop(), and the process *)
(* with it.  The registration may be on its way.                           *)
(***************************************************************************)
CancelEarly(i) ==
    /\ "early" \in env
    /\ serving[i] \in {"starting", "registering"}
    /\ stopping[i] = "idle"
    /\ \/ UNCHANGED entry
       \/ serving[i] = "registering" /\ entry' = Dto(i, TRUE)
    /\ serving' = [serving EXCEPT ![i] = "off"]
    /\ server' = [server EXCEPT ![i] = "none"]
    /\ health' = [health EXCEPT ![i] = FALSE]
    /\ UNCHANGED <<env, stopping, seen, caching>>

\* The process dies.
Crash(i) ==
    /\ "crashes" \in env
    /\ serving[i] # "off"
    /\ serving' = [serving EXCEPT ![i] = "off"]
    /\ stopping' = [stopping EXCEPT ![i] = "idle"]
    /\ server' = [server EXCEPT ![i] = "none"]
    /\ health' = [health EXCEPT ![i] = FALSE]
    /\ UNCHANGED <<env, entry, seen, caching>>

-----------------------------------------------------------------------------
(***************************************************************************)
(* stop()                                                                  *)
(***************************************************************************)

\* stop() is called by another task than serve(), early also before serve() waits.
CallStop(i) ==
    /\ \/ serving[i] = "waiting"
       \/ "early" \in env /\ serving[i] \in {"starting", "registering"}
    /\ stopping[i] = "idle"
    /\ stopping' = [stopping EXCEPT ![i] = "deregister"]
    /\ UNCHANGED <<env, entry, serving, server, health, seen, caching>>

\* Fault: a failed deregistration ends stop().
DeregisterOrRaises(i) ==
    /\ stopping[i] = "deregister"
    /\ \/ /\ entry' = Dto(i, FALSE)
          /\ stopping' = [stopping EXCEPT ![i] = "server"]
       \/ /\ "faults" \in env
          /\ stopping' = [stopping EXCEPT ![i] = "returned"]
          /\ UNCHANGED entry
    /\ UNCHANGED <<env, serving, server, health, seen, caching>>

(***************************************************************************)
(* _register(online=False).  CachingService reads the entry first and does *)
(* nothing if there is none; without zqnt-utils the instance writes its    *)
(* own endpoint.                                                           *)
(***************************************************************************)
Deregister(i) ==
    /\ stopping[i] = "deregister"
    /\ \/ /\ caching[i]
          /\ seen' = [seen EXCEPT ![i] = entry]
          /\ stopping' = [stopping EXCEPT
                            ![i] = IF entry = NoEntry THEN "server" ELSE "write"]
          /\ UNCHANGED entry
       \/ /\ caching[i] /\ "faults" \in env
          /\ stopping' = [stopping EXCEPT ![i] = "server"]
          /\ UNCHANGED <<entry, seen>>
       \/ /\ ~caching[i]
          /\ WriteEntry(Dto(i, FALSE))
          /\ stopping' = [stopping EXCEPT ![i] = "server"]
          /\ UNCHANGED seen
    /\ UNCHANGED <<env, serving, server, health, caching>>

\* The entry read is written back offline, whatever the entry has become.
DeregisterWrite(i) ==
    /\ stopping[i] = "write"
    /\ WriteEntry([seen[i] EXCEPT !.online = FALSE])
    /\ stopping' = [stopping EXCEPT ![i] = "server"]
    /\ UNCHANGED <<env, serving, server, health, seen, caching>>

(***************************************************************************)
(* NOT_SERVING, and server.stop() begins: no new calls are accepted.  An   *)
(* early stop() gets here after server.start(), which takes one turn of    *)
(* the loop while the registry takes a round trip.                         *)
(***************************************************************************)
StopServer(i) ==
    /\ stopping[i] = "server" /\ serving[i] # "starting"
    /\ health' = [health EXCEPT ![i] = FALSE]
    /\ server' = [server EXCEPT ![i] = "draining"]
    /\ stopping' = [stopping EXCEPT ![i] = "grace"]
    /\ UNCHANGED <<env, entry, serving, seen, caching>>

\* The grace period is over or no call is left: stop() returns, to serve() or to
\* the task that called it.
StopReturns(i) ==
    /\ stopping[i] = "grace"
    /\ server' = [server EXCEPT ![i] = "stopped"]
    /\ stopping' = [stopping EXCEPT ![i] = "returned"]
    /\ serving' = [serving EXCEPT ![i] = IF @ = "cancelled" THEN "off" ELSE @]
    /\ UNCHANGED <<env, entry, health, seen, caching>>

-----------------------------------------------------------------------------

Progress(i) ==
    \/ ServerStarted(i) \/ Registered(i) \/ Terminated(i)
    \/ Deregister(i) \/ DeregisterWrite(i) \/ StopServer(i) \/ StopReturns(i)

Environment(i) == Serve(i) \/ Cancel(i) \/ CancelEarly(i) \/ Crash(i) \/ CallStop(i)

Next == \E i \in Instances : Progress(i) \/ Environment(i)

Spec == Init /\ [][Next]_vars

\* Each instance's event loop and the registry client get on with what was begun;
\* nobody has to start, stop, cancel or crash.
FairSpec == Spec /\ \A i \in Instances : WF_vars(Progress(i))

-----------------------------------------------------------------------------
(***************************************************************************)
(* Safety.                                                                 *)
(***************************************************************************)

\* Without crashes, registry faults and early stops, an entry that is online names an instance that accepts calls and
\* is healthy, however the instances overlap: stop() deregisters before it stops the
\* server, and no late write of another instance brings the entry back.
OnlineMeansListening ==
    env \subseteq {"overlap"} => \A i \in Instances :
        entry = Dto(i, TRUE) => server[i] = "listening" /\ health[i]

\* While an instance serves, the registry leads to a listening instance of the vendor
\* (server/edge_server.py:72-74).
DiscoverableWhileServing ==
    (\E i \in Instances : serving[i] = "waiting" /\ stopping[i] = "idle")
        => \E j \in Instances : entry = Dto(j, TRUE) /\ server[j] = "listening"

\* It does if the instances run one after the other and the registry works, whatever
\* entry a crash or an early stop has left.
DiscoverableAlone ==
    env \subseteq {"crashes", "early"} => DiscoverableWhileServing

\* What the platform sees is Discovery: an instance is offered only once it accepts calls,
\* and stops accepting only after its offer was withdrawn or replaced, unless a fault, a crash
\* or an early stop comes in between (server/edge_server.py:555-592).
OnOffer == {i \in Instances : entry = Dto(i, TRUE)}

Promise == INSTANCE Discovery
             WITH up <- {i \in Instances : server[i] = "listening" /\ health[i]},
                  found <- OnOffer

ImplementsDiscovery == Promise!Spec

-----------------------------------------------------------------------------
(***************************************************************************)
(* Liveness, under FairSpec.                                               *)
(***************************************************************************)

\* An instance that starts comes to serve even if its registration fails: the failure
\* never crashes the server (server/edge_server.py:649).
ServesWithoutRegistry ==
    \A i \in Instances :
        env \subseteq {"overlap", "faults"} /\ serving[i] = "starting"
            ~> serving[i] = "waiting" /\ server[i] = "listening"

\* A stop() that was called stops the server even if the deregistration fails, unless
\* the process dies.
StopCompletes ==
    \A i \in Instances :
        "crashes" \notin env /\ stopping[i] = "deregister"
            ~> stopping[i] = "returned" /\ server[i] = "stopped"
=============================================================================
