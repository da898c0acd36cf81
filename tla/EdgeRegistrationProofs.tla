----------------------- MODULE EdgeRegistrationProofs -----------------------
(***************************************************************************)
(* Theorems about EdgeRegistration, for any set of instances.              *)
(***************************************************************************)
EXTENDS EdgeRegistration, TLAPS

\* The shapes of registry entries: equality of two is equality of their fields.
LEMMA EntryFacts ==
    /\ \A i \in Instances : /\ Dto(i, TRUE) \in Entry /\ Dto(i, TRUE) # NoEntry
                            /\ Dto(i, FALSE) \in Entry /\ Dto(i, FALSE) # NoEntry
    /\ \A i, j \in Instances : /\ Dto(i, TRUE) = Dto(j, TRUE) => i = j
                               /\ Dto(i, FALSE) # Dto(j, TRUE)
  <1>1. ASSUME NEW i \in Instances
        PROVE  Dto(i, TRUE) \in Entry /\ Dto(i, FALSE) \in Entry
    BY DEF Entry, Dto
  <1>2. NoEntry \notin Entry
    BY RegistrationAssumption DEF Entry
  <1>3. ASSUME NEW i \in Instances, NEW j \in Instances, Dto(i, TRUE) = Dto(j, TRUE)
        PROVE  i = j
    <2>1. Dto(i, TRUE).endpoint = Dto(j, TRUE).endpoint
      BY <1>3
    <2> QED
      BY <2>1 DEF Dto
  <1>4. ASSUME NEW i \in Instances, NEW j \in Instances, Dto(i, FALSE) = Dto(j, TRUE)
        PROVE  FALSE
    <2>1. Dto(i, FALSE).online = Dto(j, TRUE).online
      BY <1>4
    <2> QED
      BY <2>1 DEF Dto
  <1> QED
    BY <1>1, <1>2, <1>3, <1>4

LEMMA OfflineFacts ==
  ASSUME NEW e \in Entry \cup {NoEntry}, e # NoEntry
  PROVE  /\ [e EXCEPT !.online = FALSE] \in Entry
         /\ [e EXCEPT !.online = FALSE] # NoEntry
         /\ \A i \in Instances : [e EXCEPT !.online = FALSE] # Dto(i, TRUE)
  BY RegistrationAssumption DEF Entry, Dto

-----------------------------------------------------------------------------
(***************************************************************************)
(* Types.  The entry an instance writes back is one it has read.           *)
(***************************************************************************)

ReadBeforeWrite == \A i \in Instances : stopping[i] = "write" => seen[i] # NoEntry

TypeInv == TypeOK /\ ReadBeforeWrite

LEMMA InitType == Init => TypeInv
  BY DEF Init, TypeInv, TypeOK, ReadBeforeWrite

LEMMA StepType == TypeInv /\ [Next]_vars => TypeInv'
  <1> SUFFICES ASSUME TypeInv, [Next]_vars PROVE TypeInv'
    OBVIOUS
  <1> USE DEF TypeInv, TypeOK, ReadBeforeWrite
  <1>1. CASE UNCHANGED vars
    BY <1>1 DEF vars
  <1>2. CASE Next
    <2> PICK i \in Instances : Progress(i) \/ Environment(i)
      BY <1>2 DEF Next
    <2>1. CASE ServerStarted(i)
      BY <2>1 DEF ServerStarted
    <2>2. CASE Registered(i)
      BY <2>2, EntryFacts DEF Registered, WriteEntry
    <2>3. CASE Terminated(i)
      BY <2>3 DEF Terminated
    <2>4. CASE Deregister(i)
      BY <2>4, EntryFacts DEF Deregister, WriteEntry
    <2>5. CASE DeregisterWrite(i)
      <3> DEFINE off == [seen[i] EXCEPT !.online = FALSE]
      <3>1. seen[i] \in Entry \cup {NoEntry} /\ seen[i] # NoEntry
        BY <2>5 DEF DeregisterWrite
      <3>2. off \in Entry /\ off # NoEntry /\ \A j \in Instances : off # Dto(j, TRUE)
        BY <3>1, OfflineFacts
      <3>3. WriteEntry(off)
        BY <2>5 DEF DeregisterWrite
      <3> HIDE DEF off
      <3> QED
        BY <2>5, <3>2, <3>3 DEF DeregisterWrite, WriteEntry
    <2>6. CASE StopServer(i)
      BY <2>6 DEF StopServer
    <2>7. CASE StopReturns(i)
      BY <2>7 DEF StopReturns
    <2>8. CASE Serve(i)
      BY <2>8 DEF Serve
    <2>9. CASE Cancel(i)
      BY <2>9 DEF Cancel
    <2>10. CASE CancelEarly(i)
      BY <2>10, EntryFacts DEF CancelEarly
    <2>11. CASE Crash(i)
      BY <2>11 DEF Crash
    <2>12. CASE CallStop(i)
      BY <2>12 DEF CallStop
    <2> QED
      BY <2>1, <2>2, <2>3, <2>4, <2>5, <2>6, <2>7, <2>8, <2>9, <2>10, <2>11, <2>12
         DEF Progress, Environment
  <1> QED
    BY <1>1, <1>2

\* What may happen never changes.
LEMMA StepEnv == [Next]_vars => env' = env
  BY DEF Next, vars, Progress, Environment, ServerStarted, Registered, Terminated,
         Deregister, DeregisterWrite, StopServer, StopReturns, Serve, Cancel,
         CancelEarly, Crash, CallStop

\* Every variable keeps its type.
THEOREM TypeCorrect == Spec => []TypeOK
  <1>1. TypeInv => TypeOK
    BY DEF TypeInv
  <1> QED
    BY <1>1, InitType, StepType, PTL DEF Spec

-----------------------------------------------------------------------------
(***************************************************************************)
(* Without faults an online entry names a listening instance.  Only an     *)
(* instance that waits and has not written its deregistration can be       *)
(* online; from the write on, nothing brings its entry back.               *)
(***************************************************************************)

OnlineInv(i) ==
    /\ entry = Dto(i, TRUE) =>
         /\ serving[i] \in {"waiting", "cancelled"}
         /\ stopping[i] \in {"idle", "deregister", "write"}
    /\ serving[i] \in {"waiting", "cancelled"} => entry # NoEntry
    /\ serving[i] \in {"starting", "registering"} => stopping[i] = "idle"
    /\ serving[i] = "off" => stopping[i] \in {"idle", "returned"}
    /\ serving[i] = "starting" => health[i]
    /\ serving[i] \in {"registering", "waiting", "cancelled"}
         /\ stopping[i] \in {"idle", "deregister", "write"}
         => server[i] = "listening" /\ health[i]

LEMMA InitOnline == Init => \A i \in Instances : OnlineInv(i)
  BY EntryFacts DEF Init, OnlineInv

LEMMA StepOnline ==
  ASSUME env \subseteq {"overlap"}, TypeInv, \A k \in Instances : OnlineInv(k), [Next]_vars
  PROVE  (\A k \in Instances : OnlineInv(k))'
  <1> SUFFICES ASSUME NEW k \in Instances PROVE OnlineInv(k)'
    OBVIOUS
  <1> USE DEF OnlineInv
  <1>1. CASE UNCHANGED vars
    BY <1>1 DEF vars
  <1>2. CASE Next
    <2> PICK i \in Instances : Progress(i) \/ Environment(i)
      BY <1>2 DEF Next
    <2> USE DEF TypeInv, TypeOK, ReadBeforeWrite
    <2>1. CASE ServerStarted(i)
      BY <2>1 DEF ServerStarted
    <2>2. CASE Registered(i)
      BY <2>2, EntryFacts DEF Registered, WriteEntry
    <2>3. CASE Terminated(i)
      BY <2>3 DEF Terminated
    <2>4. CASE Deregister(i)
      <3>1. serving[i] \in {"waiting", "cancelled"} /\ entry # NoEntry
        BY <2>4 DEF Deregister
      <3>2. CASE caching[i]
        BY <2>4, <3>1, <3>2 DEF Deregister
      <3>3. CASE ~caching[i]
        <4>1. /\ entry' = Dto(i, FALSE)
              /\ stopping' = [stopping EXCEPT ![i] = "server"]
              /\ UNCHANGED <<serving, server, health>>
          BY <2>4, <3>3 DEF Deregister, WriteEntry
        <4>2. entry' # NoEntry /\ entry' # Dto(k, TRUE)
          BY <4>1, EntryFacts
        <4> QED
          BY <3>1, <4>1, <4>2
      <3> QED
        BY <3>2, <3>3
    <2>5. CASE DeregisterWrite(i)
      <3> DEFINE off == [seen[i] EXCEPT !.online = FALSE]
      <3>1. seen[i] \in Entry \cup {NoEntry} /\ seen[i] # NoEntry
        BY <2>5 DEF DeregisterWrite
      <3>2. off \in Entry /\ off # NoEntry /\ \A j \in Instances : off # Dto(j, TRUE)
        BY <3>1, OfflineFacts
      <3>3. WriteEntry(off)
        BY <2>5 DEF DeregisterWrite
      <3> HIDE DEF off
      <3> QED
        BY <2>5, <3>2, <3>3 DEF DeregisterWrite, WriteEntry
    <2>6. CASE StopServer(i)
      BY <2>6 DEF StopServer
    <2>7. CASE StopReturns(i)
      BY <2>7 DEF StopReturns
    <2>8. CASE Serve(i)
      BY <2>8 DEF Serve
    <2>9. CASE Cancel(i)
      BY <2>9 DEF Cancel
    <2>10. CASE CallStop(i)
      BY <2>10 DEF CallStop
    <2> QED
      BY <2>1, <2>2, <2>3, <2>4, <2>5, <2>6, <2>7, <2>8, <2>9, <2>10
         DEF Progress, Environment, CancelEarly, Crash
  <1> QED
    BY <1>1, <1>2

\* Without crashes, registry faults and early stops, an online entry always names an
\* instance that listens and is healthy, for any number of overlapping instances.
THEOREM OnlineListens == Spec => []OnlineMeansListening
  <1> DEFINE Inv == TypeInv /\ (env \subseteq {"overlap"} => \A i \in Instances : OnlineInv(i))
  <1>1. Init => Inv
    BY InitType, InitOnline
  <1>2. Inv /\ [Next]_vars => Inv'
    BY StepType, StepOnline, StepEnv
  <1>3. Inv => OnlineMeansListening
    BY DEF OnlineInv, OnlineMeansListening
  <1> QED
    BY <1>1, <1>2, <1>3, PTL DEF Spec

-----------------------------------------------------------------------------
(***************************************************************************)
(* Instances that run one after the other can always be discovered, even   *)
(* after a crash: only the running instance writes the entry, and its      *)
(* registration replaces what was there.                                   *)
(***************************************************************************)

AloneInv ==
    /\ \A i, j \in Instances : i # j => serving[i] = "off" \/ serving[j] = "off"
    /\ \A i \in Instances :
         /\ serving[i] = "off" => stopping[i] \in {"idle", "returned"}
         /\ serving[i] = "registering" /\ stopping[i] = "idle" => server[i] = "listening"
         /\ serving[i] = "waiting" /\ stopping[i] = "idle" =>
              entry = Dto(i, TRUE) /\ server[i] = "listening"

LEMMA InitAlone == Init => AloneInv
  BY DEF Init, AloneInv

LEMMA StepAlone ==
  ASSUME env \subseteq {"crashes", "early"}, TypeInv, AloneInv, [Next]_vars
  PROVE  AloneInv'
  <1> USE DEF AloneInv
  <1>1. CASE UNCHANGED vars
    BY <1>1 DEF vars
  <1>2. CASE Next
    <2> PICK i \in Instances : Progress(i) \/ Environment(i)
      BY <1>2 DEF Next
    <2> USE DEF TypeInv, TypeOK
    <2>1. CASE ServerStarted(i)
      BY <2>1 DEF ServerStarted
    <2>2. CASE Registered(i)
      BY <2>2 DEF Registered, WriteEntry
    <2>3. CASE Terminated(i)
      BY <2>3 DEF Terminated
    <2>4. CASE Deregister(i)
      BY <2>4 DEF Deregister, WriteEntry
    <2>5. CASE DeregisterWrite(i)
      BY <2>5 DEF DeregisterWrite, WriteEntry
    <2>6. CASE StopServer(i)
      BY <2>6 DEF StopServer
    <2>7. CASE StopReturns(i)
      BY <2>7 DEF StopReturns
    <2>8. CASE Serve(i)
      BY <2>8 DEF Serve
    <2>9. CASE Cancel(i)
      BY <2>9 DEF Cancel
    <2>10. CASE CancelEarly(i)
      BY <2>10 DEF CancelEarly
    <2>11. CASE Crash(i)
      BY <2>11 DEF Crash
    <2>12. CASE CallStop(i)
      BY <2>12 DEF CallStop
    <2> QED
      BY <2>1, <2>2, <2>3, <2>4, <2>5, <2>6, <2>7, <2>8, <2>9, <2>10, <2>11, <2>12
         DEF Progress, Environment
  <1> QED
    BY <1>1, <1>2

\* Instances that do not overlap are discoverable whenever one serves, whatever
\* crashes, cancellations and early stops came before.
THEOREM Discoverable == Spec => []DiscoverableAlone
  <1> DEFINE Inv == TypeInv /\ (env \subseteq {"crashes", "early"} => AloneInv)
  <1>1. Init => Inv
    BY InitType, InitAlone
  <1>2. Inv /\ [Next]_vars => Inv'
    BY StepType, StepAlone, StepEnv
  <1>3. Inv => DiscoverableAlone
    BY DEF AloneInv, DiscoverableAlone, DiscoverableWhileServing
  <1> QED
    BY <1>1, <1>2, <1>3, PTL DEF Spec

-----------------------------------------------------------------------------
(***************************************************************************)
(* EdgeRegistration implements Discovery.  Whatever happens, an instance   *)
(* that is about to write the entry is up, unless it was stopped early;    *)
(* and instances that do not overlap are up one at a time.                 *)
(***************************************************************************)

UpSet == {i \in Instances : server[i] = "listening" /\ health[i]}

UpInv(i) ==
    /\ serving[i] = "off" => server[i] # "listening" /\ stopping[i] \in {"idle", "returned"}
    /\ serving[i] = "starting" =>
            server[i] = "none" /\ health[i] /\ stopping[i] \in {"idle", "deregister", "write", "server"}
    /\ serving[i] \in {"registering", "waiting", "cancelled"}
         /\ stopping[i] \in {"idle", "deregister", "write", "server"}
         => server[i] = "listening" /\ health[i]
    /\ serving[i] \in {"registering", "waiting", "cancelled"} /\ stopping[i] \in {"grace", "returned"}
         => server[i] \in {"draining", "stopped"}
    /\ serving[i] \in {"starting", "registering"} /\ stopping[i] # "idle" => "early" \in env

OneAtATime ==
    "overlap" \notin env => \A i, j \in Instances : i # j => serving[i] = "off" \/ serving[j] = "off"

ServingInv == OneAtATime /\ \A i \in Instances : UpInv(i)

LEMMA InitServing == Init => ServingInv
  BY DEF Init, ServingInv, OneAtATime, UpInv

LEMMA StepServing ==
  ASSUME TypeInv, ServingInv, [Next]_vars
  PROVE  ServingInv'
  <1> USE DEF ServingInv, OneAtATime, UpInv
  <1>1. CASE UNCHANGED vars
    BY <1>1 DEF vars
  <1>2. CASE Next
    <2> PICK i \in Instances : Progress(i) \/ Environment(i)
      BY <1>2 DEF Next
    <2> USE DEF TypeInv, TypeOK
    <2>1. CASE ServerStarted(i)
      BY <2>1 DEF ServerStarted
    <2>2. CASE Registered(i)
      BY <2>2 DEF Registered
    <2>3. CASE Terminated(i)
      BY <2>3 DEF Terminated
    <2>4. CASE Deregister(i)
      BY <2>4 DEF Deregister
    <2>5. CASE DeregisterWrite(i)
      BY <2>5 DEF DeregisterWrite
    <2>6. CASE StopServer(i)
      BY <2>6 DEF StopServer
    <2>7. CASE StopReturns(i)
      BY <2>7 DEF StopReturns
    <2>8. CASE Serve(i)
      BY <2>8 DEF Serve
    <2>9. CASE Cancel(i)
      BY <2>9 DEF Cancel
    <2>10. CASE CancelEarly(i)
      BY <2>10 DEF CancelEarly
    <2>11. CASE Crash(i)
      BY <2>11 DEF Crash
    <2>12. CASE CallStop(i)
      BY <2>12 DEF CallStop
    <2> QED
      BY <2>1, <2>2, <2>3, <2>4, <2>5, <2>6, <2>7, <2>8, <2>9, <2>10, <2>11, <2>12
         DEF Progress, Environment
  <1> QED
    BY <1>1, <1>2

\* What a write of the entry does to the offer.
LEMMA OfferOf ==
  /\ \A i \in Instances : entry' = Dto(i, TRUE) => OnOffer' = {i}
  /\ \A i \in Instances : entry' = Dto(i, FALSE) => OnOffer' = {}
  /\ (\A i \in Instances : entry' # Dto(i, TRUE)) => OnOffer' = {}
  /\ entry' = entry => OnOffer' = OnOffer
  BY EntryFacts DEF OnOffer

DiscoveryInv ==
    /\ TypeInv /\ ServingInv
    /\ env \subseteq {"overlap"} => \A i \in Instances : OnlineInv(i)

LEMMA InitDiscovery == Init => Promise!Init
  <1> SUFFICES ASSUME Init PROVE Promise!Init
    OBVIOUS
  <1>1. env \subseteq {"overlap", "crashes", "faults", "early"}
    BY RegistrationAssumption DEF Init
  <1>2. OnOffer = {}
    BY EntryFacts DEF Init, OnOffer
  <1>3. UpSet = {}
    BY DEF Init, UpSet
  <1> QED
    BY <1>1, <1>2, <1>3 DEF Promise!Init, UpSet

\* Every step of the code is a step of Discovery, or not seen by the platform.
LEMMA StepDiscovery ==
  ASSUME DiscoveryInv, [Next]_vars
  PROVE  [Promise!Next]_(Promise!vars)
  <1>e. env' = env
    BY StepEnv
  <1>s. ASSUME UNCHANGED <<server, health>> PROVE UpSet' = UpSet
    BY <1>s DEF UpSet
  <1>t. ASSUME UpSet' = UpSet, OnOffer' = OnOffer PROVE UNCHANGED Promise!vars
    BY <1>e, <1>t DEF Promise!vars, UpSet
  <1>c. ASSUME NEW i \in Instances, i \notin UpSet, "overlap" \in env \/ UpSet = {},
               UpSet' = UpSet \cup {i}, OnOffer' = OnOffer
        PROVE  Promise!Next
    BY <1>e, <1>c DEF Promise!Next, Promise!Comes, UpSet
  <1>o. ASSUME NEW i \in Instances, i \in UpSet \/ "early" \in env, UpSet' = UpSet, OnOffer' = {i}
        PROVE  Promise!Next
    BY <1>e, <1>o DEF Promise!Next, Promise!Offered, UpSet
  <1>w. ASSUME UpSet # {} \/ "early" \in env, UpSet' = UpSet, OnOffer' = {}
        PROVE  Promise!Next
    BY <1>e, <1>w DEF Promise!Next, Promise!Withdrawn, UpSet
  <1>g. ASSUME NEW i \in UpSet, env \subseteq {"overlap"} => i \notin OnOffer, UpSet' = UpSet \ {i},
               OnOffer' = OnOffer \/ ("early" \in env /\ OnOffer' = {i})
        PROVE  Promise!Next
    BY <1>e, <1>g DEF Promise!Next, Promise!Goes, Promise!Orderly, UpSet
  <1>1. CASE UNCHANGED vars
    BY <1>1, <1>s, <1>t, OfferOf DEF vars
  <1>2. CASE Next
    <2> PICK i \in Instances : Progress(i) \/ Environment(i)
      BY <1>2 DEF Next
    <2>i. UpInv(i) /\ TypeOK /\ ReadBeforeWrite /\ OneAtATime
      BY DEF DiscoveryInv, ServingInv, TypeInv
    <2>1. CASE ServerStarted(i)
      <3>1. UpSet' = UpSet \cup {i} /\ i \notin UpSet /\ OnOffer' = OnOffer
        BY <2>1, <2>i, OfferOf DEF ServerStarted, UpInv, UpSet, TypeOK
      <3>2. "overlap" \in env \/ UpSet = {}
        BY <2>1, <2>i, <3>1 DEF ServerStarted, OneAtATime, UpSet, UpInv, DiscoveryInv, ServingInv
      <3> QED
        BY <3>1, <3>2, <1>c
    <2>2. CASE Registered(i)
      <3>1. i \in UpSet \/ "early" \in env
        BY <2>2, <2>i DEF Registered, UpInv, UpSet
      <3>2. UpSet' = UpSet /\ (OnOffer' = {i} \/ OnOffer' = OnOffer)
        BY <2>2, <1>s, OfferOf DEF Registered, WriteEntry
      <3> QED
        BY <3>1, <3>2, <1>o, <1>t
    <2>3. CASE Terminated(i) \/ Cancel(i) \/ CallStop(i)
      BY <2>3, <1>s, <1>t, OfferOf DEF Terminated, Cancel, CallStop
    <2>4. CASE Deregister(i)
      <3>1. i \in UpSet \/ "early" \in env
        BY <2>4, <2>i DEF Deregister, UpInv, UpSet, TypeOK
      <3>2. UpSet' = UpSet /\ (OnOffer' = {} \/ OnOffer' = OnOffer)
        BY <2>4, <1>s, OfferOf DEF Deregister, WriteEntry
      <3> QED
        BY <3>1, <3>2, <1>w, <1>t
    <2>5. CASE DeregisterWrite(i)
      <3>1. i \in UpSet \/ "early" \in env
        BY <2>5, <2>i DEF DeregisterWrite, UpInv, UpSet, TypeOK
      <3> DEFINE off == [seen[i] EXCEPT !.online = FALSE]
      <3>2. seen[i] \in Entry \cup {NoEntry} /\ seen[i] # NoEntry
        BY <2>5, <2>i DEF DeregisterWrite, ReadBeforeWrite, TypeOK
      <3>3. \A j \in Instances : off # Dto(j, TRUE)
        BY <3>2, OfflineFacts
      <3>4. WriteEntry(off) /\ UNCHANGED <<server, health>>
        BY <2>5 DEF DeregisterWrite
      <3> HIDE DEF off
      <3>5. UpSet' = UpSet /\ (OnOffer' = {} \/ OnOffer' = OnOffer)
        BY <3>3, <3>4, <1>s, OfferOf DEF WriteEntry
      <3> QED
        BY <3>1, <3>5, <1>w, <1>t
    <2>6. CASE StopServer(i)
      <3>1. i \in UpSet /\ UpSet' = UpSet \ {i} /\ OnOffer' = OnOffer
        BY <2>6, <2>i, OfferOf DEF StopServer, UpInv, UpSet, TypeOK
      <3>2. env \subseteq {"overlap"} => i \notin OnOffer
        BY <2>6 DEF StopServer, DiscoveryInv, OnlineInv, OnOffer
      <3> QED
        BY <3>1, <3>2, <1>g
    <2>7. CASE StopReturns(i)
      <3>1. UpSet' = UpSet /\ OnOffer' = OnOffer
        BY <2>7, <2>i, OfferOf DEF StopReturns, UpInv, UpSet, TypeOK
      <3> QED
        BY <3>1, <1>t
    <2>8. CASE Serve(i)
      <3>1. UpSet' = UpSet /\ OnOffer' = OnOffer
        BY <2>8, <2>i, OfferOf DEF Serve, UpInv, UpSet, TypeOK
      <3> QED
        BY <3>1, <1>t
    <2>9. CASE CancelEarly(i)
      <3>1. "early" \in env
        BY <2>9 DEF CancelEarly
      <3>2. UpSet' = UpSet \ {i} /\ (OnOffer' = OnOffer \/ (serving[i] = "registering" /\ OnOffer' = {i}))
        BY <2>9, <2>i, OfferOf DEF CancelEarly, UpSet, TypeOK
      <3>3. CASE i \in UpSet
        BY <3>1, <3>2, <3>3, <1>g
      <3>4. CASE i \notin UpSet
        <4>1. UpSet' = UpSet /\ serving[i] # "registering"
          BY <2>9, <2>i, <3>2, <3>4 DEF CancelEarly, UpInv, UpSet
        <4> QED
          BY <3>2, <4>1, <1>t
      <3> QED
        BY <3>3, <3>4
    <2>10. CASE Crash(i)
      <3>1. "crashes" \in env /\ UpSet' = UpSet \ {i} /\ OnOffer' = OnOffer
        BY <2>10, <2>i, OfferOf DEF Crash, UpSet, TypeOK
      <3>2. CASE i \in UpSet
        BY <3>1, <3>2, <1>g
      <3>3. CASE i \notin UpSet
        BY <3>1, <3>3, <1>t
      <3> QED
        BY <3>2, <3>3
    <2> QED
      BY <2>1, <2>2, <2>3, <2>4, <2>5, <2>6, <2>7, <2>8, <2>9, <2>10 DEF Progress, Environment
  <1> QED
    BY <1>1, <1>2

\* For any set of instances and in any deployment, the platform sees Discovery: it is led to an
\* instance that accepts calls, and no instance stops while it is on offer unless something fails.
THEOREM Implementation == Spec => ImplementsDiscovery
  <1>1. Init => DiscoveryInv /\ Promise!Init
    BY InitType, InitServing, InitOnline, InitDiscovery DEF DiscoveryInv
  <1>2. DiscoveryInv /\ [Next]_vars => DiscoveryInv'
    BY StepType, StepServing, StepOnline, StepEnv DEF DiscoveryInv
  <1>3. DiscoveryInv /\ [Next]_vars => [Promise!Next]_(Promise!vars)
    BY StepDiscovery
  <1> QED
    BY <1>1, <1>2, <1>3, PTL DEF Spec, ImplementsDiscovery, Promise!Spec

\* What Discovery is good for: in an orderly deployment the platform is never led to an
\* instance that does not accept calls.  This follows from the four abstract actions alone.
THEOREM OfferedIsUp == Promise!Spec => [](Promise!Orderly => OnOffer \subseteq UpSet)
  <1> DEFINE Safe == Promise!Orderly => OnOffer \subseteq UpSet
  <1>1. Promise!Init => Safe
    BY DEF Promise!Init
  <1>2. Safe /\ [Promise!Next]_(Promise!vars) => Safe'
    <2> SUFFICES ASSUME Safe, [Promise!Next]_(Promise!vars) PROVE Safe'
      OBVIOUS
    <2> USE DEF Promise!Orderly, UpSet
    <2>1. CASE UNCHANGED Promise!vars
      BY <2>1 DEF Promise!vars
    <2>2. ASSUME NEW i \in Instances, Promise!Comes(i) PROVE Safe'
      BY <2>2 DEF Promise!Comes
    <2>3. ASSUME NEW i \in Instances, Promise!Offered(i) PROVE Safe'
      BY <2>3 DEF Promise!Offered
    <2>4. ASSUME NEW i \in Instances, Promise!Goes(i) PROVE Safe'
      BY <2>4 DEF Promise!Goes
    <2>5. CASE Promise!Withdrawn
      BY <2>5 DEF Promise!Withdrawn
    <2> QED
      BY <2>1, <2>2, <2>3, <2>4, <2>5 DEF Promise!Next
  <1> QED
    BY <1>1, <1>2, PTL DEF Promise!Spec
=============================================================================
