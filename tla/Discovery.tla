------------------------------ MODULE Discovery ------------------------------
(***************************************************************************)
(* What the adapters of a vendor promise to the platform, which finds them *)
(* through the registry, and no more: an instance is offered only once it  *)
(* accepts calls, offers are withdrawn only by an instance that does, and  *)
(* in an orderly deployment an instance goes only when it is not the one   *)
(* on offer.  Any offer may be replaced or withdrawn by another instance.  *)
(* EdgeRegistration implements this module.                                *)
(***************************************************************************)
CONSTANT Instances      \* the adapters of the vendor

VARIABLES
    env,                \* what may happen in the deployment; never changes
    up,                 \* the instances that accept calls and are healthy
    found               \* the instance on offer: none or one

vars == <<env, up, found>>

\* No instance dies, no call of the registry fails, and none is stopped while it starts.
Orderly == env \subseteq {"overlap"}

Init ==
    /\ env \subseteq {"overlap", "crashes", "faults", "early"}
    /\ up = {}
    /\ found = {}

\* An instance comes up, beside others only if instances may overlap.
Comes(i) ==
    /\ i \notin up
    /\ "overlap" \in env \/ up = {}
    /\ up' = up \cup {i}
    /\ UNCHANGED <<env, found>>

\* An instance is offered that is up, or that was stopped while it registered.
Offered(i) ==
    /\ i \in up \/ "early" \in env
    /\ found' = {i}
    /\ UNCHANGED <<env, up>>

\* An instance that is about to go withdraws the offer, also that of another.  It is up,
\* or it is stopped while it starts.
Withdrawn ==
    /\ up # {} \/ "early" \in env
    /\ found' = {}
    /\ UNCHANGED <<env, up>>

\* An instance goes; one that is cancelled while it registers may be offered all the same.
Goes(i) ==
    /\ i \in up
    /\ Orderly => i \notin found
    /\ up' = up \ {i}
    /\ found' = found \/ ("early" \in env /\ found' = {i})
    /\ UNCHANGED env

Next == (\E i \in Instances : Comes(i) \/ Offered(i) \/ Goes(i)) \/ Withdrawn

Spec == Init /\ [][Next]_vars
=============================================================================
