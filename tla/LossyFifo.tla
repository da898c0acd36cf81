------------------------------ MODULE LossyFifo ------------------------------
(***************************************************************************)
(* What a streaming publisher of the SDK promises to its callers, and no   *)
(* more: frames are numbered in the order they are offered, each is        *)
(* delivered at most once, and delivery never goes back in the order.      *)
(* Any frame that is still pending may be lost at any time, and an offered *)
(* frame need not be accepted at all.  Publisher implements this module.   *)
(***************************************************************************)
EXTENDS Naturals, Sequences

CONSTANT MaxFrames      \* bound on the frames offered

VARIABLES
    offered,            \* number of frames offered so far
    pending,            \* accepted frames, neither delivered nor lost
    delivered           \* the frames delivered, in order

vars == <<offered, pending, delivered>>

TypeOK ==
    /\ offered \in 0..MaxFrames
    /\ pending \in SUBSET (1..offered)
    /\ delivered \in Seq(1..offered)

Init ==
    /\ offered = 0
    /\ pending = {}
    /\ delivered = <<>>

\* The next frame is offered; it may be refused.
Offer ==
    /\ offered < MaxFrames
    /\ offered' = offered + 1
    /\ pending' \in {pending, pending \cup {offered + 1}}
    /\ UNCHANGED delivered

\* The oldest pending frame is delivered.
Deliver ==
    \E f \in pending :
        /\ \A g \in pending : f <= g
        /\ delivered' = Append(delivered, f)
        /\ pending' = pending \ {f}
        /\ UNCHANGED offered

\* Pending frames are lost.
Lose ==
    /\ pending' \in SUBSET pending
    /\ UNCHANGED <<offered, delivered>>

Next == Offer \/ Deliver \/ Lose

Spec == Init /\ [][Next]_vars

(***************************************************************************)
(* Delivered frames are strictly increasing: order of publication, and no  *)
(* duplicate.                                                              *)
(***************************************************************************)
InOrder ==
    \A i, j \in 1..Len(delivered) : i < j => delivered[i] < delivered[j]
=============================================================================
