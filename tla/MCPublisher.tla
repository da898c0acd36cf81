----------------------------- MODULE MCPublisher -----------------------------
(***************************************************************************)
(* Model checking of Publisher on small instances.                         *)
(***************************************************************************)
EXTENDS Publisher
=============================================================================
