------------------------- MODULE MCEdgeRegistration -------------------------
(***************************************************************************)
(* EdgeRegistration for TLC: two adapters of one vendor.                   *)
(***************************************************************************)
EXTENDS EdgeRegistration
=============================================================================
