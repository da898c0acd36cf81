----------------------------- MODULE MCConnector -----------------------------
(***************************************************************************)
(* Connector for TLC.                                                      *)
(***************************************************************************)
EXTENDS Connector
=============================================================================
