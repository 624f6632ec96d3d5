--------------------------- MODULE MCConnections ---------------------------
(***************************************************************************)
(* Connections of two servers, 0 and 1, for TLC: delServer treats the two  *)
(* differently.                                                            *)
(***************************************************************************)
EXTENDS Connections

ASSUME ConnAssumption

McServerId == {0, 1}
=============================================================================
