---------------------------- MODULE MCDistGroup ----------------------------
(***************************************************************************)
(* Two local objects l1, l2 and two remote ones r1, r2 for TLC.            *)
(***************************************************************************)
EXTENDS DistGroup

CONSTANTS l1, l2, r1, r2
=============================================================================
