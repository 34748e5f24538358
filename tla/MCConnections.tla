---------------------------- MODULE MCConnections ----------------------------
(***************************************************************************)
(* Two LVEs of one tool, started with any of the two streams closed, in a    *)
(* table of ten descriptors: two connections fit, and what failed starts     *)
(* leave open can fill it.                                                   *)
(***************************************************************************)
EXTENDS Connections
=============================================================================
