---------------------------- MODULE MCConnection ----------------------------
(***************************************************************************)
(* Instances of Connection for TLC.  The configurations give the bounds:   *)
(* two requests and two pieces are the least that let a second write start *)
(* while the first is incomplete.                                          *)
(***************************************************************************)
EXTENDS Connection
=============================================================================
