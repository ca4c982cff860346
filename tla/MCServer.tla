------------------------------ MODULE MCServer ------------------------------
(***************************************************************************)
(* A small instance of Server for TLC, without symmetry because it checks  *)
(* liveness too.  With MaxOpen = m at most m + 1 connections are counted   *)
(* and at most one more per worker is closing, so Conn never runs out of   *)
(* names when it has MaxOpen + 1 + #Worker of them.                        *)
(***************************************************************************)
EXTENDS Server

CONSTANTS w1, w2, c1, c2, c3, c4

MCWorker == {w1, w2}
MCConn == {c1, c2, c3, c4}
=============================================================================
