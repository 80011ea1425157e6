--------------------------- MODULE MCJsonrpc2Conn ---------------------------
(***************************************************************************)
(* Jsonrpc2Conn for TLC.  The requests q1 and q2 are calls with the same   *)
(* ID, so that IDs are reused and clash; n is a notification.              *)
(***************************************************************************)
EXTENDS Jsonrpc2Conn

CONSTANTS q1, q2, id1

MCIdOf == [q \in Reqs |-> IF q \in {q1, q2} THEN id1 ELSE NoID]
=============================================================================
