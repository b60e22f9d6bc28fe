----------------------------- MODULE MCRealtime -----------------------------
(***************************************************************************)
(* A small instance of Realtime for TLC: one trade page, and two sockets   *)
(* of one client, the second a reconnection under the same id.             *)
(***************************************************************************)
EXTENDS Realtime

CONSTANTS p1, w1, w2

OneIdForBoth == [ws \in Sockets |-> IF ws = p1 THEN p1 ELSE w1]
=============================================================================
