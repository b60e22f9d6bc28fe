------------------------------ MODULE MCHistory ------------------------------
(***************************************************************************)
(* Small instance of History for TLC.                                      *)
(***************************************************************************)
EXTENDS History

CONSTANTS o1, p1, p2
=============================================================================
