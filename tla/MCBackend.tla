------------------------------ MODULE MCBackend ------------------------------
(***************************************************************************)
(* Small instances of Backend for TLC: one user who signs up and makes one *)
(* call, or two users who sign up on two servers.                          *)
(***************************************************************************)
EXTENDS Backend

CONSTANTS s1, s2, u1, u2, o1

OfTheUser == [c \in Orders |-> u1]
=============================================================================
