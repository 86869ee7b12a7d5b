------------------------------ MODULE MCAccess ------------------------------
(***************************************************************************)
(* A small instance of Access for TLC.                                     *)
(***************************************************************************)
EXTENDS Access, TLC

CONSTANTS q1, q2, ann, owner, admin, p1, p2
=============================================================================
