----------------------------- MODULE MCProviders -----------------------------
(***************************************************************************)
(* A small instance of Providers for TLC.                                  *)
(***************************************************************************)
EXTENDS Providers, TLC

CONSTANTS q1, q2, p1, p2, p3, test, live
=============================================================================
