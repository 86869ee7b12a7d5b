--------------------------- MODULE MCCashRegister ---------------------------
(***************************************************************************)
(* Small instances of CashRegister for TLC.                                *)
(***************************************************************************)
EXTENDS CashRegister, TLC

CONSTANTS q1, q2, q3, c1, c2, k1, p1, p2

RequestSymmetry ==
    Permutations(Sellers) \cup Permutations(Cancellers) \cup Permutations(Periods)
=============================================================================
