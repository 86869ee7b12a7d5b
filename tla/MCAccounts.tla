----------------------------- MODULE MCAccounts -----------------------------
(***************************************************************************)
(* A small instance of Accounts for TLC.                                   *)
(***************************************************************************)
EXTENDS Accounts, TLC

CONSTANTS r1, r2, r3, ann, bob, t1, t2, t3, i1, k1

Symmetry ==
    Permutations(Requests) \cup Permutations(Emails) \cup Permutations(Tokens)
=============================================================================
