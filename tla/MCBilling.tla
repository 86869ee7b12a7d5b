------------------------------ MODULE MCBilling ------------------------------
(***************************************************************************)
(* Small instances of Billing for TLC.                                     *)
(***************************************************************************)
EXTENDS Billing, TLC

CONSTANTS h1, h2, s1, s2, basic, pro, e1, e2, c1, c2, i1

Symmetry ==
    Permutations(Handlers) \cup Permutations(SubIds) \cup Permutations(Plans)
        \cup Permutations(StripeSubs) \cup Permutations(Changes)
=============================================================================
