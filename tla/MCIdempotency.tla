--------------------------- MODULE MCIdempotency ---------------------------
(***************************************************************************)
(* Small instances of Idempotency for TLC.                                 *)
(***************************************************************************)
EXTENDS Idempotency, TLC

CONSTANTS r1, r2, r3, r4, k1, A, B

\* r3 uses the key with another payload.
MCPayloadOf == [r \in Requests |-> IF r = r3 THEN B ELSE A]
MCKeyOf     == [r \in Requests |-> k1]

=============================================================================
