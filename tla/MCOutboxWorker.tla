--------------------------- MODULE MCOutboxWorker ---------------------------
(***************************************************************************)
(* Small instances of OutboxWorker for TLC.                                *)
(***************************************************************************)
EXTENDS OutboxWorker, TLC

CONSTANTS w1, w2, t1, e1, d1, s1

\* One subscription, which listens to every event.
MCSubOf   == [d \in Deliveries |-> s1]
MCListens == [e \in Events |-> Subs]
=============================================================================
