------------------------------ MODULE WorkQueue ------------------------------
(***************************************************************************)
(* What the outbox promises to those who put work into it: an at-least-    *)
(* once queue.  An item that was submitted is open until it is finished,   *)
(* it is finished only when its work has been done, and then for good: the *)
(* work is not done again.  Items may be withdrawn.  Only an item that has *)
(* become shared by two workers may be done again or reopened.             *)
(***************************************************************************)
EXTENDS Naturals

CONSTANTS Items

VARIABLES
    state,   \* where each item is
    done,    \* how often its work was done
    shared   \* items that more than one worker may have

vars == <<state, done, shared>>

States == {"none", "open", "finished", "withdrawn"}

Init ==
    /\ state = [i \in Items |-> "none"]
    /\ done = [i \in Items |-> 0]
    /\ shared = {}

\* The items of S move from the states in `from` to the state `to`.
Move(S, from, to) ==
    /\ \A i \in S : state[i] \in from
    /\ state' = [i \in Items |-> IF i \in S THEN to ELSE state[i]]

Submit(S) == Move(S, {"none"}, "open") /\ UNCHANGED <<done, shared>>

\* The work of i is done, which may submit the items of S.
Perform(i, S) ==
    /\ state[i] \in {"open", "withdrawn"} \/ (state[i] = "finished" /\ i \in shared)
    /\ done' = [done EXCEPT ![i] = @ + 1]
    /\ Move(S, {"none"}, "open")
    /\ UNCHANGED shared

Finish(i) == done[i] >= 1 /\ Move({i}, {"open"}, "finished") /\ UNCHANGED <<done, shared>>

Reopen(i) == i \in shared /\ Move({i}, {"finished"}, "open") /\ UNCHANGED <<done, shared>>

Withdraw(S) ==
    Move(S, {"open", "finished", "withdrawn"}, "withdrawn") /\ UNCHANGED <<done, shared>>

Share(S) ==
    /\ \A i \in S : state[i] # "none"
    /\ shared' = shared \cup S
    /\ UNCHANGED <<state, done>>

Next ==
    \/ \E S \in SUBSET Items :
          \/ Submit(S) \/ Withdraw(S) \/ Share(S)
          \/ \E i \in Items : Perform(i, S)
    \/ \E i \in Items : Finish(i) \/ Reopen(i)

Spec == Init /\ [][Next]_vars
=============================================================================
