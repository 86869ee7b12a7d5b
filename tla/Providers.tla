------------------------------ MODULE Providers ------------------------------
(***************************************************************************)
(* The providers a platform administrator configures, and which of them is *)
(* the default of its type and environment: platform/providers.py.         *)
(*                                                                         *)
(* A provider that is saved as the default first clears is_default of all  *)
(* others of its slot, with one UPDATE.  Whatever a transaction has        *)
(* updated stays locked until it ends and invisible to others until it     *)
(* commits; the UPDATE works on the rows that were committed when it       *)
(* started, and looks at each of them again once it has its lock.  No      *)
(* constraint of the table concerns is_default.                            *)
(***************************************************************************)
EXTENDS Integers, FiniteSets

CONSTANTS
    Requests,   \* requests in progress at a time
    Providers,  \* rows of core_provider_configs
    Slots,      \* pairs of a provider_type and an environment
    First,      \* providers that exist from the start, none the default ...
    Home,       \* ... and their slot
    MaxOps,     \* bound: requests that are begun
    NoRow, Nobody

Row == [slot : Slots, default : BOOLEAN, active : BOOLEAN,
        test : {"none", "success", "failed"}]

ASSUME ConstantsAssumption ==
    /\ First \subseteq Providers /\ Home \in Slots
    /\ Nobody \notin Requests \cup Providers /\ NoRow \notin Row
    /\ MaxOps \in Nat

VARIABLES
    rows,        \* what is committed
    lock,        \* the request whose transaction holds a row
    tx,          \* requests in progress
    ops,         \* requests begun so far
    chosen,      \* history: the provider last saved as the default of each slot
    contended,   \* history: slots of two saves that overlapped in a slot or a provider
    unguarded    \* history: those where one of the two inserted or moved a provider

history == <<chosen, contended, unguarded>>
vars    == <<rows, lock, tx, ops, history>>

\* What a request holds: its provider as it was read and as it will be, whether any
\* column of it was changed, the rows its UPDATE has still to look at, and those it has
\* cleared and locked.
Tx == [op : {"none", "save", "test", "switch"}, me : Providers \cup {Nobody},
       old : Row \cup {NoRow}, new : Row \cup {NoRow}, writes : BOOLEAN, started : BOOLEAN,
       todo : SUBSET Providers, cleared : SUBSET Providers]

Idle == [op |-> "none", me |-> Nobody, old |-> NoRow, new |-> NoRow,
         writes |-> FALSE, started |-> FALSE, todo |-> {}, cleared |-> {}]

Init ==
    /\ rows = [p \in Providers |->
                 IF p \in First THEN [slot |-> Home, default |-> FALSE,
                                      active |-> TRUE, test |-> "none"]
                 ELSE NoRow]
    /\ lock = [p \in Providers |-> Nobody]
    /\ tx = [q \in Requests |-> Idle]
    /\ ops = 0
    /\ chosen = [s \in Slots |-> Nobody]
    /\ contended = {} /\ unguarded = {}

-----------------------------------------------------------------------------
(* Helpers *)

In(s) == {p \in Providers : rows[p] # NoRow /\ rows[p].slot = s}

Defaults(s) == {p \in In(s) : rows[p].default}

\* update_provider and create_provider look at is_default as they leave it.
Clears(q) == tx[q].op = "save" /\ tx[q].new.default

\* The slots whose default q has a say in.
Touches(q) ==
    IF tx[q].op # "save" THEN {}
    ELSE {tx[q].new.slot} \cup (IF tx[q].old = NoRow THEN {} ELSE {tx[q].old.slot})

\* q inserts its row, or moves it to another slot.
Moves(q) == tx[q].op = "save" /\ (tx[q].old = NoRow \/ tx[q].old.slot # tx[q].new.slot)

\* Mutant: every column is written, as it was read.
MergeAll(row, old, new) == new

\* UPDATE with the columns that were changed.
Merge(row, old, new) == [c \in DOMAIN row |-> IF new[c] # old[c] THEN new[c] ELSE row[c]]

\* The transaction of q ends.
Release(q) ==
    /\ lock' = [p \in Providers |-> IF lock[p] = q THEN Nobody ELSE lock[p]]
    /\ tx' = [tx EXCEPT ![q] = Idle]

\* A request that leaves these columns alone may write others, or none; a test has
\* its time to write.
Begin(q, op, p, new) ==
    /\ tx[q].op = "none"
    /\ ops < MaxOps
    /\ ops' = ops + 1
    /\ \E writes \in {TRUE, op = "test" \/ new # rows[p]} :
          tx' = [tx EXCEPT ![q] = [Idle EXCEPT !.op = op, !.me = p, !.old = rows[p],
                                              !.new = new, !.writes = writes]]
    /\ UNCHANGED <<rows, lock, history>>

-----------------------------------------------------------------------------
(* Requests *)

\* The row is inserted at once, and locked; the others are cleared after it.
CreateProvider(q, p, s, default) ==
    /\ rows[p] = NoRow /\ \A k \in Requests : tx[k].me # p
    /\ Begin(q, "save", p, [slot |-> s, default |-> default, active |-> TRUE,
                            test |-> "none"])

\* Any edit of a provider that is the default clears the others again.
UpdateProvider(q, p, s, default, active) ==
    /\ rows[p] # NoRow
    /\ Begin(q, "save", p, [rows[p] EXCEPT !.slot = s, !.default = default,
                                           !.active = active])

\* An inactive provider fails the test, and one whose credentials are empty.
TestProvider(q, p, credentials) ==
    /\ rows[p] # NoRow
    /\ Begin(q, "test", p, [rows[p] EXCEPT
                !.test = IF rows[p].active /\ credentials THEN "success" ELSE "failed"])

\* activate_provider and deactivate_provider
SetActive(q, p, active) ==
    /\ rows[p] # NoRow
    /\ Begin(q, "switch", p, [rows[p] EXCEPT !.active = active])

\* UPDATE ... SET is_default = false of the others in the slot starts.
StartClearing(q) ==
    /\ Clears(q) /\ ~tx[q].started
    /\ tx' = [tx EXCEPT ![q].started = TRUE,
                        ![q].todo = In(tx[q].new.slot) \ {tx[q].me}]
    /\ UNCHANGED <<rows, lock, ops, history>>

\* Its next row is locked and cleared, if it still belongs to the slot.
ClearRow(q, p) ==
    LET matches == rows[p].slot = tx[q].new.slot IN
    /\ p \in tx[q].todo /\ lock[p] = Nobody
    /\ tx' = [tx EXCEPT ![q].todo = @ \ {p},
                        ![q].cleared = IF matches THEN @ \cup {p} ELSE @]
    /\ lock' = IF matches THEN [lock EXCEPT ![p] = q] ELSE lock
    /\ UNCHANGED <<rows, ops, history>>

\* Mutant: the other providers are not cleared.
CommitAlone(q) ==
    LET t == tx[q] IN
    /\ t.op # "none"
    /\ Clears(q) => t.started /\ t.todo = {}
    /\ t.writes => lock[t.me] = Nobody
    /\ rows' = [rows EXCEPT ![t.me] = IF t.old = NoRow THEN t.new ELSE Merge(@, t.old, t.new)]
    /\ Release(q)
    /\ UNCHANGED <<ops, history>>

\* The row itself is updated last, when nobody holds it, if there is something to write.
Commit(q) ==
    LET t      == tx[q]
        others == {k \in Requests \ {q} :
                      /\ t.op = "save" /\ tx[k].op = "save"
                      /\ tx[k].me = t.me \/ Touches(q) \cap Touches(k) # {}}
    IN
    /\ t.op # "none"
    /\ Clears(q) => t.started /\ t.todo = {}
    /\ t.writes => lock[t.me] = Nobody
    /\ rows' = [p \in Providers |->
                  IF p = t.me THEN IF t.old = NoRow THEN t.new ELSE Merge(rows[p], t.old, t.new)
                  ELSE IF p \in t.cleared THEN [rows[p] EXCEPT !.default = FALSE]
                  ELSE rows[p]]
    /\ chosen' = [s \in Slots |->
                    IF Clears(q) /\ s = t.new.slot THEN t.me
                    ELSE IF t.op = "save" /\ chosen[s] = t.me THEN Nobody
                    ELSE chosen[s]]
    /\ contended' = contended \cup UNION {Touches(q) \cup Touches(k) : k \in others}
    /\ unguarded' = unguarded \cup UNION {Touches(q) \cup Touches(k) :
                                            k \in {j \in others : Moves(q) \/ Moves(j)}}
    /\ Release(q)
    /\ UNCHANGED ops

\* Mutant: the session is not closed.
AbortKeepingLocks(q) ==
    /\ tx[q].op # "none"
    /\ tx' = [tx EXCEPT ![q] = Idle]
    /\ UNCHANGED <<rows, lock, ops, history>>

\* The request fails or its process dies: get_db closes the session, which rolls back.
Abort(q) ==
    /\ tx[q].op # "none"
    /\ Release(q)
    /\ UNCHANGED <<rows, ops, history>>

-----------------------------------------------------------------------------
(* Deadlocks *)

\* The rows that q needs next.
Needs(q) ==
    IF tx[q].op = "none" \/ (Clears(q) /\ ~tx[q].started) THEN {}
    ELSE IF tx[q].todo # {} THEN tx[q].todo
    ELSE {p \in {tx[q].me} : tx[q].writes}

WaitsFor(q) == {lock[p] : p \in Needs(q)} \ {Nobody, q}

\* The requests in S wait for each other, and no fewer do.
Cycle(S) ==
    LET closed(T) == \A k \in T : WaitsFor(k) \cap T # {} IN
    closed(S) /\ \A T \in SUBSET S \ {{}, S} : ~closed(T)

\* The database ends one of the transactions that wait for each other.
DeadlockDetected(q) ==
    /\ \E S \in SUBSET Requests : q \in S /\ Cycle(S)
    /\ Release(q)
    /\ UNCHANGED <<rows, ops, history>>

-----------------------------------------------------------------------------
Request(q) ==
    \E p \in Providers :
        \/ \E s \in Slots, default \in BOOLEAN : CreateProvider(q, p, s, default)
        \/ \E s \in Slots, default \in BOOLEAN, active \in BOOLEAN :
              UpdateProvider(q, p, s, default, active)
        \/ \E b \in BOOLEAN : TestProvider(q, p, b) \/ SetActive(q, p, b)

Advance(q) == StartClearing(q) \/ (\E p \in Providers : ClearRow(q, p)) \/ Commit(q)

Next == \E q \in Requests : Request(q) \/ Advance(q) \/ Abort(q) \/ DeadlockDetected(q)

\* A request that is not waiting goes on; the database looks for deadlocks.
Fairness == \A q \in Requests : WF_vars(Advance(q)) /\ WF_vars(DeadlockDetected(q))

Spec == Init /\ [][Next]_vars /\ Fairness

-----------------------------------------------------------------------------
(* Properties *)

\* Every variable keeps its type, and a lock belongs to a request in progress.
TypeOK ==
    /\ rows \in [Providers -> Row \cup {NoRow}]
    /\ lock \in [Providers -> Requests \cup {Nobody}]
    /\ \A p \in Providers : lock[p] # Nobody => p \in tx[lock[p]].cleared
    /\ tx \in [Requests -> Tx]
    /\ ops \in 0..MaxOps
    /\ chosen \in [Slots -> Providers \cup {Nobody}]
    /\ unguarded \subseteq contended /\ contended \subseteq Slots

\* A slot has at most one default, however many providers of it are made the default
\* at a time: the row locks decide.  Only an insertion, which nobody else sees, or a
\* move from another slot may leave two when it overlaps with another save.
OneDefault == \A s \in Slots \ unguarded : Cardinality(Defaults(s)) <= 1

\* The default of a slot is the provider last saved as such, until that one is saved
\* otherwise; saves that overlap may leave none.
DefaultKept ==
    \A s \in Slots \ contended :
        Defaults(s) = IF chosen[s] = Nobody THEN {} ELSE {chosen[s]}

\* Requests that wait for each other's rows do not wait for ever.
RequestsEnd == \A q \in Requests : tx[q].op # "none" ~> tx[q].op = "none"
-----------------------------------------------------------------------------
(* The inductive invariant behind OneDefault and DefaultKept *)

\* What a request holds in each operation; only a default is cleared for.
Shaped(t) ==
    /\ t.op # "none" => t.me \in Providers /\ t.new \in Row /\ (t.writes \/ t.new = t.old)
    /\ t.op \in {"test", "switch"} =>
          t.old \in Row /\ t.new.slot = t.old.slot /\ t.new.default = t.old.default
    /\ t.todo \cup t.cleared # {} => t.op = "save" /\ t.new.default /\ t.started

TxShape == \A q \in Requests : Shaped(tx[q])

\* A row the UPDATE has found is there; one that is cleared is locked, and stays in the
\* slot it was cleared in.
ClearedIsHeld ==
    \A q \in Requests :
        /\ \A p \in tx[q].todo : rows[p] # NoRow
        /\ \A p \in tx[q].cleared :
              lock[p] = q /\ rows[p] # NoRow /\ rows[p].slot = tx[q].new.slot

\* A row is there if it was read, and nobody knows the one that is being inserted.
OwnRow ==
    \A q \in Requests : tx[q].op # "none" =>
        IF tx[q].old # NoRow THEN rows[tx[q].me] # NoRow
        ELSE rows[tx[q].me] = NoRow /\ \A k \in Requests \ {q} : tx[k].me # tx[q].me

\* The UPDATE has every provider of its slot in view, but in slots that are unguarded.
AllInView ==
    \A q \in Requests : Clears(q) /\ tx[q].started /\ tx[q].new.slot \notin unguarded =>
        In(tx[q].new.slot) \subseteq {tx[q].me} \cup tx[q].todo \cup tx[q].cleared

\* All the slots a save knows, and the one its provider is in.
Around(q) == Touches(q) \cup {rows[tx[q].me].slot}

\* The copy a save has read is current, or another save of the provider was committed.
SlotIsFresh ==
    \A q \in Requests : tx[q].op = "save" /\ tx[q].old # NoRow =>
        \/ rows[tx[q].me].slot = tx[q].old.slot
        \/ Around(q) \subseteq unguarded

\* A provider that moves does not take along a default it has become meanwhile.
MoveIsFresh ==
    \A q \in Requests : Moves(q) /\ tx[q].old # NoRow /\ ~tx[q].old.default
                            /\ rows[tx[q].me].default => tx[q].new.slot \in unguarded

\* OneDefault, without counting.
Unique == \A s \in Slots \ unguarded : \A x, y \in Defaults(s) : x = y

\* As SlotIsFresh, for is_default as well.
CopyIsFresh ==
    \A q \in Requests : tx[q].op = "save" /\ tx[q].old # NoRow =>
        \/ /\ rows[tx[q].me].slot = tx[q].old.slot
           /\ rows[tx[q].me].default = tx[q].old.default
        \/ Around(q) \subseteq contended

\* Together with the properties they are inductive.
IInv ==
    /\ TypeOK
    /\ TxShape
    /\ ClearedIsHeld /\ OwnRow
    /\ AllInView /\ SlotIsFresh /\ MoveIsFresh /\ Unique
    /\ CopyIsFresh /\ DefaultKept
=============================================================================
