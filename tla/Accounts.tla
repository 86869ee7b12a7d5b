------------------------------ MODULE Accounts ------------------------------
(***************************************************************************)
(* The users of one tenant, the invitations that admit them, their refresh *)
(* tokens and the tenant's API keys: tenant_app/auth.py (platform/auth.py  *)
(* rotates the tokens of administrators in the same way),                  *)
(* tenant_app/users.py, tenant_app/invitations.py, accept_invitation of    *)
(* tenant_app/router.py, cleanup_expired_invitations of jobs/cleanup.py,   *)
(* tenant_app/api_keys.py and get_current_user of core/tenant_context.py.  *)
(*                                                                         *)
(* A request reads, and later commits once; it writes the columns that     *)
(* differ from what it read.  Login has a step in between: the UPDATE that *)
(* revokes the tokens it can see, whose rows stay locked until its commit. *)
(* A row that is gone cannot be updated, an email is inserted once.  The   *)
(* tenant is active throughout, its status is in Billing and Access.       *)
(***************************************************************************)
EXTENDS Integers, FiniteSets

CONSTANTS
    Requests,   \* requests in progress at a time
    Emails,     \* the unique key of the tenant's users
    Tokens,     \* rows of tenant_refresh_tokens
    Invites,    \* rows of tenant_invitations
    Keys,       \* rows of tenant_api_keys
    MaxOps,     \* bound: requests that are begun
    NoEmail, NoToken, NoInvite, NoKey, NoRow

\* "suspended" stands for every status but active and deleted.
User == [status : {"active", "suspended", "deleted"}, deleted : BOOLEAN]

Token == [state : {"none"}, user : {NoEmail}]
            \cup [state : {"live", "expired", "revoked"}, user : Emails]

Invitation ==
    [state : {"none"}, email : {NoEmail}, late : {FALSE}]
      \cup [state : {"pending", "accepted", "revoked", "expired", "gone"}, email : Emails,
            late : BOOLEAN]

\* A key whose date is past stays "active" until it is used.
ApiKey == [status : {"none", "active", "expired", "revoked", "gone"}, late : BOOLEAN]

ASSUME ConstantsAssumption ==
    /\ NoEmail \notin Emails /\ NoToken \notin Tokens /\ NoInvite \notin Invites
    /\ NoKey \notin Keys /\ NoRow \notin User \cup ApiKey
    /\ MaxOps \in Nat

VARIABLES
    users,        \* the user of each email
    tokens,       \* refresh tokens
    invitations,  \* invitations
    keys,         \* API keys
    tx,           \* what each request has read and will commit
    ops,          \* requests begun so far
    crossed,      \* history: users for whom two tokens were being issued at a time
    raced,        \* history: users committed while another request held a copy
    forked,       \* history: tokens ended while another request was exchanging them
    spent,        \* history: how often each token was exchanged or ended
    contested,    \* history: invitations settled while another request held a copy
    admitted,     \* history: how often each invitation has admitted its user
    withdrawn,    \* history: keys whose revocation was committed
    overtaken     \* history: keys written while another request held a copy

tables  == <<users, tokens, invitations, keys>>
keyPast == <<withdrawn, overtaken>>
history == <<crossed, raced, forked, spent, contested, admitted, keyPast>>
vars    == <<tables, tx, ops, history>>

\* What a request holds: the copy it read, what it will write, the tokens and locks.
Tx == [op : {"none", "login", "revoking", "refresh", "user", "accept", "settle", "key"},
       user : Emails \cup {NoEmail}, old : User \cup ApiKey \cup {NoRow},
       new : User \cup ApiKey \cup {NoRow}, token : Tokens \cup {NoToken},
       takes : SUBSET Tokens, waits : SUBSET Requests, invite : Invites \cup {NoInvite},
       outcome : {"none", "accepted", "revoked", "expired"}, key : Keys \cup {NoKey}]

Idle == [op |-> "none", user |-> NoEmail, old |-> NoRow, new |-> NoRow,
         token |-> NoToken, takes |-> {}, waits |-> {},
         invite |-> NoInvite, outcome |-> "none", key |-> NoKey]

\* create_tenant leaves one active user, the owner.
Init ==
    /\ \E owner \in Emails :
          users = [e \in Emails |-> IF e = owner THEN [status |-> "active", deleted |-> FALSE]
                                    ELSE NoRow]
    /\ tokens = [t \in Tokens |-> [state |-> "none", user |-> NoEmail]]
    /\ invitations = [i \in Invites |-> [state |-> "none", email |-> NoEmail, late |-> FALSE]]
    /\ keys = [k \in Keys |-> [status |-> "none", late |-> FALSE]]
    /\ tx = [r \in Requests |-> Idle]
    /\ ops = 0
    /\ crossed = {} /\ raced = {} /\ forked = {} /\ contested = {}
    /\ spent = [t \in Tokens |-> 0]
    /\ admitted = [i \in Invites |-> 0]
    /\ withdrawn = {} /\ overtaken = {}

-----------------------------------------------------------------------------
(* Helpers *)

Others(r) == Requests \ {r}

\* get_current_user, login and refresh ask for an active user.
Active(e) == users[e] # NoRow /\ users[e].status = "active"

\* A user that the filter deleted_at == None finds.
Present(e) == users[e] # NoRow /\ ~users[e].deleted

Unrevoked(e) == {t \in Tokens : tokens[t].user = e /\ tokens[t].state \in {"live", "expired"}}

\* Rows that the UPDATE of a login which has not committed holds.
Locked == UNION {IF tx[r].waits = {} THEN tx[r].takes ELSE {} : r \in Requests}

Begin(r, t) ==
    /\ tx[r].op = "none"
    /\ ops < MaxOps
    /\ ops' = ops + 1
    /\ tx' = [tx EXCEPT ![r] = t]
    /\ UNCHANGED <<tables, history>>

\* The request ends, whoever waited for its locks goes on.
End(r) == tx' = [k \in Requests |-> IF k = r THEN Idle
                                    ELSE [tx[k] EXCEPT !.waits = @ \ {r}]]

\* Mutant: every column is written, as it was read.
MergeAll(row, old, new) == new

\* UPDATE with the columns that were changed.
Merge(row, old, new) == [c \in DOMAIN row |-> IF new[c] # old[c] THEN new[c] ELSE row[c]]

\* The user that r read is updated, or, had r found none, inserted.
WriteUser(r) ==
    LET e == tx[r].user IN
    /\ tx[r].old = NoRow => users[e] = NoRow
    /\ users' = [users EXCEPT ![e] = IF tx[r].old = NoRow THEN tx[r].new
                                     ELSE Merge(@, tx[r].old, tx[r].new)]
    /\ raced' = raced \cup {u \in {e} : \E k \in Others(r) : tx[k].user = u /\ tx[k].old # NoRow}

\* The tokens in S are revoked, n becomes the user's new one.
Issue(r, S, n) ==
    LET e == tx[r].user IN
    /\ tokens[n].state = "none"
    /\ tokens' = [t \in Tokens |-> IF t = n THEN [state |-> "live", user |-> e]
                                   ELSE IF t \in S THEN [tokens[t] EXCEPT !.state = "revoked"]
                                   ELSE tokens[t]]
    /\ crossed' = crossed \cup {u \in {e} : \E k \in Others(r) : tx[k].user = u
                                              /\ tx[k].op \in {"revoking", "refresh"}}

\* History: r ends or exchanges the tokens in S.
Spend(r, S) ==
    /\ spent' = [t \in Tokens |-> IF t \in S THEN spent[t] + 1 ELSE spent[t]]
    /\ forked' = forked \cup {t \in S : \E k \in Others(r) : tx[k].token = t}

-----------------------------------------------------------------------------
(* Sessions *)

\* The password is right and the account active; then the password is hashed.
Login(r, e) ==
    /\ Active(e)
    /\ Begin(r, [Idle EXCEPT !.op = "login", !.user = e])

\* UPDATE ... WHERE user_id = ... AND is_revoked = false sees what is committed,
\* and waits for the rows that another login has updated.
RevokeTokens(r) ==
    /\ tx[r].op = "login"
    /\ LET S == Unrevoked(tx[r].user) IN
       tx' = [tx EXCEPT ![r].op = "revoking", ![r].takes = S,
                        ![r].waits = {k \in Others(r) : tx[k].takes \cap S # {}}]
    /\ UNCHANGED <<tables, ops, history>>

\* Mutant: the other tokens are kept.
CommitLoginKeeping(r, n) ==
    /\ tx[r].op = "revoking" /\ tx[r].waits = {}
    /\ Issue(r, {}, n)
    /\ Spend(r, {})
    /\ End(r)
    /\ UNCHANGED <<users, invitations, keys, ops, raced, contested, admitted, keyPast>>

CommitLogin(r, n) ==
    /\ tx[r].op = "revoking" /\ tx[r].waits = {}
    /\ Issue(r, tx[r].takes, n)
    /\ Spend(r, tx[r].takes \cap Unrevoked(tx[r].user))
    /\ End(r)
    /\ UNCHANGED <<users, invitations, keys, ops, raced, contested, admitted, keyPast>>

\* Mutant: the filter on is_revoked is missing.
RefreshRevoked(r, t) ==
    /\ tokens[t].state \in {"live", "revoked"}
    /\ Active(tokens[t].user)
    /\ Begin(r, [Idle EXCEPT !.op = "refresh", !.user = tokens[t].user, !.token = t])

\* Mutant: the new token is not given a user.
RefreshAnonymous(r, t) ==
    /\ tokens[t].state = "live"
    /\ Active(tokens[t].user)
    /\ Begin(r, [Idle EXCEPT !.op = "refresh", !.token = t])

\* The token is neither revoked nor expired and its user is active.
Refresh(r, t) ==
    /\ tokens[t].state = "live"
    /\ Active(tokens[t].user)
    /\ Begin(r, [Idle EXCEPT !.op = "refresh", !.user = tokens[t].user, !.token = t])

\* is_revoked = true is written whatever has become of the row meanwhile.
CommitRefresh(r, n) ==
    /\ tx[r].op = "refresh"
    /\ tx[r].token \notin Locked
    /\ Issue(r, {tx[r].token}, n)
    /\ Spend(r, {tx[r].token})
    /\ End(r)
    /\ UNCHANGED <<users, invitations, keys, ops, raced, contested, admitted, keyPast>>

\* One UPDATE and its commit; a token that is already revoked is revoked again.
Logout(r, t) ==
    /\ tx[r].op = "none" /\ ops < MaxOps
    /\ tokens[t].state # "none" /\ t \notin Locked
    /\ Active(tokens[t].user)
    /\ tokens' = [tokens EXCEPT ![t].state = "revoked"]
    /\ Spend(r, {t} \cap Unrevoked(tokens[t].user))
    /\ ops' = ops + 1
    /\ UNCHANGED <<users, invitations, keys, tx, crossed, raced, contested, admitted, keyPast>>

\* Time: expires_at of a token is reached.
TokenExpires(t) ==
    /\ tokens[t].state = "live"
    /\ tokens' = [tokens EXCEPT ![t].state = "expired"]
    /\ UNCHANGED <<users, invitations, keys, tx, ops, history>>

-----------------------------------------------------------------------------
(* Users *)

EditUser(op, e, new) == [Idle EXCEPT !.op = op, !.user = e, !.old = users[e], !.new = new]

\* No user that is not deleted has this email.
CreateUser(r, e) ==
    /\ ~Present(e)
    /\ Begin(r, [Idle EXCEPT !.op = "user", !.user = e,
                             !.new = [status |-> "active", deleted |-> FALSE]])

\* Mutant: the filter on deleted_at is missing.
UpdateAnyUser(r, e, status) ==
    /\ users[e] # NoRow
    /\ Begin(r, EditUser("user", e, [users[e] EXCEPT !.status = status]))

UpdateUser(r, e, status) ==
    /\ Present(e)
    /\ Begin(r, EditUser("user", e, [users[e] EXCEPT !.status = status]))

DeleteUser(r, e) ==
    /\ Present(e)
    /\ Begin(r, EditUser("user", e, [status |-> "deleted", deleted |-> TRUE]))

CommitUser(r) ==
    /\ tx[r].op = "user"
    /\ WriteUser(r)
    /\ End(r)
    /\ UNCHANGED <<tokens, invitations, keys, ops, crossed, forked, spent, contested,
                   admitted, keyPast>>

-----------------------------------------------------------------------------
(* Invitations *)

CreateInvitation(i, e) ==
    /\ invitations[i].state = "none" /\ ops < MaxOps
    /\ invitations' = [invitations EXCEPT ![i] = [state |-> "pending", email |-> e,
                                                  late |-> FALSE]]
    /\ ops' = ops + 1
    /\ UNCHANGED <<users, tokens, keys, tx, history>>

\* Time: expires_at of an invitation is reached.
InvitationExpires(i) ==
    /\ invitations[i].state = "pending" /\ ~invitations[i].late
    /\ invitations' = [invitations EXCEPT ![i].late = TRUE]
    /\ UNCHANGED <<users, tokens, keys, tx, ops, history>>

\* The invited user, if there is one, is activated, otherwise created.
AcceptInvitation(r, i) ==
    LET e == invitations[i].email IN
    /\ invitations[i].state = "pending" /\ ~invitations[i].late
    /\ Begin(r, [Idle EXCEPT !.op = "accept", !.user = e, !.invite = i,
                    !.outcome = "accepted",
                    !.old = IF Present(e) THEN users[e] ELSE NoRow,
                    !.new = [status |-> "active", deleted |-> FALSE]])

AcceptExpired(r, i) ==
    /\ invitations[i].state = "pending" /\ invitations[i].late
    /\ Begin(r, [Idle EXCEPT !.op = "settle", !.invite = i, !.outcome = "expired"])

\* Mutant: the status of the invitation is not looked at.
RevokeAnyInvitation(r, i) ==
    /\ invitations[i].state \notin {"none", "gone"}
    /\ Begin(r, [Idle EXCEPT !.op = "settle", !.invite = i, !.outcome = "revoked"])

RevokeInvitation(r, i) ==
    /\ invitations[i].state = "pending"
    /\ Begin(r, [Idle EXCEPT !.op = "settle", !.invite = i, !.outcome = "revoked"])

\* The invitation takes the outcome that r has decided on, if it still exists.
SettleInvitation(r) ==
    LET i == tx[r].invite IN
    /\ invitations[i].state # "gone"
    /\ invitations' = [invitations EXCEPT ![i].state = tx[r].outcome]
    /\ contested' = contested \cup {j \in {i} : \E k \in Others(r) : tx[k].invite = j}

\* User, role and invitation are committed together.
CommitAccept(r) ==
    /\ tx[r].op = "accept"
    /\ WriteUser(r)
    /\ SettleInvitation(r)
    /\ admitted' = [admitted EXCEPT ![tx[r].invite] = @ + 1]
    /\ End(r)
    /\ UNCHANGED <<tokens, keys, ops, crossed, forked, spent, keyPast>>

CommitSettle(r) ==
    /\ tx[r].op = "settle"
    /\ SettleInvitation(r)
    /\ End(r)
    /\ UNCHANGED <<users, tokens, keys, ops, crossed, raced, forked, spent, admitted, keyPast>>

\* cleanup_expired_invitations: one DELETE and its commit.
CleanupInvitations ==
    LET S == {i \in Invites : invitations[i].state = "pending" /\ invitations[i].late} IN
    /\ S # {}
    /\ invitations' = [i \in Invites |-> IF i \in S THEN [invitations[i] EXCEPT !.state = "gone"]
                                         ELSE invitations[i]]
    /\ UNCHANGED <<users, tokens, keys, tx, ops, history>>

-----------------------------------------------------------------------------
(* API keys *)

CreateApiKey(k) ==
    /\ keys[k].status = "none" /\ ops < MaxOps
    /\ keys' = [keys EXCEPT ![k].status = "active"]
    /\ ops' = ops + 1
    /\ UNCHANGED <<users, tokens, invitations, tx, history>>

\* Time: expires_at of a key is reached.
ApiKeyExpires(k) ==
    /\ keys[k].status \in {"active", "revoked"} /\ ~keys[k].late
    /\ keys' = [keys EXCEPT ![k].late = TRUE]
    /\ UNCHANGED <<users, tokens, invitations, tx, ops, history>>

EditKey(k, status) == [Idle EXCEPT !.op = "key", !.key = k, !.old = keys[k],
                                   !.new = [keys[k] EXCEPT !.status = status]]

\* A request comes with the key: last_used_at is written, or else that it expired.
UseApiKey(r, k) ==
    /\ keys[k].status = "active"
    /\ Begin(r, EditKey(k, IF keys[k].late THEN "expired" ELSE "active"))

RevokeApiKey(r, k) ==
    /\ keys[k].status \notin {"none", "gone"}
    /\ Begin(r, EditKey(k, "revoked"))

DeleteApiKey(r, k) ==
    /\ keys[k].status \notin {"none", "gone"}
    /\ Begin(r, EditKey(k, "gone"))

CommitKey(r) ==
    LET k == tx[r].key IN
    /\ tx[r].op = "key"
    /\ keys[k].status # "gone"
    /\ keys' = [keys EXCEPT ![k] = Merge(@, tx[r].old, tx[r].new)]
    /\ withdrawn' = IF tx[r].new.status = "revoked" THEN withdrawn \cup {k} ELSE withdrawn
    /\ overtaken' = overtaken \cup {j \in {k} : \E q \in Others(r) : tx[q].key = j}
    /\ End(r)
    /\ UNCHANGED <<users, tokens, invitations, ops, crossed, raced, forked, spent,
                   contested, admitted>>

-----------------------------------------------------------------------------
\* A commit fails (the email exists, the row is gone) or the process dies.
Abort(r) ==
    /\ tx[r].op # "none"
    /\ End(r)
    /\ UNCHANGED <<tables, ops, history>>

Session(r) ==
    \/ \E e \in Emails : Login(r, e)
    \/ RevokeTokens(r)
    \/ \E t \in Tokens : CommitLogin(r, t) \/ Refresh(r, t) \/ CommitRefresh(r, t)
                            \/ Logout(r, t)

Administration(r) ==
    \/ \E e \in Emails :
          \/ CreateUser(r, e) \/ DeleteUser(r, e)
          \/ \E status \in {"active", "suspended"} : UpdateUser(r, e, status)
    \/ CommitUser(r)

Invitations(r) ==
    \/ \E i \in Invites : AcceptInvitation(r, i) \/ AcceptExpired(r, i)
                             \/ RevokeInvitation(r, i)
    \/ CommitAccept(r) \/ CommitSettle(r)

ApiKeys(r) ==
    \/ \E k \in Keys : UseApiKey(r, k) \/ RevokeApiKey(r, k) \/ DeleteApiKey(r, k)
    \/ CommitKey(r)

Next ==
    \/ \E r \in Requests : Session(r) \/ Administration(r) \/ Invitations(r) \/ ApiKeys(r)
                             \/ Abort(r)
    \/ \E k \in Keys : CreateApiKey(k) \/ ApiKeyExpires(k)
    \/ \E t \in Tokens : TokenExpires(t)
    \/ \E i \in Invites : InvitationExpires(i) \/ \E e \in Emails : CreateInvitation(i, e)
    \/ CleanupInvitations

Spec == Init /\ [][Next]_vars

-----------------------------------------------------------------------------
(* Properties *)

\* Every variable keeps its type.
TypeOK ==
    /\ users \in [Emails -> User \cup {NoRow}]
    /\ tokens \in [Tokens -> Token]
    /\ invitations \in [Invites -> Invitation]
    /\ keys \in [Keys -> ApiKey]
    /\ tx \in [Requests -> Tx]
    /\ ops \in 0..MaxOps
    /\ crossed \subseteq Emails /\ raced \subseteq Emails
    /\ forked \subseteq Tokens /\ contested \subseteq Invites
    /\ withdrawn \subseteq Keys /\ overtaken \subseteq Keys
    /\ spent \in [Tokens -> Nat] /\ admitted \in [Invites -> Nat]

\* "Revoke previous active tokens to enforce single session": a user has one live
\* refresh token, unless a token was issued while a login had done its UPDATE, or
\* a refresh had read its token.
SingleSession ==
    \A e \in Emails \ crossed :
        Cardinality({t \in Tokens : tokens[t] = [state |-> "live", user |-> e]}) <= 1

\* A refresh token is exchanged, logged out or replaced by a login once, never two
\* of these, unless they overlapped.
TokenSpentOnce == \A t \in Tokens \ forked : spent[t] <= 1

\* delete_user is for good: neither an update nor an invitation activates a deleted
\* user (login asks for the status only), unless it read the user before.
DeletedStaysOut ==
    \A e \in Emails \ raced :
        users[e] # NoRow => (users[e].deleted <=> users[e].status = "deleted")

\* An invitation admits its user once, when its status becomes accepted; one that was
\* revoked or found expired admits nobody, unless the two overlapped.  One that the
\* clean-up deletes never does, however they overlap.
InvitationHonest ==
    \A i \in Invites :
        /\ i \notin contested => admitted[i] = IF invitations[i].state = "accepted" THEN 1 ELSE 0
        /\ invitations[i].state = "gone" => admitted[i] = 0

\* A revoked API key is never active again, however many requests have read it before
\* and write last_used_at after; one that found it expired may put that in its place.
RevokedForGood ==
    \A k \in withdrawn :
        \/ keys[k].status \in {"revoked", "gone"}
        \/ k \in overtaken /\ keys[k].status = "expired"

-----------------------------------------------------------------------------
(* The inductive invariant behind these properties *)

Live(t, e) == tokens[t].state = "live" /\ tokens[t].user = e

\* What a request holds in each operation.
Shaped(t) ==
    /\ t.op \in {"login", "revoking", "refresh", "user", "accept"} => t.user \in Emails
    /\ t.op = "refresh" => t.token \in Tokens
    /\ t.op \in {"user", "accept"} =>
          /\ t.old \in User \cup {NoRow} /\ t.new \in User
          /\ t.new.deleted <=> t.new.status = "deleted"
    /\ t.op \in {"accept", "settle"} => t.invite \in Invites
    /\ t.op = "accept" => t.outcome = "accepted"
    /\ t.op = "settle" => t.outcome \in {"revoked", "expired"}
    /\ t.op = "key" =>
          /\ t.key \in Keys /\ t.old \in ApiKey /\ t.new \in ApiKey
          /\ t.new.late = t.old.late /\ t.new.status # "none" /\ t.old.status # "gone"
          /\ t.new.status \in {"active", "expired"} => t.old.status = "active"

TxShape == \A r \in Requests : Shaped(tx[r])

\* The tokens a session is about to revoke are its user's, and, of a user whose
\* sessions did not cross, every live one is among them.
TokensInHand ==
    \A r \in Requests :
        /\ tx[r].op = "revoking" =>
              /\ \A t \in tx[r].takes : tokens[t].user = tx[r].user
              /\ \A t \in Tokens : Live(t, tx[r].user) =>
                    t \in tx[r].takes \/ tx[r].user \in crossed
        /\ tx[r].op = "refresh" =>
              /\ tokens[tx[r].token].user = tx[r].user
              /\ \A t \in Tokens : Live(t, tx[r].user) =>
                    t = tx[r].token \/ tx[r].user \in crossed

OneLive ==
    \A e \in Emails \ crossed : \A t, u \in Tokens : Live(t, e) /\ Live(u, e) => t = u

\* A token that was spent is revoked; the one a request is exchanging is not spent,
\* unless another request has forked it.
SpentIsRevoked ==
    /\ \A t \in Tokens : spent[t] > 0 => tokens[t].state = "revoked"
    /\ \A r \in Requests :
          tx[r].op = "refresh" /\ tx[r].token \notin forked => spent[tx[r].token] = 0

\* A user that was read is there, and as long as it is not raced it is as it was read.
CopyIsFresh ==
    \A r \in Requests :
        tx[r].op \in {"user", "accept"} /\ tx[r].old # NoRow =>
            /\ users[tx[r].user] # NoRow
            /\ users[tx[r].user] = tx[r].old \/ tx[r].user \in raced

\* An invitation that is not settled has admitted nobody; one that a request is about
\* to settle exists, and is not settled yet or contested.
OpenUntilSettled ==
    /\ \A i \in Invites :
          invitations[i].state \in {"none", "pending", "gone"} => admitted[i] = 0
    /\ \A r \in Requests : tx[r].op \in {"accept", "settle"} =>
          /\ invitations[tx[r].invite].state # "none"
          /\ \/ invitations[tx[r].invite].state \in {"pending", "gone"}
             \/ tx[r].invite \in contested

\* A revoked key, and one that a request has read as revoked, is withdrawn; a withdrawn
\* key that a request has read as active is overtaken.
WithdrawalSeen ==
    /\ \A k \in Keys : keys[k].status = "revoked" => k \in withdrawn
    /\ \A r \in Requests : tx[r].op = "key" =>
          /\ tx[r].old.status = "revoked" => tx[r].key \in withdrawn
          /\ tx[r].old.status = "active" /\ tx[r].key \in withdrawn => tx[r].key \in overtaken

\* Together with the properties they are inductive.
IInv ==
    /\ TypeOK
    /\ TxShape
    /\ TokensInHand /\ OneLive
    /\ SpentIsRevoked /\ TokenSpentOnce
    /\ CopyIsFresh /\ DeletedStaysOut
    /\ OpenUntilSettled /\ InvitationHonest
    /\ WithdrawalSeen /\ RevokedForGood
=============================================================================
