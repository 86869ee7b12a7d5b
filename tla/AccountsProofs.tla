---------------------------- MODULE AccountsProofs ----------------------------
(***************************************************************************)
(* Proofs about Accounts, for any requests, users, tokens, invitations and *)
(* API keys.  The four tables hardly touch each other: there is one lemma  *)
(* for what the types need and one for each table, and for each part of    *)
(* the API a lemma that says what it leaves alone.                         *)
(***************************************************************************)
EXTENDS Accounts, FiniteSetTheorems, TLAPS

USE ConstantsAssumption

-----------------------------------------------------------------------------
(* Facts about the operators *)

\* A table has a row or it has none.
LEMMA NoRowIsNoRow == NoRow \notin User /\ NoRow \notin ApiKey
BY DEF ConstantsAssumption

\* A request that has nothing in hand is well formed.
LEMMA IdleType == Idle \in Tx /\ Shaped(Idle)
BY DEF Idle, Tx, Shaped

\* An UPDATE of a copy that is what the table says writes exactly what was meant (Merge).
LEMMA MergeUser ==
    ASSUME NEW row \in User, NEW old \in User, NEW new \in User
    PROVE  /\ Merge(row, old, new) \in User
           /\ row = old => Merge(row, old, new) = new
<1>1. Merge(row, old, new) =
        [status  |-> IF new.status # old.status THEN new.status ELSE row.status,
         deleted |-> IF new.deleted # old.deleted THEN new.deleted ELSE row.deleted]
  BY DEF Merge, User
<1>2. QED BY <1>1 DEF User

\* The same for a key, whose status is what matters (Merge).
LEMMA MergeKey ==
    ASSUME NEW row \in ApiKey, NEW old \in ApiKey, NEW new \in ApiKey
    PROVE  /\ Merge(row, old, new) \in ApiKey
           /\ Merge(row, old, new).status =
                  IF new.status # old.status THEN new.status ELSE row.status
<1>1. Merge(row, old, new) =
        [status |-> IF new.status # old.status THEN new.status ELSE row.status,
         late   |-> IF new.late # old.late THEN new.late ELSE row.late]
  BY DEF Merge, ApiKey
<1>2. QED BY <1>1 DEF ApiKey

\* A set without two different elements has at most one.
LEMMA AtMostOne ==
    ASSUME NEW S, \A x, y \in S : x = y
    PROVE  Cardinality(S) <= 1
<1>1. CASE S = {}
  BY <1>1, FS_EmptySet
<1>2. CASE S # {}
  <2>1. PICK x \in S : TRUE
    BY <1>2
  <2>2. S = {x}
    BY <2>1
  <2>3. Cardinality({x}) = 1
    BY FS_Singleton
  <2>4. QED BY <2>2, <2>3
<1>3. QED BY <1>1, <1>2

-----------------------------------------------------------------------------
(* What the parts of the API leave alone *)

\* Apart from the locks it waits for, k holds what it held.
Same(k) ==
    /\ tx'[k].op = tx[k].op /\ tx'[k].user = tx[k].user
    /\ tx'[k].old = tx[k].old /\ tx'[k].new = tx[k].new
    /\ tx'[k].token = tx[k].token /\ tx'[k].takes = tx[k].takes
    /\ tx'[k].invite = tx[k].invite /\ tx'[k].outcome = tx[k].outcome
    /\ tx'[k].key = tx[k].key

\* A request begins with t, the others keep what they hold (Begin).
LEMMA BeginStep ==
    ASSUME TypeOK, TxShape, NEW r \in Requests, NEW t \in Tx, Shaped(t), Begin(r, t)
    PROVE  /\ TypeOK' /\ TxShape' /\ tx'[r] = t
           /\ \A k \in Requests \ {r} : Same(k)
           /\ UNCHANGED <<users, tokens, invitations, keys, crossed, raced, forked, spent,
                          contested, admitted, withdrawn, overtaken>>
<1>1. /\ tx' = [tx EXCEPT ![r] = t] /\ tx \in [Requests -> Tx]
      /\ UNCHANGED <<users, tokens, invitations, keys, crossed, raced, forked, spent,
                     contested, admitted, withdrawn, overtaken>>
  BY DEF Begin, TypeOK, tables, history, keyPast
<1>2. ops' \in 0..MaxOps
  BY DEF Begin, TypeOK, ConstantsAssumption
<1>3. TypeOK'
  BY <1>1, <1>2 DEF TypeOK
<1>4. TxShape'
  BY <1>1 DEF TxShape
<1>5. QED BY <1>1, <1>3, <1>4 DEF Same

\* A request ends, the others keep what they hold (End).
LEMMA EndStep ==
    ASSUME tx \in [Requests -> Tx], TxShape, NEW r \in Requests, End(r)
    PROVE  /\ tx' \in [Requests -> Tx] /\ TxShape' /\ tx'[r] = Idle
           /\ \A k \in Requests \ {r} : Same(k)
<1>1. \A k \in Requests \ {r} : tx'[k] = [tx[k] EXCEPT !.waits = tx[k].waits \ {r}]
  BY DEF End
<1>2. \A k \in Requests \ {r} : tx'[k] \in Tx /\ Same(k)
  <2> SUFFICES ASSUME NEW k \in Requests \ {r} PROVE tx'[k] \in Tx /\ Same(k)
      OBVIOUS
  <2>1. tx[k] \in Tx /\ tx'[k] = [tx[k] EXCEPT !.waits = tx[k].waits \ {r}]
    BY <1>1
  <2>2. (tx[k].waits \ {r}) \in SUBSET Requests
    BY <2>1 DEF Tx
  <2>3. QED BY <2>1, <2>2 DEF Tx, Same
<1>3. \A k \in Requests \ {r} : Shaped(tx'[k])
  BY <1>2 DEF Same, Shaped, TxShape
<1>4. tx'[r] = Idle /\ DOMAIN tx' = Requests
  BY DEF End
<1>5. tx' \in [Requests -> Tx]
  <2>1. tx' = [k \in Requests |-> tx'[k]]
    BY <1>4 DEF End
  <2>2. QED BY <1>2, <1>4, <2>1, IdleType
<1>6. TxShape'
  BY <1>3, <1>4, IdleType DEF TxShape
<1>7. QED BY <1>2, <1>4, <1>5, <1>6

\* What each part of the API leaves alone, and what the actor is doing afterwards.
SessionKeeps ==
    /\ UNCHANGED <<users, invitations, keys, raced, contested, admitted, withdrawn, overtaken>>
    /\ \A k \in Requests : Same(k) \/ tx'[k].op \in {"none", "login", "revoking", "refresh"}

LEMMA SessionFrame ==
    ASSUME TypeOK, TxShape, NEW r \in Requests, Session(r)
    PROVE  SessionKeeps
<1>a. tx \in [Requests -> Tx]
  BY DEF TypeOK
<1>1. ASSUME NEW e \in Emails, Login(r, e) PROVE SessionKeeps
  BY <1>a, <1>1 DEF Login, Begin, Idle, Same, SessionKeeps, tables, history, keyPast
<1>2. CASE RevokeTokens(r)
  BY <1>a, <1>2 DEF RevokeTokens, Tx, Same, SessionKeeps, tables, history, keyPast
<1>3. ASSUME NEW n \in Tokens, CommitLogin(r, n) PROVE SessionKeeps
  BY <1>a, <1>3, EndStep DEF CommitLogin, Idle, SessionKeeps, keyPast
<1>4. ASSUME NEW t \in Tokens, Refresh(r, t) PROVE SessionKeeps
  BY <1>a, <1>4 DEF Refresh, Begin, Idle, Same, SessionKeeps, tables, history, keyPast
<1>5. ASSUME NEW n \in Tokens, CommitRefresh(r, n) PROVE SessionKeeps
  BY <1>a, <1>5, EndStep DEF CommitRefresh, Idle, SessionKeeps, keyPast
<1>6. ASSUME NEW t \in Tokens, Logout(r, t) PROVE SessionKeeps
  BY <1>6 DEF Logout, Same, SessionKeeps, keyPast
<1>7. QED BY <1>1, <1>2, <1>3, <1>4, <1>5, <1>6 DEF Session

AdministrationKeeps ==
    /\ UNCHANGED <<tokens, invitations, keys, crossed, forked, spent, contested, admitted,
                   withdrawn, overtaken>>
    /\ \A k \in Requests : Same(k) \/ tx'[k].op \in {"none", "user"}

LEMMA AdministrationFrame ==
    ASSUME TypeOK, TxShape, NEW r \in Requests, Administration(r)
    PROVE  AdministrationKeeps
<1>a. tx \in [Requests -> Tx]
  BY DEF TypeOK
<1>1. ASSUME NEW e \in Emails, CreateUser(r, e) PROVE AdministrationKeeps
  BY <1>a, <1>1 DEF CreateUser, Begin, Idle, Same, AdministrationKeeps, tables, history, keyPast
<1>2. ASSUME NEW e \in Emails, DeleteUser(r, e) PROVE AdministrationKeeps
  BY <1>a, <1>2 DEF DeleteUser, EditUser, Begin, Idle, Same, AdministrationKeeps, tables,
                    history, keyPast
<1>3. ASSUME NEW e \in Emails, NEW status \in {"active", "suspended"}, UpdateUser(r, e, status)
      PROVE  AdministrationKeeps
  BY <1>a, <1>3 DEF UpdateUser, EditUser, Begin, Idle, Same, AdministrationKeeps, tables,
                    history, keyPast
<1>4. CASE CommitUser(r)
  BY <1>a, <1>4, EndStep DEF CommitUser, Idle, AdministrationKeeps, keyPast
<1>5. QED BY <1>1, <1>2, <1>3, <1>4 DEF Administration

InvitationsKeep ==
    /\ UNCHANGED <<tokens, keys, crossed, forked, spent, withdrawn, overtaken>>
    /\ \A k \in Requests : Same(k) \/ tx'[k].op \in {"none", "accept", "settle"}

LEMMA InvitationsFrame ==
    ASSUME TypeOK, TxShape, NEW r \in Requests, Invitations(r)
    PROVE  InvitationsKeep
<1>a. tx \in [Requests -> Tx]
  BY DEF TypeOK
<1>1. ASSUME NEW i \in Invites, AcceptInvitation(r, i) PROVE InvitationsKeep
  BY <1>a, <1>1 DEF AcceptInvitation, Begin, Idle, Same, InvitationsKeep, tables, history, keyPast
<1>2. ASSUME NEW i \in Invites, AcceptExpired(r, i) \/ RevokeInvitation(r, i)
      PROVE  InvitationsKeep
  BY ZenonT(60), <1>a, <1>2 DEF AcceptExpired, RevokeInvitation, Begin, Idle, Same, InvitationsKeep,
                    tables, history, keyPast
<1>3. CASE CommitAccept(r)
  BY <1>a, <1>3, EndStep DEF CommitAccept, Idle, InvitationsKeep, keyPast
<1>4. CASE CommitSettle(r)
  BY <1>a, <1>4, EndStep DEF CommitSettle, Idle, InvitationsKeep, keyPast
<1>5. QED BY <1>1, <1>2, <1>3, <1>4 DEF Invitations

ApiKeysKeep ==
    /\ UNCHANGED <<users, tokens, invitations, crossed, raced, forked, spent, contested, admitted>>
    /\ \A k \in Requests : Same(k) \/ tx'[k].op \in {"none", "key"}

LEMMA ApiKeysFrame ==
    ASSUME TypeOK, TxShape, NEW r \in Requests, ApiKeys(r)
    PROVE  ApiKeysKeep
<1>a. tx \in [Requests -> Tx]
  BY DEF TypeOK
<1>1. ASSUME NEW k \in Keys, UseApiKey(r, k) \/ RevokeApiKey(r, k) \/ DeleteApiKey(r, k)
      PROVE  ApiKeysKeep
  BY ZenonT(60), <1>a, <1>1 DEF UseApiKey, RevokeApiKey, DeleteApiKey, EditKey, Begin, Idle, Same,
                    ApiKeysKeep, tables, history
<1>2. CASE CommitKey(r)
  BY <1>a, <1>2, EndStep DEF CommitKey, Idle, ApiKeysKeep
<1>3. QED BY <1>1, <1>2 DEF ApiKeys

\* A request that fails leaves everything alone.
AbortKeeps ==
    /\ UNCHANGED <<users, tokens, invitations, keys, ops, crossed, raced, forked, spent,
                   contested, admitted, withdrawn, overtaken>>
    /\ \A k \in Requests : Same(k) \/ tx'[k].op = "none"

LEMMA AbortFrame ==
    ASSUME TypeOK, TxShape, NEW r \in Requests, Abort(r)
    PROVE  AbortKeeps
<1>a. tx \in [Requests -> Tx]
  BY DEF TypeOK
<1>1. QED BY <1>a, EndStep DEF Abort, Idle, AbortKeeps, tables, history, keyPast

-----------------------------------------------------------------------------
(* Types *)

\* The tokens in S are revoked and n is issued: the types are kept (Issue, Spend).
LEMMA IssueType ==
    ASSUME TypeOK, NEW r \in Requests, tx[r].user \in Emails, NEW n \in Tokens,
           NEW S \in SUBSET Tokens, \A t \in S : tokens[t].user = tx[r].user,
           Issue(r, S, n)
    PROVE  /\ tokens' \in [Tokens -> Token] /\ crossed' \subseteq Emails
           /\ n \notin S /\ tokens[n].state = "none"
           /\ tokens'[n] = [state |-> "live", user |-> tx[r].user]
           /\ \A t \in S : tokens'[t] = [state |-> "revoked", user |-> tx[r].user]
           /\ \A t \in Tokens : t # n /\ t \notin S => tokens'[t] = tokens[t]
<1>1. tokens \in [Tokens -> Token] /\ tokens[n].state = "none"
  BY DEF TypeOK, Issue
<1>2. \A t \in S : /\ tokens[t].state # "none" /\ t # n
                   /\ [tokens[t] EXCEPT !.state = "revoked"] =
                        [state |-> "revoked", user |-> tx[r].user]
  <2> SUFFICES ASSUME NEW t \in S
               PROVE  /\ tokens[t].state # "none" /\ t # n
                      /\ [tokens[t] EXCEPT !.state = "revoked"] =
                           [state |-> "revoked", user |-> tx[r].user]
      OBVIOUS
  <2>1. tokens[t] \in Token /\ tokens[t].user = tx[r].user /\ tokens[t].user # NoEmail
    BY <1>1 DEF ConstantsAssumption
  <2>2. tokens[t].state # "none"
    BY <2>1 DEF Token
  <2>3. QED BY <1>1, <2>1, <2>2 DEF Token
<1>3. \A t \in Tokens : tokens'[t] = IF t = n THEN [state |-> "live", user |-> tx[r].user]
                                     ELSE IF t \in S THEN [tokens[t] EXCEPT !.state = "revoked"]
                                     ELSE tokens[t]
  BY DEF Issue
<1>4. \A t \in Tokens : tokens'[t] \in Token
  <2>1. /\ [state |-> "live", user |-> tx[r].user] \in Token
        /\ [state |-> "revoked", user |-> tx[r].user] \in Token
    BY DEF Token
  <2>2. QED BY <1>1, <1>2, <1>3, <2>1
<1>5. tokens' \in [Tokens -> Token]
  <2>1. tokens' = [t \in Tokens |-> tokens'[t]]
    BY DEF Issue
  <2>2. QED BY <1>4, <2>1
<1>6. crossed' \subseteq Emails
  BY DEF Issue, TypeOK
<1>7. QED BY <1>1, <1>2, <1>3, <1>5, <1>6

LEMMA SpendType ==
    ASSUME TypeOK, NEW r \in Requests, NEW S \in SUBSET Tokens, Spend(r, S)
    PROVE  spent' \in [Tokens -> Nat] /\ forked' \subseteq Tokens
BY DEF Spend, TypeOK

\* The user that is written has the right type, and is what was meant if it was
\* what had been read (WriteUser).
LEMMA WriteUserType ==
    ASSUME TypeOK, CopyIsFresh, NEW r \in Requests, Shaped(tx[r]),
           tx[r].op \in {"user", "accept"}, WriteUser(r)
    PROVE  /\ users' \in [Emails -> User \cup {NoRow}] /\ raced' \subseteq Emails
           /\ \A e \in Emails : e # tx[r].user => users'[e] = users[e]
           /\ users'[tx[r].user] # NoRow
           /\ users[tx[r].user] = tx[r].old => users'[tx[r].user] = tx[r].new
<1> DEFINE e == tx[r].user
<1>1. /\ users \in [Emails -> User \cup {NoRow}] /\ e \in Emails
      /\ tx[r].old \in User \cup {NoRow} /\ tx[r].new \in User
      /\ tx[r].old = NoRow => users[e] = NoRow
      /\ tx[r].old # NoRow => users[e] # NoRow
  BY DEF TypeOK, Shaped, CopyIsFresh, WriteUser
<1>2. /\ users' = [users EXCEPT ![e] = IF tx[r].old = NoRow THEN tx[r].new
                                       ELSE Merge(users[e], tx[r].old, tx[r].new)]
      /\ raced' \subseteq Emails
  BY <1>1 DEF WriteUser, TypeOK
<1>3. CASE tx[r].old = NoRow
  BY <1>1, <1>2, <1>3, NoRowIsNoRow
<1>4. CASE tx[r].old # NoRow
  <2>1. users[e] \in User /\ tx[r].old \in User
    BY <1>1, <1>4
  <2>2. Merge(users[e], tx[r].old, tx[r].new) \in User
    BY <1>1, <2>1, MergeUser
  <2>3. users[e] = tx[r].old => Merge(users[e], tx[r].old, tx[r].new) = tx[r].new
    BY <1>1, <2>1, MergeUser
  <2>4. users' = [users EXCEPT ![e] = Merge(users[e], tx[r].old, tx[r].new)]
    BY <1>2, <1>4
  <2>5. QED BY <1>1, <1>2, <2>2, <2>3, <2>4, NoRowIsNoRow
<1>5. QED BY <1>3, <1>4

\* The invitation that is settled (SettleInvitation).
LEMMA SettleType ==
    ASSUME TypeOK, NEW r \in Requests, Shaped(tx[r]), tx[r].op \in {"accept", "settle"},
           invitations[tx[r].invite].state # "none", SettleInvitation(r)
    PROVE  /\ invitations' \in [Invites -> Invitation] /\ contested' \subseteq Invites
           /\ invitations'[tx[r].invite].state = tx[r].outcome
           /\ \A i \in Invites : i # tx[r].invite => invitations'[i] = invitations[i]
           /\ invitations[tx[r].invite].state # "gone"
<1>1. /\ invitations \in [Invites -> Invitation] /\ tx[r].invite \in Invites
      /\ tx[r].outcome \in {"accepted", "revoked", "expired"}
      /\ invitations' = [invitations EXCEPT ![tx[r].invite].state = tx[r].outcome]
      /\ contested' \subseteq Invites /\ invitations[tx[r].invite].state # "gone"
  BY DEF TypeOK, Shaped, SettleInvitation
<1>2. [invitations[tx[r].invite] EXCEPT !.state = tx[r].outcome] \in Invitation
  BY <1>1 DEF Invitation
<1>3. QED BY <1>1, <1>2 DEF Invitation

\* The key that is written (CommitKey).
LEMMA CommitKeyType ==
    ASSUME TypeOK, NEW r \in Requests, Shaped(tx[r]), CommitKey(r)
    PROVE  /\ keys' \in [Keys -> ApiKey] /\ withdrawn' \subseteq Keys /\ overtaken' \subseteq Keys
           /\ keys'[tx[r].key].status = IF tx[r].new.status # tx[r].old.status
                                        THEN tx[r].new.status ELSE keys[tx[r].key].status
           /\ \A k \in Keys : k # tx[r].key => keys'[k] = keys[k]
<1> DEFINE k == tx[r].key
<1>1. /\ k \in Keys /\ keys \in [Keys -> ApiKey] /\ keys[k] \in ApiKey
      /\ tx[r].old \in ApiKey /\ tx[r].new \in ApiKey
      /\ withdrawn' \subseteq Keys /\ overtaken' \subseteq Keys
      /\ keys' = [keys EXCEPT ![k] = Merge(keys[k], tx[r].old, tx[r].new)]
  BY DEF TypeOK, Shaped, CommitKey
<1>2. QED BY <1>1, MergeKey

\* Every step keeps the types.
LEMMA TypeStep ==
    ASSUME TypeOK, TxShape, TokensInHand, CopyIsFresh, OpenUntilSettled, [Next]_vars
    PROVE  TypeOK' /\ TxShape'
<1>a. tx \in [Requests -> Tx] /\ \A q \in Requests : Shaped(tx[q])
  BY DEF TypeOK, TxShape
<1>1. ASSUME NEW r \in Requests, NEW e \in Emails, Login(r, e)
      PROVE  TypeOK' /\ TxShape'
  <2> DEFINE t == [Idle EXCEPT !.op = "login", !.user = e]
  <2>1. t \in Tx /\ Shaped(t)
    BY DEF Idle, Tx, Shaped
  <2>2. QED BY <1>1, <2>1, BeginStep DEF Login
<1>2. ASSUME NEW r \in Requests, RevokeTokens(r)
      PROVE  TypeOK' /\ TxShape'
  <2> DEFINE S == Unrevoked(tx[r].user)
             W == {k \in Others(r) : tx[k].takes \cap S # {}}
             x == [tx[r] EXCEPT !.op = "revoking", !.takes = S, !.waits = W]
  <2>1. /\ S \in SUBSET Tokens /\ W \in SUBSET Requests
        /\ tx[r] \in Tx /\ Shaped(tx[r]) /\ tx[r].op = "login"
    BY <1>2, <1>a DEF RevokeTokens, Unrevoked, Others
  <2>2. tx' = [tx EXCEPT ![r] = x]
    BY <1>2, <1>a DEF RevokeTokens
  <2>3. x \in Tx
    <3> HIDE DEF S, W
    <3>1. QED BY <2>1 DEF Tx
  <2>4. Shaped(x)
    <3> HIDE DEF S, W
    <3>1. QED BY <2>1 DEF Shaped, Tx
  <2>5. tx' \in [Requests -> Tx] /\ TxShape'
    <3> HIDE DEF x
    <3>1. QED BY <1>a, <2>2, <2>3, <2>4 DEF TxShape
  <2>6. UNCHANGED <<users, tokens, invitations, keys, ops, crossed, raced, forked, spent,
                    contested, admitted, withdrawn, overtaken>>
    BY <1>2 DEF RevokeTokens, tables, history, keyPast
  <2>7. QED BY <2>5, <2>6 DEF TypeOK
<1>3. ASSUME NEW r \in Requests, NEW n \in Tokens, CommitLogin(r, n)
      PROVE  TypeOK' /\ TxShape'
  <2>1. /\ tx[r].user \in Emails /\ tx[r].takes \in SUBSET Tokens
        /\ \A t \in tx[r].takes : tokens[t].user = tx[r].user
    BY <1>3, <1>a DEF CommitLogin, Shaped, Tx, TokensInHand
  <2>2. tokens' \in [Tokens -> Token] /\ crossed' \subseteq Emails
    BY <1>3, <2>1, IssueType DEF CommitLogin
  <2>3. spent' \in [Tokens -> Nat] /\ forked' \subseteq Tokens
    <3>1. (tx[r].takes \cap Unrevoked(tx[r].user)) \in SUBSET Tokens
      BY <2>1
    <3>2. QED BY <1>3, <3>1, SpendType DEF CommitLogin
  <2>4. tx' \in [Requests -> Tx] /\ TxShape'
    BY <1>3, <1>a, EndStep DEF CommitLogin
  <2>5. QED BY <1>3, <2>2, <2>3, <2>4 DEF CommitLogin, TypeOK, keyPast
<1>4. ASSUME NEW r \in Requests, NEW t \in Tokens, Refresh(r, t)
      PROVE  TypeOK' /\ TxShape'
  <2> DEFINE x == [Idle EXCEPT !.op = "refresh", !.user = tokens[t].user, !.token = t]
  <2>1. tokens[t].user \in Emails
    <3>1. tokens[t] \in Token /\ tokens[t].state = "live"
      BY <1>4 DEF TypeOK, Refresh
    <3>2. QED BY <3>1 DEF Token
  <2>2. x \in Tx /\ Shaped(x)
    BY <2>1 DEF Idle, Tx, Shaped
  <2>3. QED BY <1>4, <2>2, BeginStep DEF Refresh
<1>5. ASSUME NEW r \in Requests, NEW n \in Tokens, CommitRefresh(r, n)
      PROVE  TypeOK' /\ TxShape'
  <2>1. /\ tx[r].user \in Emails /\ tx[r].token \in Tokens
        /\ tokens[tx[r].token].user = tx[r].user
    BY <1>5, <1>a DEF CommitRefresh, Shaped, TokensInHand
  <2>2. {tx[r].token} \in SUBSET Tokens /\ \A t \in {tx[r].token} : tokens[t].user = tx[r].user
    BY <2>1
  <2>3. tokens' \in [Tokens -> Token] /\ crossed' \subseteq Emails
    BY <1>5, <2>1, <2>2, IssueType DEF CommitRefresh
  <2>4. spent' \in [Tokens -> Nat] /\ forked' \subseteq Tokens
    BY <1>5, <2>2, SpendType DEF CommitRefresh
  <2>5. tx' \in [Requests -> Tx] /\ TxShape'
    BY <1>5, <1>a, EndStep DEF CommitRefresh
  <2>6. QED BY <1>5, <2>3, <2>4, <2>5 DEF CommitRefresh, TypeOK, keyPast
<1>6. ASSUME NEW r \in Requests, NEW t \in Tokens, Logout(r, t)
      PROVE  TypeOK' /\ TxShape'
  <2>1. tokens' \in [Tokens -> Token]
    <3>1. tokens[t] \in Token /\ tokens[t].state # "none"
      BY <1>6 DEF TypeOK, Logout
    <3>2. [tokens[t] EXCEPT !.state = "revoked"] \in Token
      BY <3>1 DEF Token
    <3>3. QED BY <1>6, <3>2 DEF Logout, TypeOK
  <2>2. spent' \in [Tokens -> Nat] /\ forked' \subseteq Tokens
    <3>1. ({t} \cap Unrevoked(tokens[t].user)) \in SUBSET Tokens
      OBVIOUS
    <3>2. QED BY <1>6, <3>1, SpendType DEF Logout
  <2>3. ops' \in 0..MaxOps
    BY <1>6 DEF Logout, TypeOK, ConstantsAssumption
  <2>4. QED BY <1>6, <1>a, <2>1, <2>2, <2>3 DEF Logout, TypeOK, TxShape, keyPast
<1>7. ASSUME NEW t \in Tokens, TokenExpires(t)
      PROVE  TypeOK' /\ TxShape'
  <2>1. tokens' \in [Tokens -> Token]
    <3>1. tokens[t] \in Token /\ tokens[t].state # "none"
      BY <1>7 DEF TypeOK, TokenExpires
    <3>2. [tokens[t] EXCEPT !.state = "expired"] \in Token
      BY <3>1 DEF Token
    <3>3. QED BY <1>7, <3>2 DEF TokenExpires, TypeOK
  <2>2. QED BY <1>7, <1>a, <2>1 DEF TokenExpires, TypeOK, TxShape, history, keyPast
<1>8. ASSUME NEW r \in Requests, NEW e \in Emails, CreateUser(r, e)
      PROVE  TypeOK' /\ TxShape'
  <2> DEFINE t == [Idle EXCEPT !.op = "user", !.user = e,
                               !.new = [status |-> "active", deleted |-> FALSE]]
  <2>1. t \in Tx /\ Shaped(t)
    BY DEF Idle, Tx, Shaped, User
  <2>2. QED BY <1>8, <2>1, BeginStep DEF CreateUser
<1>9. ASSUME NEW r \in Requests, NEW e \in Emails, NEW status \in {"active", "suspended"},
             UpdateUser(r, e, status)
      PROVE  TypeOK' /\ TxShape'
  <2> DEFINE t == EditUser("user", e, [users[e] EXCEPT !.status = status])
  <2>1. users[e] \in User /\ ~users[e].deleted
    BY <1>9 DEF TypeOK, UpdateUser, Present
  <2>2. /\ [users[e] EXCEPT !.status = status] \in User
        /\ ~[users[e] EXCEPT !.status = status].deleted
        /\ [users[e] EXCEPT !.status = status].status = status
    BY <2>1 DEF User
  <2>3. t \in Tx /\ Shaped(t)
    BY <2>1, <2>2 DEF EditUser, Idle, Tx, Shaped
  <2>4. QED BY <1>9, <2>3, BeginStep DEF UpdateUser
<1>10. ASSUME NEW r \in Requests, NEW e \in Emails, DeleteUser(r, e)
       PROVE  TypeOK' /\ TxShape'
  <2> DEFINE t == EditUser("user", e, [status |-> "deleted", deleted |-> TRUE])
  <2>1. users[e] \in User
    BY <1>10 DEF TypeOK, DeleteUser, Present
  <2>2. t \in Tx /\ Shaped(t)
    BY <2>1 DEF EditUser, Idle, Tx, Shaped, User
  <2>3. QED BY <1>10, <2>2, BeginStep DEF DeleteUser
<1>11. ASSUME NEW r \in Requests, CommitUser(r)
       PROVE  TypeOK' /\ TxShape'
  <2>1. users' \in [Emails -> User \cup {NoRow}] /\ raced' \subseteq Emails
    BY <1>11, <1>a, WriteUserType DEF CommitUser
  <2>2. tx' \in [Requests -> Tx] /\ TxShape'
    BY <1>11, <1>a, EndStep DEF CommitUser
  <2>3. QED BY <1>11, <2>1, <2>2 DEF CommitUser, TypeOK, keyPast
<1>12. ASSUME NEW i \in Invites, NEW e \in Emails, CreateInvitation(i, e)
       PROVE  TypeOK' /\ TxShape'
  <2>1. invitations' \in [Invites -> Invitation]
    BY <1>12 DEF CreateInvitation, TypeOK, Invitation
  <2>2. ops' \in 0..MaxOps
    BY <1>12 DEF CreateInvitation, TypeOK, ConstantsAssumption
  <2>3. QED BY <1>12, <1>a, <2>1, <2>2 DEF CreateInvitation, TypeOK, TxShape, history, keyPast
<1>13. ASSUME NEW i \in Invites, InvitationExpires(i)
       PROVE  TypeOK' /\ TxShape'
  <2>1. [invitations[i] EXCEPT !.late = TRUE] \in Invitation
    BY <1>13 DEF InvitationExpires, TypeOK, Invitation
  <2>2. invitations' \in [Invites -> Invitation]
    BY <1>13, <2>1 DEF InvitationExpires, TypeOK
  <2>3. QED BY <1>13, <1>a, <2>2 DEF InvitationExpires, TypeOK, TxShape, history, keyPast
<1>14. ASSUME NEW r \in Requests, NEW i \in Invites, AcceptInvitation(r, i)
       PROVE  TypeOK' /\ TxShape'
  <2> DEFINE e == invitations[i].email
             t == [Idle EXCEPT !.op = "accept", !.user = e, !.invite = i,
                       !.outcome = "accepted",
                       !.old = IF Present(e) THEN users[e] ELSE NoRow,
                       !.new = [status |-> "active", deleted |-> FALSE]]
  <2>1. e \in Emails
    <3>1. invitations[i] \in Invitation /\ invitations[i].state = "pending"
      BY <1>14 DEF AcceptInvitation, TypeOK
    <3>2. QED BY <3>1 DEF Invitation
  <2>2. (IF Present(e) THEN users[e] ELSE NoRow) \in User \cup {NoRow}
    BY <2>1 DEF TypeOK
  <2>3. t \in Tx /\ Shaped(t)
    BY <2>1, <2>2 DEF Idle, Tx, Shaped, User
  <2>4. QED BY <1>14, <2>3, BeginStep DEF AcceptInvitation
<1>15. ASSUME NEW r \in Requests, NEW i \in Invites, AcceptExpired(r, i)
       PROVE  TypeOK' /\ TxShape'
  <2> DEFINE t == [Idle EXCEPT !.op = "settle", !.invite = i, !.outcome = "expired"]
  <2>1. t \in Tx /\ Shaped(t)
    BY DEF Idle, Tx, Shaped
  <2>2. QED BY <1>15, <2>1, BeginStep DEF AcceptExpired
<1>16. ASSUME NEW r \in Requests, NEW i \in Invites, RevokeInvitation(r, i)
       PROVE  TypeOK' /\ TxShape'
  <2> DEFINE t == [Idle EXCEPT !.op = "settle", !.invite = i, !.outcome = "revoked"]
  <2>1. t \in Tx /\ Shaped(t)
    BY DEF Idle, Tx, Shaped
  <2>2. QED BY <1>16, <2>1, BeginStep DEF RevokeInvitation
<1>17. ASSUME NEW r \in Requests, CommitAccept(r)
       PROVE  TypeOK' /\ TxShape'
  <2>1. users' \in [Emails -> User \cup {NoRow}] /\ raced' \subseteq Emails
    BY <1>17, <1>a, WriteUserType DEF CommitAccept
  <2>2. invitations' \in [Invites -> Invitation] /\ contested' \subseteq Invites
    BY <1>17, <1>a, SettleType DEF CommitAccept, OpenUntilSettled
  <2>3. admitted' \in [Invites -> Nat]
    <3>1. tx[r].invite \in Invites /\ admitted \in [Invites -> Nat]
      BY <1>17, <1>a DEF CommitAccept, Shaped, TypeOK
    <3>2. QED BY <1>17, <3>1 DEF CommitAccept
  <2>4. tx' \in [Requests -> Tx] /\ TxShape'
    BY <1>17, <1>a, EndStep DEF CommitAccept
  <2>5. QED BY <1>17, <2>1, <2>2, <2>3, <2>4 DEF CommitAccept, TypeOK, keyPast
<1>18. ASSUME NEW r \in Requests, CommitSettle(r)
       PROVE  TypeOK' /\ TxShape'
  <2>1. invitations' \in [Invites -> Invitation] /\ contested' \subseteq Invites
    BY <1>18, <1>a, SettleType DEF CommitSettle, OpenUntilSettled
  <2>2. tx' \in [Requests -> Tx] /\ TxShape'
    BY <1>18, <1>a, EndStep DEF CommitSettle
  <2>3. QED BY <1>18, <2>1, <2>2 DEF CommitSettle, TypeOK, keyPast
<1>19. CASE CleanupInvitations
  <2>1. \A i \in Invites : invitations[i].state = "pending" =>
                             [invitations[i] EXCEPT !.state = "gone"] \in Invitation
    BY ZenonT(60) DEF TypeOK, Invitation
  <2>2. invitations' \in [Invites -> Invitation]
    BY <1>19, <2>1 DEF CleanupInvitations, TypeOK
  <2>3. QED BY <1>19, <1>a, <2>2 DEF CleanupInvitations, TypeOK, TxShape, history, keyPast
<1>20. ASSUME NEW k \in Keys, CreateApiKey(k)
       PROVE  TypeOK' /\ TxShape'
  <2>1. keys' \in [Keys -> ApiKey]
    BY <1>20 DEF CreateApiKey, TypeOK, ApiKey
  <2>2. ops' \in 0..MaxOps
    BY <1>20 DEF CreateApiKey, TypeOK, ConstantsAssumption
  <2>3. QED BY <1>20, <1>a, <2>1, <2>2 DEF CreateApiKey, TypeOK, TxShape, history, keyPast
<1>21. ASSUME NEW k \in Keys, ApiKeyExpires(k)
       PROVE  TypeOK' /\ TxShape'
  <2>1. keys' \in [Keys -> ApiKey]
    BY <1>21 DEF ApiKeyExpires, TypeOK, ApiKey
  <2>2. QED BY <1>21, <1>a, <2>1 DEF ApiKeyExpires, TypeOK, TxShape, history, keyPast
<1>22. ASSUME NEW r \in Requests, NEW k \in Keys, NEW status,
              \/ keys[k].status = "active" /\ status \in {"active", "expired"}
              \/ keys[k].status # "gone" /\ status \in {"revoked", "gone"},
              Begin(r, EditKey(k, status))
       PROVE  TypeOK' /\ TxShape'
  <2>1. /\ keys[k] \in ApiKey /\ [keys[k] EXCEPT !.status = status] \in ApiKey
        /\ [keys[k] EXCEPT !.status = status].status = status
        /\ [keys[k] EXCEPT !.status = status].late = keys[k].late
    BY <1>22 DEF TypeOK, ApiKey
  <2>2. EditKey(k, status) \in Tx /\ Shaped(EditKey(k, status))
    BY <1>22, <2>1 DEF EditKey, Idle, Tx, Shaped
  <2>3. QED BY <1>22, <2>2, BeginStep
<1>23. ASSUME NEW r \in Requests, NEW k \in Keys,
              UseApiKey(r, k) \/ RevokeApiKey(r, k) \/ DeleteApiKey(r, k)
       PROVE  TypeOK' /\ TxShape'
  <2>1. CASE UseApiKey(r, k)
    <3>1. CASE keys[k].late
      BY <2>1, <3>1, <1>22 DEF UseApiKey
    <3>2. CASE ~keys[k].late
      BY <2>1, <3>2, <1>22 DEF UseApiKey
    <3>3. QED BY <3>1, <3>2
  <2>2. CASE RevokeApiKey(r, k)
    BY <2>2, <1>22 DEF RevokeApiKey
  <2>3. CASE DeleteApiKey(r, k)
    BY <2>3, <1>22 DEF DeleteApiKey
  <2>4. QED BY <1>23, <2>1, <2>2, <2>3
<1>24. ASSUME NEW r \in Requests, CommitKey(r)
       PROVE  TypeOK' /\ TxShape'
  <2>1. keys' \in [Keys -> ApiKey] /\ withdrawn' \subseteq Keys /\ overtaken' \subseteq Keys
    BY <1>24, <1>a, CommitKeyType
  <2>2. tx' \in [Requests -> Tx] /\ TxShape'
    BY <1>24, <1>a, EndStep DEF CommitKey
  <2>3. QED BY <1>24, <2>1, <2>2 DEF CommitKey, TypeOK
<1>25. ASSUME NEW r \in Requests, Abort(r)
       PROVE  TypeOK' /\ TxShape'
  <2>1. tx' \in [Requests -> Tx] /\ TxShape'
    BY <1>25, <1>a, EndStep DEF Abort
  <2>2. QED BY <1>25, <2>1 DEF Abort, TypeOK, tables, history, keyPast
<1>26. CASE UNCHANGED vars
  BY <1>26, <1>a DEF vars, tables, history, keyPast, TypeOK, TxShape
<1>27. QED
  BY <1>1, <1>2, <1>3, <1>4, <1>5, <1>6, <1>7, <1>8, <1>9, <1>10, <1>11, <1>12, <1>13,
     <1>14, <1>15, <1>16, <1>17, <1>18, <1>19, <1>20, <1>21, <1>23, <1>24, <1>25, <1>26
  DEF Next, Session, Administration, Invitations, ApiKeys


-----------------------------------------------------------------------------
(* Sessions *)

SessionInv == TokensInHand /\ OneLive /\ SpentIsRevoked /\ TokenSpentOnce

\* A step that leaves the tokens alone, and leaves no request in a session but as it was.
LEMMA SessionCalm ==
    ASSUME SessionInv, UNCHANGED <<tokens, crossed, forked, spent>>,
           \A k \in Requests : Same(k) \/ tx'[k].op \notin {"revoking", "refresh"}
    PROVE  SessionInv'
<1>1. TokensInHand'
  BY DEF SessionInv, TokensInHand, Same, Live
<1>2. OneLive'
  BY DEF SessionInv, OneLive, Live
<1>3. SpentIsRevoked'
  BY DEF SessionInv, SpentIsRevoked, Same
<1>4. TokenSpentOnce'
  BY DEF SessionInv, TokenSpentOnce
<1>5. QED BY <1>1, <1>2, <1>3, <1>4 DEF SessionInv

\* r revokes S, all the live tokens of its user, counts those in D as spent, and
\* issues n (CommitLogin, CommitRefresh).
LEMMA IssueKeeps ==
    ASSUME TypeOK, TxShape, SessionInv, NEW r \in Requests, tx[r].user \in Emails,
           NEW n \in Tokens, NEW S \in SUBSET Tokens, NEW D \in SUBSET S,
           \A t \in S : tokens[t].user = tx[r].user,
           \A t \in Tokens : Live(t, tx[r].user) => t \in S \/ tx[r].user \in crossed,
           \A t \in D : t \notin forked => spent[t] = 0,
           Issue(r, S, n), Spend(r, D),
           tx'[r] = Idle, \A k \in Requests \ {r} : Same(k)
    PROVE  SessionInv'
<1> DEFINE e == tx[r].user
<1>1. /\ n \notin S /\ tokens[n].state = "none"
      /\ tokens'[n] = [state |-> "live", user |-> e]
      /\ \A t \in S : tokens'[t] = [state |-> "revoked", user |-> e]
      /\ \A t \in Tokens : t # n /\ t \notin S => tokens'[t] = tokens[t]
  BY IssueType
<1>2. /\ tokens \in [Tokens -> Token] /\ spent \in [Tokens -> Nat]
      /\ tokens[n].user = NoEmail /\ NoEmail \notin Emails
  <2>1. tokens \in [Tokens -> Token] /\ spent \in [Tokens -> Nat]
    BY DEF TypeOK
  <2>2. tokens[n].user = NoEmail
    BY <1>1, <2>1 DEF Token
  <2>3. QED BY <2>1, <2>2 DEF ConstantsAssumption
<1>3. /\ crossed \subseteq crossed' /\ forked \subseteq forked'
      /\ \A k \in Requests \ {r} :
            tx[k].user = e /\ tx[k].op \in {"revoking", "refresh"} => e \in crossed'
      /\ \A k \in Requests \ {r} : tx[k].token \in D => tx[k].token \in forked'
      /\ \A t \in Tokens : spent'[t] = IF t \in D THEN spent[t] + 1 ELSE spent[t]
  BY DEF Issue, Spend, Others
<1>4. tx'[r].op = "none"
  BY DEF Idle
<1>5. TokensInHand'
  <2> SUFFICES ASSUME NEW k \in Requests
               PROVE  /\ tx'[k].op = "revoking" =>
                           /\ \A t \in tx'[k].takes : tokens'[t].user = tx'[k].user
                           /\ \A t \in Tokens : Live(t, tx[k].user)' =>
                                 t \in tx'[k].takes \/ tx'[k].user \in crossed'
                      /\ tx'[k].op = "refresh" =>
                           /\ tokens'[tx'[k].token].user = tx'[k].user
                           /\ \A t \in Tokens : Live(t, tx[k].user)' =>
                                 t = tx'[k].token \/ tx'[k].user \in crossed'
      BY DEF TokensInHand
  <2>1. CASE k = r \/ tx[k].op \notin {"revoking", "refresh"}
    BY <1>4, <2>1 DEF Same
  <2>2. CASE k # r /\ tx[k].op \in {"revoking", "refresh"}
    <3> DEFINE f == tx[k].user
    <3>1. /\ Same(k) /\ f \in Emails /\ tx[k].takes \in SUBSET Tokens
          /\ tx[k].op = "refresh" => tx[k].token \in Tokens
      BY <2>2 DEF TypeOK, Tx, TxShape, Shaped
    <3>2. \A t \in Tokens : tokens[t].user = f => tokens'[t].user = f
      BY <1>1, <1>2, <3>1
    <3>3. \A t \in Tokens : Live(t, f)' => Live(t, f) \/ f \in crossed'
      BY <1>1, <1>2, <1>3, <2>2, <3>1 DEF Live, Same
    <3>4. CASE tx[k].op = "revoking"
      BY <1>3, <3>1, <3>2, <3>3, <3>4 DEF Same, SessionInv, TokensInHand
    <3>5. CASE tx[k].op = "refresh"
      BY <1>3, <3>1, <3>2, <3>3, <3>5 DEF Same, SessionInv, TokensInHand
    <3>6. QED BY <2>2, <3>4, <3>5
  <2>3. QED BY <2>1, <2>2
<1>6. OneLive'
  <2> SUFFICES ASSUME NEW f \in Emails \ crossed', NEW t \in Tokens, NEW u \in Tokens,
                      Live(t, f)', Live(u, f)'
               PROVE  t = u
      BY DEF OneLive
  <2>1. CASE f = e
    BY <1>1, <1>2, <1>3, <2>1 DEF Live
  <2>2. CASE f # e
    BY <1>1, <1>2, <1>3, <2>2 DEF Live, SessionInv, OneLive
  <2>3. QED BY <2>1, <2>2
<1>7. SpentIsRevoked'
  <2>1. \A t \in Tokens : spent'[t] > 0 => tokens'[t].state = "revoked"
    BY <1>1, <1>2, <1>3 DEF SessionInv, SpentIsRevoked
  <2>2. \A k \in Requests :
          tx'[k].op = "refresh" /\ tx'[k].token \notin forked' => spent'[tx'[k].token] = 0
    <3> SUFFICES ASSUME NEW k \in Requests, tx'[k].op = "refresh", tx'[k].token \notin forked'
                 PROVE  spent'[tx'[k].token] = 0
        OBVIOUS
    <3>1. k # r /\ Same(k)
      BY <1>4
    <3>2. tx[k].token \in Tokens /\ tx[k].token \notin forked /\ tx[k].token \notin D
      BY <1>3, <3>1 DEF Same, TxShape, Shaped
    <3>3. QED BY <1>3, <3>1, <3>2 DEF Same, SessionInv, SpentIsRevoked
  <2>3. QED BY <2>1, <2>2 DEF SpentIsRevoked
<1>8. TokenSpentOnce'
  BY <1>2, <1>3 DEF SessionInv, TokenSpentOnce
<1>9. QED BY <1>5, <1>6, <1>7, <1>8 DEF SessionInv

\* Sessions keep their invariant.
LEMMA SessionStep ==
    ASSUME TypeOK, TxShape, SessionInv, NEW r \in Requests, Session(r)
    PROVE  SessionInv'
<1>a. /\ tx \in [Requests -> Tx] /\ tokens \in [Tokens -> Token] /\ spent \in [Tokens -> Nat]
      /\ \A q \in Requests : Shaped(tx[q])
  BY DEF TypeOK, TxShape
<1>1. ASSUME NEW e \in Emails, Login(r, e) PROVE SessionInv'
  <2>1. /\ \A k \in Requests : Same(k) \/ tx'[k].op \notin {"revoking", "refresh"}
        /\ UNCHANGED <<tokens, crossed, forked, spent>>
    BY <1>a, <1>1 DEF Login, Begin, Idle, Same, tables, history
  <2>2. QED BY <2>1, SessionCalm
<1>2. CASE RevokeTokens(r)
  <2> DEFINE e == tx[r].user
             S == Unrevoked(e)
  <2>1. /\ tx'[r].op = "revoking" /\ tx'[r].user = e /\ tx'[r].takes = S
        /\ \A k \in Requests \ {r} : Same(k)
        /\ UNCHANGED <<tokens, crossed, forked, spent>>
    BY <1>a, <1>2 DEF RevokeTokens, Tx, Same, tables, history
  <2>2. S \in SUBSET Tokens /\ \A t \in S : tokens[t].user = e
    BY DEF Unrevoked
  <2>3. \A t \in Tokens : Live(t, e) => t \in S
    BY DEF Live, Unrevoked
  <2>4. TokensInHand'
    <3> HIDE DEF S
    <3>1. QED BY <2>1, <2>2, <2>3 DEF SessionInv, TokensInHand, Same, Live
  <2>5. OneLive' /\ TokenSpentOnce'
    BY <2>1 DEF SessionInv, OneLive, TokenSpentOnce, Live
  <2>6. SpentIsRevoked'
    BY <2>1 DEF SessionInv, SpentIsRevoked, Same
  <2>7. QED BY <2>4, <2>5, <2>6 DEF SessionInv
<1>3. ASSUME NEW n \in Tokens, CommitLogin(r, n) PROVE SessionInv'
  <2> DEFINE S == tx[r].takes
             D == S \cap Unrevoked(tx[r].user)
  <2>1. /\ tx[r].op = "revoking" /\ tx[r].user \in Emails /\ S \in SUBSET Tokens
        /\ Issue(r, S, n) /\ Spend(r, D)
    BY <1>a, <1>3 DEF CommitLogin, Shaped, Tx
  <2>2. /\ \A t \in S : tokens[t].user = tx[r].user
        /\ \A t \in Tokens : Live(t, tx[r].user) => t \in S \/ tx[r].user \in crossed
    BY <2>1 DEF SessionInv, TokensInHand
  <2>3. D \in SUBSET S /\ \A t \in D : spent[t] = 0
    BY <1>a, <2>1 DEF Unrevoked, SessionInv, SpentIsRevoked
  <2>4. tx'[r] = Idle /\ \A k \in Requests \ {r} : Same(k)
    BY <1>a, <1>3, EndStep DEF CommitLogin
  <2> HIDE DEF S, D
  <2>5. QED BY <2>1, <2>2, <2>3, <2>4, IssueKeeps
<1>4. ASSUME NEW t \in Tokens, Refresh(r, t) PROVE SessionInv'
  <2>1. /\ tx'[r].op = "refresh" /\ tx'[r].token = t /\ tx'[r].user = tokens[t].user
        /\ \A k \in Requests \ {r} : Same(k)
        /\ UNCHANGED <<tokens, crossed, forked, spent>>
        /\ tokens[t].state = "live" /\ tokens[t].user \in Emails
    <3>1. tokens[t].state = "live" /\ tokens[t] \in Token
      BY <1>a, <1>4 DEF Refresh
    <3>2. tokens[t].user \in Emails
      BY <3>1 DEF Token
    <3>3. QED BY <1>a, <1>4, <3>1, <3>2 DEF Refresh, Begin, Idle, Same, tables, history
  <2>2. \A u \in Tokens : Live(u, tokens[t].user) => u = t \/ tokens[t].user \in crossed
    BY <2>1 DEF SessionInv, OneLive, Live
  <2>3. TokensInHand'
    BY <2>1, <2>2 DEF SessionInv, TokensInHand, Same, Live
  <2>4. OneLive' /\ TokenSpentOnce'
    BY <2>1 DEF SessionInv, OneLive, TokenSpentOnce, Live
  <2>5. SpentIsRevoked'
    BY <1>a, <2>1 DEF SessionInv, SpentIsRevoked, Same
  <2>6. QED BY <2>3, <2>4, <2>5 DEF SessionInv
<1>5. ASSUME NEW n \in Tokens, CommitRefresh(r, n) PROVE SessionInv'
  <2> DEFINE S == {tx[r].token}
  <2>1. /\ tx[r].op = "refresh" /\ tx[r].user \in Emails /\ S \in SUBSET Tokens
        /\ Issue(r, S, n) /\ Spend(r, S)
    BY <1>a, <1>5 DEF CommitRefresh, Shaped
  <2>2. /\ \A t \in S : tokens[t].user = tx[r].user
        /\ \A t \in Tokens : Live(t, tx[r].user) => t \in S \/ tx[r].user \in crossed
        /\ \A t \in S : t \notin forked => spent[t] = 0
    BY <2>1 DEF SessionInv, TokensInHand, SpentIsRevoked
  <2>3. tx'[r] = Idle /\ \A k \in Requests \ {r} : Same(k)
    BY <1>a, <1>5, EndStep DEF CommitRefresh
  <2> HIDE DEF S
  <2>4. QED BY <2>1, <2>2, <2>3, IssueKeeps
<1>6. ASSUME NEW t \in Tokens, Logout(r, t) PROVE SessionInv'
  <2> DEFINE D == {t} \cap Unrevoked(tokens[t].user)
  <2>1. /\ tx[r].op = "none" /\ tx' = tx /\ crossed' = crossed
        /\ tokens' = [tokens EXCEPT ![t].state = "revoked"]
        /\ Spend(r, D)
    BY <1>6 DEF Logout
  <2>2. /\ \A u \in Tokens : tokens'[u].user = tokens[u].user
        /\ \A u \in Tokens : u # t => tokens'[u] = tokens[u]
        /\ tokens'[t].state = "revoked"
    BY <1>a, <2>1 DEF Token
  <2>3. /\ forked \subseteq forked'
        /\ \A k \in Requests \ {r} : tx[k].token \in D => tx[k].token \in forked'
        /\ \A u \in Tokens : spent'[u] = IF u \in D THEN spent[u] + 1 ELSE spent[u]
        /\ D \subseteq {t} /\ \A u \in D : spent[u] = 0
    BY <1>a, <2>1 DEF Spend, Others, Unrevoked, SessionInv, SpentIsRevoked
  <2> HIDE DEF D
  <2>4. TokensInHand'
    <3>1. \A k \in Requests : /\ tx[k].takes \in SUBSET Tokens
                              /\ tx[k].op = "refresh" => tx[k].token \in Tokens
      BY <1>a DEF Tx, Shaped
    <3>2. QED BY <2>1, <2>2, <3>1 DEF SessionInv, TokensInHand, Live
  <2>5. OneLive'
    BY <2>1, <2>2 DEF SessionInv, OneLive, Live
  <2>6. SpentIsRevoked'
    <3>1. \A u \in Tokens : spent'[u] > 0 => tokens'[u].state = "revoked"
      BY <1>a, <2>2, <2>3 DEF SessionInv, SpentIsRevoked
    <3>2. \A k \in Requests :
            tx[k].op = "refresh" /\ tx[k].token \notin forked' => spent'[tx[k].token] = 0
      BY <1>a, <2>1, <2>3 DEF SessionInv, SpentIsRevoked, Shaped
    <3>3. QED BY <2>1, <3>1, <3>2 DEF SpentIsRevoked
  <2>7. TokenSpentOnce'
    BY <1>a, <2>3 DEF SessionInv, TokenSpentOnce
  <2>8. QED BY <2>4, <2>5, <2>6, <2>7 DEF SessionInv
<1>7. QED BY <1>1, <1>2, <1>3, <1>4, <1>5, <1>6 DEF Session

\* So does time.
LEMMA ExpiryKeeps ==
    ASSUME TypeOK, TxShape, SessionInv, NEW t \in Tokens, TokenExpires(t)
    PROVE  SessionInv'
<1>1. /\ tokens \in [Tokens -> Token] /\ spent \in [Tokens -> Nat]
      /\ tokens[t].state = "live"
      /\ \A u \in Tokens : tokens'[u].user = tokens[u].user
      /\ \A u \in Tokens : u # t => tokens'[u] = tokens[u]
      /\ tokens'[t].state = "expired"
      /\ UNCHANGED <<tx, crossed, forked, spent>>
  BY DEF TypeOK, TokenExpires, Token, history
<1>2. \A k \in Requests : /\ tx[k].takes \in SUBSET Tokens
                          /\ tx[k].op = "refresh" => tx[k].token \in Tokens
  BY DEF TypeOK, TxShape, Tx, Shaped
<1>3. TokensInHand'
  BY <1>1, <1>2 DEF SessionInv, TokensInHand, Live
<1>4. OneLive' /\ TokenSpentOnce'
  BY <1>1 DEF SessionInv, OneLive, TokenSpentOnce, Live
<1>5. SpentIsRevoked'
  BY <1>1 DEF SessionInv, SpentIsRevoked
<1>6. QED BY <1>3, <1>4, <1>5 DEF SessionInv

-----------------------------------------------------------------------------
(* Users *)

UserInv == CopyIsFresh /\ DeletedStaysOut

\* A step that leaves the users alone, and begins no request that writes one.
LEMMA UserCalm ==
    ASSUME UserInv, UNCHANGED <<users, raced>>,
           \A k \in Requests : Same(k) \/ tx'[k].op \notin {"user", "accept"}
    PROVE  UserInv'
<1>1. CopyIsFresh'
  BY DEF UserInv, CopyIsFresh, Same
<1>2. DeletedStaysOut'
  BY DEF UserInv, DeletedStaysOut
<1>3. QED BY <1>1, <1>2 DEF UserInv

\* A request that reads a user, or finds none.
LEMMA UserRead ==
    ASSUME UserInv, UNCHANGED <<users, raced>>, NEW r \in Requests,
           tx'[r].old = NoRow \/ tx'[r].old = users[tx'[r].user],
           \A k \in Requests \ {r} : Same(k)
    PROVE  UserInv'
<1>1. CopyIsFresh'
  BY DEF UserInv, CopyIsFresh, Same
<1>2. DeletedStaysOut'
  BY DEF UserInv, DeletedStaysOut
<1>3. QED BY <1>1, <1>2 DEF UserInv

\* What was read is committed (WriteUser).
LEMMA UserWrite ==
    ASSUME TypeOK, TxShape, UserInv, NEW r \in Requests, tx[r].op \in {"user", "accept"},
           WriteUser(r), tx'[r] = Idle, \A k \in Requests \ {r} : Same(k)
    PROVE  UserInv'
<1> DEFINE e == tx[r].user
<1>1. /\ \A u \in Emails : u # e => users'[u] = users[u]
      /\ users'[e] # NoRow
      /\ users[e] = tx[r].old => users'[e] = tx[r].new
  BY WriteUserType DEF UserInv, TxShape
<1>2. /\ e \in Emails
      /\ tx[r].new.deleted <=> tx[r].new.status = "deleted"
      /\ tx[r].old = NoRow => users[e] = NoRow
      /\ raced \subseteq raced'
      /\ \A k \in Requests \ {r} : tx[k].user = e /\ tx[k].old # NoRow => e \in raced'
  BY DEF TxShape, Shaped, WriteUser, Others
<1>3. CopyIsFresh'
  <2> SUFFICES ASSUME NEW k \in Requests, tx'[k].op \in {"user", "accept"}, tx'[k].old # NoRow
               PROVE  /\ users'[tx'[k].user] # NoRow
                      /\ users'[tx'[k].user] = tx'[k].old \/ tx'[k].user \in raced'
      BY DEF CopyIsFresh
  <2>1. k # r /\ Same(k)
    BY DEF Idle
  <2>2. tx[k].user \in Emails /\ tx[k].op \in {"user", "accept"} /\ tx[k].old # NoRow
    BY <2>1 DEF Same, TxShape, Shaped
  <2>3. CASE tx[k].user = e
    BY <1>1, <1>2, <2>1, <2>2, <2>3 DEF Same
  <2>4. CASE tx[k].user # e
    BY <1>1, <1>2, <2>1, <2>2, <2>4 DEF Same, UserInv, CopyIsFresh
  <2>5. QED BY <2>3, <2>4
<1>4. DeletedStaysOut'
  <2> SUFFICES ASSUME NEW u \in Emails \ raced', users'[u] # NoRow
               PROVE  users'[u].deleted <=> users'[u].status = "deleted"
      BY DEF DeletedStaysOut
  <2>1. CASE u = e
    <3>1. users[e] = tx[r].old
      <4>1. CASE tx[r].old = NoRow
        BY <1>2, <4>1
      <4>2. CASE tx[r].old # NoRow
        BY <1>2, <2>1, <4>2 DEF UserInv, CopyIsFresh
      <4>3. QED BY <4>1, <4>2
    <3>2. users'[u] = tx[r].new
      BY <1>1, <2>1, <3>1
    <3>3. QED BY <1>2, <3>2
  <2>2. CASE u # e
    BY <1>1, <1>2, <2>2 DEF UserInv, DeletedStaysOut
  <2>3. QED BY <2>1, <2>2
<1>5. QED BY <1>3, <1>4 DEF UserInv

\* The administration of users keeps their invariant.
LEMMA AdministrationStep ==
    ASSUME TypeOK, TxShape, UserInv, NEW r \in Requests, Administration(r)
    PROVE  UserInv'
<1>a. tx \in [Requests -> Tx]
  BY DEF TypeOK
<1>1. ASSUME NEW e \in Emails, CreateUser(r, e) PROVE UserInv'
  <2>1. /\ tx'[r].old = NoRow /\ \A k \in Requests \ {r} : Same(k)
        /\ UNCHANGED <<users, raced>>
    BY <1>a, <1>1 DEF CreateUser, Begin, Idle, Same, tables, history
  <2>2. QED BY <2>1, UserRead
<1>2. ASSUME NEW e \in Emails, NEW new, Begin(r, EditUser("user", e, new)) PROVE UserInv'
  <2>1. /\ tx'[r].old = users[tx'[r].user] /\ \A k \in Requests \ {r} : Same(k)
        /\ UNCHANGED <<users, raced>>
    BY <1>a, <1>2 DEF EditUser, Begin, Idle, Same, tables, history
  <2>2. QED BY <2>1, UserRead
<1>3. ASSUME NEW e \in Emails, DeleteUser(r, e) PROVE UserInv'
  BY <1>2, <1>3 DEF DeleteUser
<1>4. ASSUME NEW e \in Emails, NEW status \in {"active", "suspended"}, UpdateUser(r, e, status)
      PROVE  UserInv'
  BY <1>2, <1>4 DEF UpdateUser
<1>5. CASE CommitUser(r)
  <2>1. tx'[r] = Idle /\ \A k \in Requests \ {r} : Same(k)
    BY <1>a, <1>5, EndStep DEF CommitUser
  <2>2. QED BY <1>5, <2>1, UserWrite DEF CommitUser
<1>6. QED BY <1>1, <1>3, <1>4, <1>5 DEF Administration

-----------------------------------------------------------------------------
(* Invitations *)

InviteInv == OpenUntilSettled /\ InvitationHonest

\* A step that leaves the invitations alone, and begins no request about one.
LEMMA InviteCalm ==
    ASSUME InviteInv, UNCHANGED <<invitations, contested, admitted>>,
           \A k \in Requests : Same(k) \/ tx'[k].op \notin {"accept", "settle"}
    PROVE  InviteInv'
<1>1. OpenUntilSettled'
  BY DEF InviteInv, OpenUntilSettled, Same
<1>2. InvitationHonest'
  BY DEF InviteInv, InvitationHonest
<1>3. QED BY <1>1, <1>2 DEF InviteInv

\* A request that finds a pending invitation.
LEMMA InviteRead ==
    ASSUME InviteInv, UNCHANGED <<invitations, contested, admitted>>, NEW r \in Requests,
           invitations[tx'[r].invite].state = "pending",
           \A k \in Requests \ {r} : Same(k)
    PROVE  InviteInv'
<1>1. OpenUntilSettled'
  BY DEF InviteInv, OpenUntilSettled, Same
<1>2. InvitationHonest'
  BY DEF InviteInv, InvitationHonest
<1>3. QED BY <1>1, <1>2 DEF InviteInv

\* The invitation is settled, which admits its user (n = 1) or not (SettleInvitation).
LEMMA InviteWrite ==
    ASSUME TypeOK, TxShape, InviteInv, NEW r \in Requests, tx[r].op \in {"accept", "settle"},
           SettleInvitation(r), tx'[r] = Idle, \A k \in Requests \ {r} : Same(k),
           admitted' = IF tx[r].op = "accept"
                       THEN [admitted EXCEPT ![tx[r].invite] = @ + 1] ELSE admitted
    PROVE  InviteInv'
<1> DEFINE i == tx[r].invite
<1>1. /\ invitations'[i].state = tx[r].outcome
      /\ \A j \in Invites : j # i => invitations'[j] = invitations[j]
      /\ invitations[i].state # "gone"
  <2>1. Shaped(tx[r]) /\ invitations[tx[r].invite].state # "none"
    BY DEF TxShape, InviteInv, OpenUntilSettled
  <2>2. QED BY <2>1, SettleType
<1>2. /\ i \in Invites /\ admitted \in [Invites -> Nat]
      /\ tx[r].op = "accept" => tx[r].outcome = "accepted"
      /\ tx[r].op = "settle" => tx[r].outcome \in {"revoked", "expired"}
      /\ contested \subseteq contested'
      /\ \A k \in Requests \ {r} : tx[k].invite = i => i \in contested'
  BY DEF TxShape, Shaped, TypeOK, SettleInvitation, Others
<1>3. /\ \A j \in Invites : j # i => admitted'[j] = admitted[j]
      /\ i \notin contested => admitted'[i] = IF tx[r].op = "accept" THEN 1 ELSE 0
  <2>1. i \notin contested => admitted[i] = 0
    BY <1>2 DEF InviteInv, OpenUntilSettled
  <2>2. CASE tx[r].op = "accept"
    BY <1>2, <2>1, <2>2
  <2>3. CASE tx[r].op # "accept"
    BY <1>2, <2>1, <2>3
  <2>4. QED BY <2>2, <2>3
<1>4. OpenUntilSettled'
  <2>1. \A j \in Invites :
          invitations'[j].state \in {"none", "pending", "gone"} => admitted'[j] = 0
    BY <1>1, <1>2, <1>3 DEF InviteInv, OpenUntilSettled
  <2>2. ASSUME NEW k \in Requests, tx'[k].op \in {"accept", "settle"}
        PROVE  /\ invitations'[tx'[k].invite].state # "none"
               /\ \/ invitations'[tx'[k].invite].state \in {"pending", "gone"}
                  \/ tx'[k].invite \in contested'
    <3>1. k # r /\ Same(k)
      BY <2>2 DEF Idle
    <3>2. tx[k].invite \in Invites /\ tx[k].op \in {"accept", "settle"}
      BY <2>2, <3>1 DEF Same, TxShape, Shaped
    <3>3. CASE tx[k].invite = i
      BY <1>1, <1>2, <3>1, <3>2, <3>3 DEF Same
    <3>4. CASE tx[k].invite # i
      BY <1>1, <1>2, <3>1, <3>2, <3>4 DEF Same, InviteInv, OpenUntilSettled
    <3>5. QED BY <3>3, <3>4
  <2>3. QED BY <2>1, <2>2 DEF OpenUntilSettled
<1>5. InvitationHonest'
  <2> SUFFICES ASSUME NEW j \in Invites
               PROVE  /\ j \notin contested' =>
                           admitted'[j] = IF invitations'[j].state = "accepted" THEN 1 ELSE 0
                      /\ invitations'[j].state = "gone" => admitted'[j] = 0
      BY DEF InvitationHonest
  <2>1. CASE j = i
    BY <1>1, <1>2, <1>3, <2>1
  <2>2. CASE j # i
    BY <1>1, <1>2, <1>3, <2>2 DEF InviteInv, InvitationHonest
  <2>3. QED BY <2>1, <2>2
<1>6. QED BY <1>4, <1>5 DEF InviteInv

\* Accepting, refusing and revoking keep the invariants of invitations and of users.
LEMMA InvitationsStep ==
    ASSUME TypeOK, TxShape, UserInv, InviteInv, NEW r \in Requests, Invitations(r)
    PROVE  UserInv' /\ InviteInv'
<1>a. tx \in [Requests -> Tx]
  BY DEF TypeOK
<1>1. ASSUME NEW i \in Invites, AcceptInvitation(r, i) PROVE UserInv' /\ InviteInv'
  <2>1. /\ tx'[r].old = NoRow \/ tx'[r].old = users[tx'[r].user]
        /\ tx'[r].invite = i /\ invitations[i].state = "pending"
        /\ \A k \in Requests \ {r} : Same(k)
        /\ UNCHANGED <<users, raced, invitations, contested, admitted>>
    BY <1>a, <1>1 DEF AcceptInvitation, Begin, Idle, Same, tables, history
  <2>2. QED BY <2>1, UserRead, InviteRead
<1>2. ASSUME NEW i \in Invites, NEW outcome, invitations[i].state = "pending",
             Begin(r, [Idle EXCEPT !.op = "settle", !.invite = i, !.outcome = outcome])
      PROVE  UserInv' /\ InviteInv'
  <2>1. /\ tx'[r].old = NoRow /\ tx'[r].invite = i
        /\ \A k \in Requests \ {r} : Same(k)
        /\ UNCHANGED <<users, raced, invitations, contested, admitted>>
    BY <1>a, <1>2 DEF Begin, Idle, Same, tables, history
  <2>2. QED BY <1>2, <2>1, UserRead, InviteRead
<1>3. CASE CommitAccept(r)
  <2>1. tx'[r] = Idle /\ \A k \in Requests \ {r} : Same(k)
    BY <1>a, <1>3, EndStep DEF CommitAccept
  <2>2. /\ tx[r].op = "accept" /\ WriteUser(r) /\ SettleInvitation(r)
        /\ admitted' = [admitted EXCEPT ![tx[r].invite] = @ + 1]
    BY <1>3 DEF CommitAccept
  <2>3. QED BY <2>1, <2>2, UserWrite, InviteWrite
<1>4. CASE CommitSettle(r)
  <2>1. tx'[r] = Idle /\ \A k \in Requests \ {r} : Same(k)
    BY <1>a, <1>4, EndStep DEF CommitSettle
  <2>2. tx[r].op = "settle" /\ SettleInvitation(r) /\ UNCHANGED <<users, raced, admitted>>
    BY <1>4 DEF CommitSettle
  <2>3. UserInv'
    BY <2>1, <2>2, UserCalm DEF Idle
  <2>4. QED BY <2>1, <2>2, <2>3, InviteWrite
<1>5. QED
  BY <1>1, <1>2, <1>3, <1>4 DEF Invitations, AcceptExpired, RevokeInvitation

\* So do the creation of an invitation, its expiry and its deletion.
LEMMA InvitationTable ==
    ASSUME TypeOK, TxShape, InviteInv,
           \/ \E i \in Invites : InvitationExpires(i) \/ \E e \in Emails : CreateInvitation(i, e)
           \/ CleanupInvitations
    PROVE  InviteInv'
<1>1. invitations \in [Invites -> Invitation]
  BY DEF TypeOK
<1>2. /\ UNCHANGED <<tx, contested, admitted>>
      /\ \A i \in Invites :
            \/ invitations'[i].state = invitations[i].state
            \/ invitations[i].state = "none" /\ invitations'[i].state = "pending"
            \/ invitations[i].state = "pending" /\ invitations'[i].state = "gone"
  <2>1. ASSUME NEW j \in Invites, InvitationExpires(j)
        PROVE  /\ UNCHANGED <<tx, contested, admitted>>
               /\ \A i \in Invites : invitations'[i].state = invitations[i].state
    BY <1>1, <2>1 DEF InvitationExpires, Invitation, history
  <2>2. ASSUME NEW j \in Invites, NEW e \in Emails, CreateInvitation(j, e)
        PROVE  /\ UNCHANGED <<tx, contested, admitted>>
               /\ \A i \in Invites :
                     \/ invitations'[i].state = invitations[i].state
                     \/ invitations[i].state = "none" /\ invitations'[i].state = "pending"
    BY <1>1, <2>2 DEF CreateInvitation, history
  <2>3. ASSUME CleanupInvitations
        PROVE  /\ UNCHANGED <<tx, contested, admitted>>
               /\ \A i \in Invites :
                     \/ invitations'[i].state = invitations[i].state
                     \/ invitations[i].state = "pending" /\ invitations'[i].state = "gone"
    <3>1. \A i \in Invites : [invitations[i] EXCEPT !.state = "gone"].state = "gone"
      BY <1>1 DEF Invitation
    <3>2. QED BY <1>1, <2>3, <3>1 DEF CleanupInvitations, history
  <2>4. QED BY <2>1, <2>2, <2>3
<1>3. \A k \in Requests : tx[k].op \in {"accept", "settle"} => tx[k].invite \in Invites
  BY DEF TxShape, Shaped
<1>4. OpenUntilSettled'
  BY <1>2, <1>3 DEF InviteInv, OpenUntilSettled
<1>5. InvitationHonest'
  BY <1>2 DEF InviteInv, InvitationHonest, OpenUntilSettled
<1>6. QED BY <1>4, <1>5 DEF InviteInv

-----------------------------------------------------------------------------
(* API keys *)

KeyInv == WithdrawalSeen /\ RevokedForGood

\* A step that leaves the keys alone, and begins no request about one.
LEMMA KeyCalm ==
    ASSUME KeyInv, UNCHANGED <<keys, withdrawn, overtaken>>,
           \A k \in Requests : Same(k) \/ tx'[k].op # "key"
    PROVE  KeyInv'
<1>1. WithdrawalSeen'
  BY DEF KeyInv, WithdrawalSeen, Same
<1>2. RevokedForGood'
  BY DEF KeyInv, RevokedForGood
<1>3. QED BY <1>1, <1>2 DEF KeyInv

\* Requests that use, revoke or delete a key keep the invariant.
LEMMA ApiKeysStep ==
    ASSUME TypeOK, TxShape, KeyInv, NEW r \in Requests, ApiKeys(r)
    PROVE  KeyInv'
<1>a. tx \in [Requests -> Tx] /\ keys \in [Keys -> ApiKey]
  BY DEF TypeOK
<1>1. ASSUME NEW k \in Keys, NEW status, Begin(r, EditKey(k, status)) PROVE KeyInv'
  <2>1. /\ tx'[r].key = k /\ tx'[r].old = keys[k]
        /\ \A q \in Requests \ {r} : Same(q)
        /\ UNCHANGED <<keys, withdrawn, overtaken>>
    BY <1>a, <1>1 DEF EditKey, Begin, Idle, Same, tables, history, keyPast
  <2>2. /\ keys[k].status = "revoked" => k \in withdrawn
        /\ keys[k].status = "active" => k \notin withdrawn
    BY DEF KeyInv, WithdrawalSeen, RevokedForGood
  <2>3. WithdrawalSeen'
    BY <2>1, <2>2 DEF KeyInv, WithdrawalSeen, Same
  <2>4. RevokedForGood'
    BY <2>1 DEF KeyInv, RevokedForGood
  <2>5. QED BY <2>3, <2>4 DEF KeyInv
<1>2. ASSUME NEW k \in Keys, UseApiKey(r, k) \/ RevokeApiKey(r, k) \/ DeleteApiKey(r, k)
      PROVE  KeyInv'
  BY <1>1, <1>2 DEF UseApiKey, RevokeApiKey, DeleteApiKey
<1>3. CASE CommitKey(r)
  <2> DEFINE k   == tx[r].key
             old == tx[r].old.status
             new == tx[r].new.status
  <2>1. /\ keys'[k].status = IF new # old THEN new ELSE keys[k].status
        /\ \A j \in Keys : j # k => keys'[j] = keys[j]
    BY <1>3, CommitKeyType DEF TxShape
  <2>2. /\ k \in Keys /\ tx[r].op = "key" /\ keys[k].status # "gone"
        /\ new \in {"active", "expired", "revoked", "gone"} /\ old # "gone"
        /\ new \in {"active", "expired"} => old = "active"
        /\ withdrawn' = IF new = "revoked" THEN withdrawn \cup {k} ELSE withdrawn
        /\ overtaken \subseteq overtaken'
        /\ \A q \in Requests \ {r} : tx[q].key = k => k \in overtaken'
    BY <1>3 DEF CommitKey, TxShape, Shaped, ApiKey, Others
  <2>3. /\ old = "revoked" => k \in withdrawn
        /\ old = "active" /\ k \in withdrawn => k \in overtaken
        /\ keys[k].status = "revoked" => k \in withdrawn
    BY <2>2 DEF KeyInv, WithdrawalSeen
  <2>4. tx'[r].op = "none" /\ \A q \in Requests \ {r} : Same(q)
    BY <1>a, <1>3, EndStep DEF CommitKey, Idle
  <2>5. WithdrawalSeen'
    <3>1. \A j \in Keys : keys'[j].status = "revoked" => j \in withdrawn'
      BY <2>1, <2>2, <2>3 DEF KeyInv, WithdrawalSeen
    <3>2. ASSUME NEW q \in Requests, tx'[q].op = "key"
          PROVE  /\ tx'[q].old.status = "revoked" => tx'[q].key \in withdrawn'
                 /\ tx'[q].old.status = "active" /\ tx'[q].key \in withdrawn' =>
                       tx'[q].key \in overtaken'
      BY <2>2, <2>4, <3>2 DEF KeyInv, WithdrawalSeen, Same
    <3>3. QED BY <3>1, <3>2 DEF WithdrawalSeen
  <2>6. RevokedForGood'
    <3> SUFFICES ASSUME NEW j \in withdrawn'
                 PROVE  \/ keys'[j].status \in {"revoked", "gone"}
                        \/ j \in overtaken' /\ keys'[j].status = "expired"
        BY DEF RevokedForGood
    <3>1. CASE j # k
      <4>1. j \in withdrawn /\ j \in Keys
        BY <2>2, <3>1 DEF TypeOK
      <4>2. QED BY <2>1, <2>2, <3>1, <4>1 DEF KeyInv, RevokedForGood
    <3>2. CASE j = k
      <4>1. CASE new = "revoked" /\ old # "revoked"
        BY <2>1, <3>2, <4>1
      <4>2. CASE ~(new = "revoked" /\ old # "revoked")
        <5>1. k \in withdrawn
          BY <2>2, <2>3, <3>2, <4>2
        <5>2. \/ keys[k].status \in {"revoked", "gone"}
              \/ k \in overtaken /\ keys[k].status = "expired"
          BY <5>1, Zenon DEF KeyInv, RevokedForGood
        <5>3. QED BY <2>1, <2>2, <2>3, <3>2, <4>2, <5>1, <5>2
      <4>3. QED BY <4>1, <4>2
    <3>3. QED BY <3>1, <3>2
  <2>7. QED BY <2>5, <2>6 DEF KeyInv
<1>4. QED BY <1>2, <1>3 DEF ApiKeys

\* So do the creation of a key and its expiry.
LEMMA KeyTable ==
    ASSUME TypeOK, KeyInv, NEW k \in Keys, CreateApiKey(k) \/ ApiKeyExpires(k)
    PROVE  KeyInv'
<1>1. keys \in [Keys -> ApiKey] /\ withdrawn \subseteq Keys
  BY DEF TypeOK
<1>2. /\ UNCHANGED <<tx, withdrawn, overtaken>>
      /\ \A j \in Keys : \/ keys'[j].status = keys[j].status
                         \/ keys[j].status = "none" /\ keys'[j].status = "active"
  <2>1. CASE CreateApiKey(k)
    BY <1>1, <2>1 DEF CreateApiKey, ApiKey, history, keyPast
  <2>2. CASE ApiKeyExpires(k)
    BY <1>1, <2>2 DEF ApiKeyExpires, ApiKey, history, keyPast
  <2>3. QED BY <2>1, <2>2
<1>3. WithdrawalSeen'
  BY <1>2 DEF KeyInv, WithdrawalSeen
<1>4. RevokedForGood'
  BY <1>1, <1>2 DEF KeyInv, RevokedForGood
<1>5. QED BY <1>3, <1>4 DEF KeyInv

-----------------------------------------------------------------------------
(* The theorems *)

\* The invariant has a part for the types and one for each table.
LEMMA IInvParts ==
    IInv <=> TypeOK /\ TxShape /\ SessionInv /\ UserInv /\ InviteInv /\ KeyInv
BY DEF IInv, SessionInv, UserInv, InviteInv, KeyInv

\* The table starts empty but for the owner: the invariant holds.
LEMMA InitIInv == Init => IInv
<1> SUFFICES ASSUME Init PROVE IInv
    OBVIOUS
<1> DEFINE active == [status |-> "active", deleted |-> FALSE]
<1>1. PICK owner \in Emails : users = [e \in Emails |-> IF e = owner THEN active ELSE NoRow]
  BY DEF Init
<1>2. TypeOK
  <2>1. users \in [Emails -> User \cup {NoRow}]
    BY <1>1 DEF User
  <2>2. /\ tokens \in [Tokens -> Token] /\ spent \in [Tokens -> Nat]
        /\ tx \in [Requests -> Tx]
    BY IdleType DEF Init, Token
  <2>3. invitations \in [Invites -> Invitation] /\ admitted \in [Invites -> Nat]
    BY DEF Init, Invitation
  <2>4. keys \in [Keys -> ApiKey]
    BY DEF Init, ApiKey
  <2>5. ops \in 0..MaxOps
    BY DEF Init, ConstantsAssumption
  <2>6. QED BY <2>1, <2>2, <2>3, <2>4, <2>5 DEF TypeOK, Init
<1>3. TxShape
  BY IdleType DEF Init, TxShape
<1>4. \A r \in Requests : tx[r].op = "none"
  BY DEF Init, Idle
<1>5. SessionInv
  BY <1>4 DEF Init, SessionInv, TokensInHand, OneLive, SpentIsRevoked, TokenSpentOnce, Live
<1>6. UserInv
  BY <1>1, <1>4 DEF UserInv, CopyIsFresh, DeletedStaysOut
<1>7. InviteInv
  BY <1>4 DEF Init, InviteInv, OpenUntilSettled, InvitationHonest
<1>8. KeyInv
  BY <1>4 DEF Init, KeyInv, WithdrawalSeen, RevokedForGood
<1>9. QED BY <1>2, <1>3, <1>5, <1>6, <1>7, <1>8, IInvParts

\* Every step keeps the invariant: the part it works on, and the others by their frame.
LEMMA StepIInv == IInv /\ [Next]_vars => IInv'
<1> SUFFICES ASSUME IInv, [Next]_vars PROVE IInv'
    OBVIOUS
<1>1. TypeOK /\ TxShape /\ SessionInv /\ UserInv /\ InviteInv /\ KeyInv
  BY IInvParts
<1>2. TypeOK' /\ TxShape'
  BY <1>1, TypeStep DEF SessionInv, UserInv, InviteInv
<1>3. ASSUME NEW r \in Requests, Session(r)
      PROVE  SessionInv' /\ UserInv' /\ InviteInv' /\ KeyInv'
  <2>1. SessionInv'
    BY <1>1, <1>3, SessionStep
  <2>2. SessionKeeps
    BY <1>1, <1>3, SessionFrame
  <2>3. UserInv' /\ InviteInv' /\ KeyInv'
    BY <1>1, <2>2, UserCalm, InviteCalm, KeyCalm DEF SessionKeeps
  <2>4. QED BY <2>1, <2>3
<1>4. ASSUME NEW r \in Requests, Administration(r)
      PROVE  SessionInv' /\ UserInv' /\ InviteInv' /\ KeyInv'
  <2>1. UserInv'
    BY <1>1, <1>4, AdministrationStep
  <2>2. AdministrationKeeps
    BY <1>1, <1>4, AdministrationFrame
  <2>3. SessionInv' /\ InviteInv' /\ KeyInv'
    BY <1>1, <2>2, SessionCalm, InviteCalm, KeyCalm DEF AdministrationKeeps
  <2>4. QED BY <2>1, <2>3
<1>5. ASSUME NEW r \in Requests, Invitations(r)
      PROVE  SessionInv' /\ UserInv' /\ InviteInv' /\ KeyInv'
  <2>1. UserInv' /\ InviteInv'
    BY <1>1, <1>5, InvitationsStep
  <2>2. InvitationsKeep
    BY <1>1, <1>5, InvitationsFrame
  <2>3. SessionInv' /\ KeyInv'
    BY <1>1, <2>2, SessionCalm, KeyCalm DEF InvitationsKeep
  <2>4. QED BY <2>1, <2>3
<1>6. ASSUME NEW r \in Requests, ApiKeys(r)
      PROVE  SessionInv' /\ UserInv' /\ InviteInv' /\ KeyInv'
  <2>1. KeyInv'
    BY <1>1, <1>6, ApiKeysStep
  <2>2. ApiKeysKeep
    BY <1>1, <1>6, ApiKeysFrame
  <2>3. SessionInv' /\ UserInv' /\ InviteInv'
    BY <1>1, <2>2, SessionCalm, UserCalm, InviteCalm DEF ApiKeysKeep
  <2>4. QED BY <2>1, <2>3
<1>7. ASSUME NEW r \in Requests, Abort(r)
      PROVE  SessionInv' /\ UserInv' /\ InviteInv' /\ KeyInv'
  <2>1. AbortKeeps
    BY <1>1, <1>7, AbortFrame
  <2>2. QED BY <1>1, <2>1, SessionCalm, UserCalm, InviteCalm, KeyCalm DEF AbortKeeps
<1>8. ASSUME NEW k \in Keys, CreateApiKey(k) \/ ApiKeyExpires(k)
      PROVE  SessionInv' /\ UserInv' /\ InviteInv' /\ KeyInv'
  <2>1. KeyInv'
    BY <1>1, <1>8, KeyTable
  <2>2. /\ UNCHANGED <<users, tokens, invitations, history>>
        /\ \A q \in Requests : Same(q)
    BY <1>8 DEF CreateApiKey, ApiKeyExpires, Same
  <2>3. SessionInv' /\ UserInv' /\ InviteInv'
    BY <1>1, <2>2, SessionCalm, UserCalm, InviteCalm DEF history
  <2>4. QED BY <2>1, <2>3
<1>9. ASSUME NEW t \in Tokens, TokenExpires(t)
      PROVE  SessionInv' /\ UserInv' /\ InviteInv' /\ KeyInv'
  <2>1. SessionInv'
    BY <1>1, <1>9, ExpiryKeeps
  <2>2. /\ UNCHANGED <<users, invitations, keys, history>>
        /\ \A q \in Requests : Same(q)
    BY <1>9 DEF TokenExpires, Same
  <2>3. UserInv' /\ InviteInv' /\ KeyInv'
    BY <1>1, <2>2, UserCalm, InviteCalm, KeyCalm DEF history, keyPast
  <2>4. QED BY <2>1, <2>3
<1>10. ASSUME \/ \E i \in Invites : \/ InvitationExpires(i)
                                    \/ \E e \in Emails : CreateInvitation(i, e)
              \/ CleanupInvitations
       PROVE  SessionInv' /\ UserInv' /\ InviteInv' /\ KeyInv'
  <2>1. InviteInv'
    BY <1>1, <1>10, InvitationTable
  <2>2. /\ UNCHANGED <<users, tokens, keys, history>>
        /\ \A q \in Requests : Same(q)
    BY <1>10 DEF InvitationExpires, CreateInvitation, CleanupInvitations, Same
  <2>3. SessionInv' /\ UserInv' /\ KeyInv'
    BY <1>1, <2>2, SessionCalm, UserCalm, KeyCalm DEF history, keyPast
  <2>4. QED BY <2>1, <2>3
<1>11. ASSUME UNCHANGED vars
       PROVE  SessionInv' /\ UserInv' /\ InviteInv' /\ KeyInv'
  <2>1. /\ UNCHANGED <<users, tokens, invitations, keys, history>>
        /\ \A q \in Requests : Same(q)
    BY <1>11 DEF vars, tables, Same
  <2>2. QED
    BY <1>1, <2>1, SessionCalm, UserCalm, InviteCalm, KeyCalm DEF history, keyPast
<1>12. SessionInv' /\ UserInv' /\ InviteInv' /\ KeyInv'
  BY <1>3, <1>4, <1>5, <1>6, <1>7, <1>8, <1>9, <1>10, <1>11 DEF Next
<1>13. QED
  BY <1>2, <1>12 DEF IInv, SessionInv, UserInv, InviteInv, KeyInv

\* The invariant is inductive: in every reachable state the copies, tokens and keys
\* that requests hold are current, or the history tells what overtook them.
THEOREM Inductive == Spec => []IInv
BY InitIInv, StepIInv, PTL DEF Spec

\* Every variable keeps its type, and a request holds what its operation needs.
THEOREM TypeCorrect == Spec => []TypeOK
<1>1. IInv => TypeOK
  BY DEF IInv
<1>2. QED BY <1>1, Inductive, PTL

\* login and refresh leave a user one live refresh token: the UPDATE of a login sees
\* every token unless another was being issued meanwhile.
THEOREM OneSession == Spec => []SingleSession
<1>1. IInv => SingleSession
  <2> SUFFICES ASSUME IInv, NEW e \in Emails \ crossed
               PROVE  Cardinality({t \in Tokens : tokens[t] = [state |-> "live", user |-> e]})
                        <= 1
      BY DEF SingleSession
  <2> DEFINE S == {t \in Tokens : tokens[t] = [state |-> "live", user |-> e]}
  <2>1. \A t, u \in S : t = u
    BY DEF IInv, OneLive, Live
  <2> HIDE DEF S
  <2>2. Cardinality(S) <= 1
    BY <2>1, AtMostOne
  <2>3. QED BY <2>2 DEF S
<1>2. QED BY <1>1, Inductive, PTL

\* A refresh token that login, refresh or logout has ended is not exchanged again: it
\* is revoked, and only a request that had read it before can still exchange it.
THEOREM TokensSpentOnce == Spec => []TokenSpentOnce
<1>1. IInv => TokenSpentOnce
  BY DEF IInv
<1>2. QED BY <1>1, Inductive, PTL

\* update_user and accept_invitation never bring a deleted user back.
THEOREM DeletionsLast == Spec => []DeletedStaysOut
<1>1. IInv => DeletedStaysOut
  BY DEF IInv
<1>2. QED BY <1>1, Inductive, PTL

\* accept_invitation admits a user once, and none for an invitation that was revoked,
\* had expired or was cleaned up.
THEOREM InvitationsHonest == Spec => []InvitationHonest
<1>1. IInv => InvitationHonest
  BY DEF IInv
<1>2. QED BY <1>1, Inductive, PTL

\* No request that had read an API key before its revocation makes it active again.
THEOREM RevocationsLast == Spec => []RevokedForGood
<1>1. IInv => RevokedForGood
  BY DEF IInv
<1>2. QED BY <1>1, Inductive, PTL
=============================================================================
