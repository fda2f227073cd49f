--------------------------- MODULE IdentityProofs ---------------------------
(***************************************************************************)
(* Proofs about Identity, for every set of accounts, requests and          *)
(* replicas: no account or user is lost by logins, links and merges that   *)
(* overlap, "*" survives, refresh tokens rotate, replicas share one key.   *)
(***************************************************************************)
EXTENDS Identity, TLAPS

USE BoundsAssumption, KeysAssumption

ReqType == [pc : ReqPcs, acct : Accounts \cup {"none"}, user : Users \cup {NoUser},
            other : Users \cup {NoUser}, token : Tokens \cup {NoToken}, grants : SUBSET AllScopes]
TokenType == [state : {"unissued", "valid", "revoked", "deleted"},
              owner : Users \cup {NoUser}, login : Tokens \cup {NoToken}]
GhostType == [starTaken : BOOLEAN, mergesMet : BOOLEAN, refreshesMet : BOOLEAN]
BootType == [pc : {"down", "insert", "up"}, key : Replicas \cup {NoKey}]

\* What a request in a given step has in hand.
AccountPcs == {"find", "create", "link", "merge"}
RefreshPcs == {"check", "revoke"}
ReqInv ==
  \A r \in Requests :
    /\ req[r].pc \in AccountPcs => req[r].acct \in Accounts /\ req[r].token = NoToken
    /\ req[r].pc \in RefreshPcs => req[r].token \in Tokens
    /\ req[r].pc = "merge" => req[r].other # NoUser /\ req[r].user # req[r].other

Unowned == \A t \in Tokens : token[t].state = "unissued" => token[t].owner = NoUser

Typed == TypeOK /\ ReqInv /\ Unowned

-----------------------------------------------------------------------------
(***************************************************************************)
(* Requests: a step touches one, and what it makes of it is a request.     *)
(***************************************************************************)
LEMMA SmallFacts ==
  /\ NoUser \notin Users /\ NoToken \notin Tokens
  /\ IdleReq \in ReqType /\ IdleReq.pc = "idle" /\ IdleReq.token = NoToken
BY DEF NoUser, Users, NoToken, Tokens, IdleReq, ReqType, ReqPcs

LEMMA TypedUsers ==
  ASSUME TypeOK
  PROVE  users \subseteq Users /\ NoUser \notin users /\ made \in Nat /\ made <= MaxUsers
BY DEF TypeOK, Users, NoUser

LEMMA SomeUser == ASSUME Typed, NEW u \in users PROVE made > 0
<1>1. users \subseteq 1 .. made /\ made \in Nat
  BY TypedUsers DEF Typed, TypeOK
<1> QED BY <1>1

\* One request changes, to a request that has in hand what its step needs.
Moves(r, q) ==
  /\ req' = [req EXCEPT ![r] = q]
  /\ q \in ReqType
  /\ q.pc \in AccountPcs => q.acct \in Accounts /\ q.token = NoToken
  /\ q.pc \in RefreshPcs => q.token \in Tokens
  /\ q.pc = "merge" => q.other # NoUser /\ q.user # q.other

LEMMA MovesTyped ==
  ASSUME Typed, NEW r \in Requests, NEW q, Moves(r, q)
  PROVE  /\ req' \in [Requests -> ReqType]
         /\ ReqInv'
         /\ req'[r] = q
         /\ \A o \in Requests : o # r => req'[o] = req[o]
<1>1. /\ req' \in [Requests -> ReqType]
      /\ req'[r] = q
      /\ \A o \in Requests : o # r => req'[o] = req[o]
  BY DEF Typed, TypeOK, ReqType, Moves
<1>2. ReqInv'
  BY <1>1 DEF Typed, ReqInv, Moves
<1> QED BY <1>1, <1>2

LEMMA CloseMoves ==
  ASSUME NEW r \in Requests, Close(r) PROVE Moves(r, IdleReq)
BY SmallFacts DEF Close, Moves, AccountPcs, RefreshPcs

\* What each handler makes of its request.
LEMMA LoginMoves ==
  ASSUME NEW r \in Requests, NEW a \in Accounts, Login(r, a)
  PROVE  \E q : Moves(r, q) /\ q.pc = "find" /\ q.token = NoToken
<1> DEFINE q == [IdleReq EXCEPT !.pc = "find", !.acct = a]
<1>1. q \in ReqType /\ q.pc = "find" /\ q.token = NoToken /\ q.acct = a
  BY DEF IdleReq, ReqType, ReqPcs, NoToken, NoUser
<1>2. req' = [req EXCEPT ![r] = q]
  BY DEF Login, Open
<1> QED BY <1>1, <1>2 DEF Moves, AccountPcs, RefreshPcs

LEMMA LinkMoves ==
  ASSUME NEW r \in Requests, NEW a \in Accounts, NEW u \in Users, Link(r, a, u)
  PROVE  \E q : Moves(r, q) /\ q.pc = "link" /\ q.token = NoToken
<1> DEFINE q == [IdleReq EXCEPT !.pc = "link", !.acct = a, !.user = u]
<1>1. q \in ReqType /\ q.pc = "link" /\ q.token = NoToken /\ q.acct = a
  BY DEF IdleReq, ReqType, ReqPcs, NoToken, NoUser
<1>2. req' = [req EXCEPT ![r] = q]
  BY DEF Link, Open
<1> QED BY <1>1, <1>2 DEF Moves, AccountPcs, RefreshPcs

LEMMA RefreshMoves ==
  ASSUME NEW r \in Requests, NEW t \in Tokens, Refresh(r, t)
  PROVE  \E q : Moves(r, q) /\ q.pc = "check" /\ q.token = t
<1> DEFINE q == [IdleReq EXCEPT !.pc = "check", !.token = t]
<1>1. q \in ReqType /\ q.pc = "check" /\ q.token = t
  BY DEF IdleReq, ReqType, ReqPcs, NoToken, NoUser
<1>2. req' = [req EXCEPT ![r] = q]
  BY DEF Refresh, Open
<1> QED BY <1>1, <1>2 DEF Moves, AccountPcs, RefreshPcs

\* A request goes on with another step and perhaps another user.
LEMMA GoesOn ==
  ASSUME Typed, NEW r \in Requests, NEW u \in Users \cup {NoUser},
         NEW pc \in {"create", "issue", "revoke"},
         pc = "create" => req[r].pc \in AccountPcs,
         pc = "revoke" => req[r].pc \in RefreshPcs,
         req' = [req EXCEPT ![r].pc = pc, ![r].user = u]
  PROVE  \E q : Moves(r, q) /\ q.pc = pc /\ q.user = u /\ q.token = req[r].token
<1> DEFINE q == [req[r] EXCEPT !.pc = pc, !.user = u]
<1>0. req[r] \in ReqType
  BY DEF Typed, TypeOK, ReqType
<1>1. /\ q \in ReqType /\ q.pc = pc /\ q.user = u /\ q.token = req[r].token
      /\ q.acct = req[r].acct
  BY <1>0 DEF ReqType, ReqPcs
<1>2. req' = [req EXCEPT ![r] = q]
  BY DEF Typed, TypeOK
<1> QED BY <1>1, <1>2 DEF Moves, AccountPcs, RefreshPcs, Typed, ReqInv

LEMMA IssuesNext ==
  ASSUME Typed, NEW r \in Requests, req' = [req EXCEPT ![r].pc = "issue"]
  PROVE  \E q : Moves(r, q) /\ q.pc = "issue" /\ q.user = req[r].user /\ q.token = req[r].token
<1> DEFINE q == [req[r] EXCEPT !.pc = "issue"]
<1>0. req[r] \in ReqType
  BY DEF Typed, TypeOK, ReqType
<1>1. q \in ReqType /\ q.pc = "issue" /\ q.user = req[r].user /\ q.token = req[r].token
  BY <1>0 DEF ReqType, ReqPcs
<1>2. req' = [req EXCEPT ![r] = q]
  BY DEF Typed, TypeOK
<1> QED BY <1>1, <1>2 DEF Moves, AccountPcs, RefreshPcs

LEMMA MergeReadMoves ==
  ASSUME Typed, NEW r \in Requests, MergeRead(r)
  PROVE  \E q : /\ Moves(r, q) /\ q.pc = "merge" /\ q.token = NoToken
                /\ q.other = link[req[r].acct] /\ q.grants = grants[q.other]
<1> DEFINE o == link[req[r].acct]
           q == [req[r] EXCEPT !.pc = "merge", !.other = o, !.grants = grants[o]]
<1>0. req[r] \in ReqType /\ req[r].acct \in Accounts /\ req[r].token = NoToken
  BY DEF Typed, TypeOK, ReqType, ReqInv, AccountPcs, MergeRead
<1>1. o \in users /\ o # NoUser /\ o # req[r].user
  BY <1>0 DEF MergeRead, Typed, TypeOK
<1>2. grants[o] \in SUBSET AllScopes /\ o \in Users
  BY <1>1, TypedUsers DEF Typed, TypeOK
<1>3. /\ q \in ReqType /\ q.pc = "merge" /\ q.token = NoToken /\ q.acct = req[r].acct
      /\ q.other = o /\ q.user = req[r].user /\ q.grants = grants[o]
  BY <1>0, <1>2 DEF ReqType, ReqPcs
<1>4. req' = [req EXCEPT ![r] = q]
  BY DEF MergeRead, Typed, TypeOK
<1> QED BY <1>0, <1>1, <1>3, <1>4 DEF Moves, AccountPcs, RefreshPcs
-----------------------------------------------------------------------------
(***************************************************************************)
(* Types.  TypeOK also says that links and valid tokens name users that    *)
(* exist, which a merge has to keep true.                                  *)
(***************************************************************************)
\* Nothing but requests and the ghost changes.
Data == <<people, grants, token, codes, keys>>

LEMMA DataKept ==
  ASSUME Typed, UNCHANGED Data, ghost' \in GhostType, req' \in [Requests -> ReqType], ReqInv'
  PROVE  Typed'
BY DEF Typed, TypeOK, Unowned, Data, people, keys, Issued, Valid, GhostType, ReqType

\* The tables of people, scopes and tokens after a step that keeps their types.
TablesOK ==
  /\ users \in SUBSET (1 .. made) /\ made \in 0 .. MaxUsers
  /\ link \in [Accounts -> users \cup {NoUser}]
  /\ grants \in [Users -> SUBSET AllScopes]
  /\ token \in [Tokens -> TokenType]
  /\ codes \subseteq Issued
  /\ \A t \in Valid : token[t].owner \in users
  /\ Unowned

LEMMA TablesMoved ==
  ASSUME Typed, TablesOK', UNCHANGED keys, ghost' \in GhostType,
         req' \in [Requests -> ReqType], ReqInv'
  PROVE  Typed'
BY DEF Typed, TypeOK, TablesOK, keys, TokenType, GhostType, ReqType

LEMMA TypedParts ==
  ASSUME Typed
  PROVE  /\ TablesOK /\ ReqInv /\ ghost \in GhostType
         /\ req \in [Requests -> ReqType]
         /\ boot \in [Replicas -> BootType] /\ key \in Replicas \cup {NoKey}
BY DEF Typed, TypeOK, TablesOK, GhostType, ReqType, TokenType, BootType

\* create_user_and_link.
LEMMA CreateUserTables ==
  ASSUME Typed, NEW r \in Requests, CreateUser(r), link[req[r].acct] = NoUser
  PROVE  /\ TablesOK'
         /\ made' = made + 1 /\ users' = users \cup {made'} /\ made' \in Users /\ made' \notin users
         /\ req[r].acct \in Accounts
         /\ link'[req[r].acct] = made'
         /\ \A a \in Accounts : a # req[r].acct => link'[a] = link[a]
<1>1. req[r].acct \in Accounts
  BY DEF CreateUser, Typed, ReqInv, AccountPcs
<1>2. /\ made' = made + 1 /\ users' = users \cup {made'} /\ made < MaxUsers
      /\ link' = [link EXCEPT ![req[r].acct] = made']
      /\ grants' = IF users = {} THEN [grants EXCEPT ![made'] = {Star}] ELSE grants
      /\ UNCHANGED <<token, codes>>
  BY DEF CreateUser
<1>3. made \in Nat /\ users \subseteq 1 .. made /\ link \in [Accounts -> users \cup {NoUser}]
  BY TypedUsers DEF Typed, TypeOK
<1>4. made' \in Users /\ made' \notin users /\ made' \in 0 .. MaxUsers /\ users' \subseteq 1 .. made'
  BY <1>2, <1>3 DEF Users
<1>5. link' \in [Accounts -> users' \cup {NoUser}]
  BY <1>1, <1>2, <1>3
<1>6. grants' \in [Users -> SUBSET AllScopes]
  BY <1>2, <1>4 DEF Typed, TypeOK, AllScopes
<1>7. /\ token' \in [Tokens -> TokenType] /\ codes' \subseteq Issued'
      /\ \A t \in Valid' : token'[t].owner \in users'
      /\ Unowned'
  BY <1>2 DEF Typed, TypeOK, TokenType, Issued, Valid, Unowned
<1> QED BY <1>1, <1>2, <1>3, <1>4, <1>5, <1>6, <1>7 DEF TablesOK

\* link_account_to_user, the new link.
LEMMA LinkTables ==
  ASSUME Typed, NEW r \in Requests, LinkAccount(r), req[r].user \in users
  PROVE  /\ TablesOK'
         /\ req[r].acct \in Accounts
         /\ link[req[r].acct] \in {NoUser, req[r].user}
         /\ link'[req[r].acct] = req[r].user
         /\ \A a \in Accounts : a # req[r].acct => link'[a] = link[a]
<1>1. req[r].acct \in Accounts
  BY DEF LinkAccount, Typed, ReqInv, AccountPcs
<1>2. /\ link' = [link EXCEPT ![req[r].acct] = req[r].user]
      /\ link[req[r].acct] \in {NoUser, req[r].user}
      /\ UNCHANGED <<users, made, grants, token, codes>>
  BY DEF LinkAccount
<1>3. link' \in [Accounts -> users' \cup {NoUser}]
  BY <1>1, <1>2 DEF Typed, TypeOK
<1> QED BY <1>1, <1>2, <1>3 DEF TablesOK, Typed, TypeOK, TokenType, Issued, Valid, Unowned

\* The tail of a merge that is not rolled back.
LEMMA MergeTables ==
  ASSUME Typed, NEW r \in Requests, MergeCommit(r), req[r].user \in users
  PROVE  /\ TablesOK'
         /\ req[r].other \in Users /\ req[r].other # req[r].user
         /\ users' = users \ {req[r].other} /\ made' = made
         /\ \A a \in Accounts : link'[a] = IF link[a] = req[r].other THEN req[r].user ELSE link[a]
         /\ \A u \in Users : grants'[u] = CASE u = req[r].other -> {}
                                            [] u = req[r].user -> grants[u] \cup req[r].grants
                                            [] OTHER -> grants[u]
         /\ \A t \in Tokens : /\ token'[t].login = token[t].login
                              /\ token'[t].owner = token[t].owner
                              /\ token'[t].state \in {token[t].state, "deleted"}
                              /\ token[t].state = "unissued" => token'[t].state = "unissued"
<1> DEFINE o == req[r].other  u == req[r].user
<1>1. o \in Users /\ o # u /\ u \in Users /\ req[r].grants \in SUBSET AllScopes
  BY TypedUsers DEF MergeCommit, MergeInto, Typed, TypeOK, ReqInv
<1>2. /\ link' = [a \in Accounts |-> IF link[a] = o THEN u ELSE link[a]]
      /\ grants' = [grants EXCEPT ![u] = @ \cup req[r].grants, ![o] = {}]
      /\ token' = [t \in Tokens |-> IF token[t].owner = o
                                      THEN [token[t] EXCEPT !.state = "deleted"] ELSE token[t]]
      /\ users' = users \ {o}
      /\ UNCHANGED <<made, codes>>
  BY DEF MergeCommit, MergeInto, MovedLinks, MovedGrants
<1>3. \A w \in Users : grants'[w] = CASE w = o -> {}
                                      [] w = u -> grants[w] \cup req[r].grants
                                      [] OTHER -> grants[w]
  BY <1>1, <1>2 DEF Typed, TypeOK
<1>4. grants' \in [Users -> SUBSET AllScopes]
  BY <1>1, <1>2 DEF Typed, TypeOK
<1>5. link' \in [Accounts -> users' \cup {NoUser}]
  BY <1>1, <1>2 DEF Typed, TypeOK
<1>6. token' \in [Tokens -> TokenType]
  BY <1>2 DEF Typed, TypeOK, TokenType
<1>7. \A t \in Tokens : /\ token'[t].login = token[t].login
                        /\ token'[t].owner = token[t].owner
                        /\ token[t].owner = o => token'[t].state = "deleted"
                        /\ token[t].owner # o => token'[t].state = token[t].state
  BY <1>2 DEF Typed, TypeOK
<1>8. \A t \in Tokens : token[t].state = "unissued" => token'[t] = token[t] /\ token[t].owner = NoUser
  BY <1>1, <1>2, SmallFacts DEF Typed, Unowned
<1>9. \A t \in Tokens : token'[t].state = "unissued" => token[t].state = "unissued"
  BY <1>7
<1>10. codes' \subseteq Issued' /\ Unowned'
  BY <1>2, <1>8, <1>9 DEF Typed, TypeOK, Issued, Unowned
<1>11. \A t \in Valid' : token'[t].owner \in users'
  BY <1>2, <1>7 DEF Typed, TypeOK, Valid
<1>12. TablesOK'
  BY <1>2, <1>4, <1>5, <1>6, <1>10, <1>11 DEF TablesOK, Typed, TypeOK
<1> QED BY <1>1, <1>2, <1>3, <1>7, <1>8, <1>12
\* TokenIssuer::issue for a user that is there: one token, never issued before.
LEMMA IssueTables ==
  ASSUME Typed, NEW r \in Requests, Issue(r), req[r].user \in users
  PROVE  \E t \in Tokens \ Issued :
           /\ TablesOK'
           /\ token'[t].state = "valid"
           /\ token'[t].login = IF req[r].token = NoToken THEN t ELSE token[req[r].token].login
           /\ \A s \in Tokens : s # t => token'[s] = token[s]
<1>1. PICK t \in Tokens \ Issued :
        /\ token' = [token EXCEPT ![t] =
             [state |-> "valid", owner |-> req[r].user,
              login |-> IF req[r].token = NoToken THEN t ELSE token[req[r].token].login]]
        /\ codes' \in {codes, codes \cup {t}}
  BY DEF Issue
<1>2. req[r].user \in Users /\ req[r].token \in Tokens \cup {NoToken}
  BY TypedUsers DEF Typed, TypeOK
<1>3. (IF req[r].token = NoToken THEN t ELSE token[req[r].token].login) \in Tokens \cup {NoToken}
  BY <1>2 DEF Typed, TypeOK
<1>4. token' \in [Tokens -> TokenType]
  BY <1>1, <1>2, <1>3 DEF Typed, TypeOK, TokenType
<1>5. /\ token'[t].state = "valid" /\ token'[t].owner = req[r].user
      /\ token'[t].login = IF req[r].token = NoToken THEN t ELSE token[req[r].token].login
      /\ \A s \in Tokens : s # t => token'[s] = token[s]
  BY <1>1 DEF Typed, TypeOK
<1>6. UNCHANGED <<users, made, link, grants>>
  BY DEF Issue, people
<1>7. /\ codes' \subseteq Issued' /\ Unowned'
      /\ \A s \in Valid' : token'[s].owner \in users'
  BY <1>1, <1>5, <1>6 DEF Typed, TypeOK, Issued, Valid, Unowned
<1>8. TablesOK'
  BY <1>4, <1>6, <1>7 DEF TablesOK, Typed, TypeOK
<1> QED BY <1>1, <1>5, <1>8

\* The revocation of a token that is still valid.
LEMMA RevokeTables ==
  ASSUME Typed, NEW r \in Requests, RevokeToken(r)
  PROVE  /\ TablesOK'
         /\ \A t \in Tokens : /\ token'[t].login = token[t].login
                              /\ token'[t].state = IF t = req[r].token /\ token[t].state = "valid"
                                                     THEN "revoked" ELSE token[t].state
<1>1. /\ token' = IF req[r].token \in Valid THEN [token EXCEPT ![req[r].token].state = "revoked"]
                  ELSE token
      /\ UNCHANGED <<users, made, link, grants, codes>>
  BY DEF RevokeToken, people
<1>2. token' \in [Tokens -> TokenType]
  BY <1>1 DEF Typed, TypeOK, TokenType, Valid
<1>3. \A t \in Tokens : /\ token'[t].login = token[t].login /\ token'[t].owner = token[t].owner
                        /\ token'[t].state = IF t = req[r].token /\ token[t].state = "valid"
                                               THEN "revoked" ELSE token[t].state
  BY <1>1 DEF Typed, TypeOK, Valid
<1>4. codes' \subseteq Issued' /\ Unowned' /\ \A t \in Valid' : token'[t].owner \in users'
  BY <1>1, <1>3 DEF Typed, TypeOK, Issued, Valid, Unowned
<1>5. TablesOK'
  BY <1>1, <1>2, <1>4 DEF TablesOK, Typed, TypeOK
<1> QED BY <1>3, <1>5

LEMMA InitTyped == Init => Typed
<1> SUFFICES ASSUME Init PROVE Typed
  OBVIOUS
<1>1. \A r \in Requests : req[r] = IdleReq
  BY DEF Init
<1>2. ReqInv
  BY <1>1, SmallFacts DEF ReqInv, AccountPcs, RefreshPcs
<1>3. req \in [Requests -> ReqType]
  BY SmallFacts DEF Init
<1>4. \A t \in Tokens : token[t] = NewToken
  BY DEF Init
<1>5. NewToken \in TokenType /\ NewToken.state = "unissued" /\ NewToken.owner = NoUser
  BY DEF NewToken, TokenType
<1>6. token \in [Tokens -> TokenType] /\ Valid = {} /\ Unowned
  BY <1>4, <1>5 DEF Init, Valid, Unowned
<1>7. TypeOK
  BY <1>3, <1>6 DEF Init, TypeOK, ReqType, TokenType, Issued
<1> QED BY <1>2, <1>6, <1>7 DEF Typed

\* Every step keeps every variable in its type.
LEMMA TypedStep == Typed /\ [Next]_vars => Typed'
<1> SUFFICES ASSUME Typed, [Next]_vars PROVE Typed'
  OBVIOUS
<1>0. /\ TablesOK /\ ReqInv /\ ghost \in GhostType
      /\ req \in [Requests -> ReqType]
      /\ boot \in [Replicas -> BootType] /\ key \in Replicas \cup {NoKey}
  BY TypedParts
<1>1. ASSUME NEW p \in Replicas, GetSigningKey(p) \/ InsertSigningKey(p) PROVE Typed'
  <2>1. boot' \in [Replicas -> BootType] /\ key' \in Replicas \cup {NoKey}
    BY <1>0, <1>1 DEF GetSigningKey, InsertSigningKey, BootType
  <2>2. UNCHANGED <<users, made, link, grants, token, codes, req, ghost>>
    BY <1>1 DEF GetSigningKey, InsertSigningKey, people
  <2> QED BY <2>1, <2>2 DEF Typed, TypeOK, ReqInv, Unowned, BootType, Issued, Valid
<1>2. ASSUME NEW r \in Requests, NEW a \in Accounts, Login(r, a) PROVE Typed'
  <2>1. UNCHANGED Data /\ UNCHANGED ghost
    BY <1>2 DEF Login, Open, Data
  <2>2. PICK q : Moves(r, q)
    BY <1>2, LoginMoves
  <2> QED BY <1>0, <2>1, <2>2, MovesTyped, DataKept
<1>3. ASSUME NEW r \in Requests, NEW a \in Accounts, NEW u \in Users, Link(r, a, u) PROVE Typed'
  <2>1. UNCHANGED Data /\ UNCHANGED ghost
    BY <1>3 DEF Link, Open, Data
  <2>2. PICK q : Moves(r, q)
    BY <1>3, LinkMoves
  <2> QED BY <1>0, <2>1, <2>2, MovesTyped, DataKept
<1>4. ASSUME NEW r \in Requests, Find(r) PROVE Typed'
  <2>1. UNCHANGED Data /\ UNCHANGED ghost
    BY <1>4 DEF Find, Data
  <2>2. req[r].acct \in Accounts /\ req[r].pc \in AccountPcs
    BY <1>4, <1>0 DEF Find, ReqInv, AccountPcs
  <2>3. link[req[r].acct] \in Users \cup {NoUser}
    BY <2>2, TypedUsers DEF Typed, TypeOK
  <2>4. PICK pc \in {"create", "issue"} :
          req' = [req EXCEPT ![r].pc = pc, ![r].user = link[req[r].acct]]
    BY <1>4 DEF Find
  <2>5. PICK q : Moves(r, q)
    BY <2>2, <2>3, <2>4, GoesOn
  <2> QED BY <1>0, <2>1, <2>5, MovesTyped, DataKept
<1>5. ASSUME NEW r \in Requests, CreateUser(r) PROVE Typed'
  <2>1. CASE link[req[r].acct] # NoUser
    <3>1. UNCHANGED Data /\ UNCHANGED ghost /\ Close(r)
      BY <1>5, <2>1 DEF CreateUser, Data, people
    <3> QED BY <1>0, <3>1, CloseMoves, MovesTyped, DataKept
  <2>2. CASE link[req[r].acct] = NoUser
    <3>1. TablesOK' /\ made' \in Users
      BY <1>5, <2>2, CreateUserTables
    <3>2. UNCHANGED keys /\ UNCHANGED ghost /\ req' = [req EXCEPT ![r].pc = "issue", ![r].user = made']
      BY <1>5, <2>2 DEF CreateUser
    <3>3. PICK q : Moves(r, q)
      BY <3>1, <3>2, GoesOn
    <3> QED BY <1>0, <3>1, <3>2, <3>3, MovesTyped, TablesMoved
  <2> QED BY <2>1, <2>2
<1>6. ASSUME NEW r \in Requests, LinkAccount(r) PROVE Typed'
  <2>1. CASE req[r].user \notin users
    <3>1. UNCHANGED Data /\ UNCHANGED ghost /\ Close(r)
      BY <1>6, <2>1 DEF LinkAccount, Data, people
    <3> QED BY <1>0, <3>1, CloseMoves, MovesTyped, DataKept
  <2>2. CASE req[r].user \in users
    <3>1. TablesOK'
      BY <1>6, <2>2, LinkTables
    <3>2. UNCHANGED keys /\ UNCHANGED ghost /\ req' = [req EXCEPT ![r].pc = "issue"]
      BY <1>6, <2>2 DEF LinkAccount
    <3>3. PICK q : Moves(r, q)
      BY <3>2, IssuesNext
    <3> QED BY <1>0, <3>1, <3>2, <3>3, MovesTyped, TablesMoved
  <2> QED BY <2>1, <2>2
<1>7. ASSUME NEW r \in Requests, MergeRead(r) PROVE Typed'
  <2>1. UNCHANGED Data
    BY <1>7 DEF MergeRead, Data
  <2>2. ghost' \in GhostType
    BY <1>0, <1>7 DEF MergeRead, GhostType
  <2>3. PICK q : Moves(r, q)
    BY <1>7, MergeReadMoves
  <2> QED BY <2>1, <2>2, <2>3, MovesTyped, DataKept
<1>8. ASSUME NEW r \in Requests, MergeCommit(r) PROVE Typed'
  <2>1. CASE req[r].user \notin users
    <3>1. UNCHANGED Data /\ UNCHANGED ghost /\ Close(r)
      BY <1>8, <2>1 DEF MergeCommit, MergeInto, Data, people
    <3> QED BY <1>0, <3>1, CloseMoves, MovesTyped, DataKept
  <2>2. CASE req[r].user \in users
    <3>1. TablesOK'
      BY <1>8, <2>2, MergeTables
    <3>2. UNCHANGED keys /\ UNCHANGED ghost /\ req' = [req EXCEPT ![r].pc = "issue"]
      BY <1>8, <2>2 DEF MergeCommit, MergeInto
    <3>3. PICK q : Moves(r, q)
      BY <3>2, IssuesNext
    <3> QED BY <1>0, <3>1, <3>2, <3>3, MovesTyped, TablesMoved
  <2> QED BY <2>1, <2>2
<1>9. ASSUME NEW r \in Requests, Issue(r) PROVE Typed'
  <2>1. Close(r) /\ UNCHANGED <<people, grants, keys, ghost>>
    BY <1>9 DEF Issue
  <2>2. CASE req[r].user \notin users
    <3>1. UNCHANGED Data
      BY <1>9, <2>1, <2>2 DEF Issue, Data
    <3> QED BY <1>0, <2>1, <3>1, CloseMoves, MovesTyped, DataKept
  <2>3. CASE req[r].user \in users
    <3>1. TablesOK'
      BY <1>9, <2>3, IssueTables
    <3> QED BY <1>0, <2>1, <3>1, CloseMoves, MovesTyped, TablesMoved
  <2> QED BY <2>2, <2>3
<1>10. ASSUME NEW r \in Requests, NEW t \in Tokens, Refresh(r, t) PROVE Typed'
  <2>1. UNCHANGED Data
    BY <1>10 DEF Refresh, Open, Data
  <2>2. ghost' \in GhostType
    BY <1>0, <1>10 DEF Refresh, GhostType
  <2>3. PICK q : Moves(r, q)
    BY <1>10, RefreshMoves
  <2> QED BY <2>1, <2>2, <2>3, MovesTyped, DataKept
<1>11. ASSUME NEW r \in Requests, CheckToken(r) PROVE Typed'
  <2>1. UNCHANGED Data /\ UNCHANGED ghost
    BY <1>11 DEF CheckToken, Data
  <2>2. CASE Close(r)
    BY <1>0, <2>1, <2>2, CloseMoves, MovesTyped, DataKept
  <2>3. CASE /\ req[r].token \in Valid
             /\ req' = [req EXCEPT ![r].pc = "revoke", ![r].user = token[req[r].token].owner]
    <3>1. token[req[r].token].owner \in Users
      BY <2>3, TypedUsers DEF Typed, TypeOK
    <3>2. req[r].pc \in RefreshPcs
      BY <1>11 DEF CheckToken, RefreshPcs
    <3>3. PICK q : Moves(r, q)
      BY <2>3, <3>1, <3>2, GoesOn
    <3> QED BY <1>0, <2>1, <3>3, MovesTyped, DataKept
  <2> QED BY <1>11, <2>2, <2>3 DEF CheckToken
<1>12. ASSUME NEW r \in Requests, RevokeToken(r) PROVE Typed'
  <2>1. UNCHANGED keys /\ UNCHANGED ghost /\ req' = [req EXCEPT ![r].pc = "issue"]
    BY <1>12 DEF RevokeToken
  <2>2. PICK q : Moves(r, q)
    BY <2>1, IssuesNext
  <2>3. TablesOK'
    BY <1>12, RevokeTables
  <2> QED BY <1>0, <2>1, <2>2, <2>3, MovesTyped, TablesMoved
<1>13. ASSUME NEW r \in Requests, Abort(r) PROVE Typed'
  <2>1. UNCHANGED Data /\ UNCHANGED ghost /\ Close(r)
    BY <1>13 DEF Abort, Data
  <2> QED BY <1>0, <2>1, CloseMoves, MovesTyped, DataKept
<1>14. ASSUME NEW t \in Tokens, Exchange(t) PROVE Typed'
  <2>1. codes' \subseteq codes /\ UNCHANGED <<users, made, link, grants, token, req, key, boot, ghost>>
    BY <1>14 DEF Exchange, people, keys
  <2> QED BY <2>1 DEF Typed, TypeOK, ReqInv, Unowned, Issued, Valid
<1>15. ASSUME NEW u \in Users, NEW s \in SUBSET AllScopes, SetScopes(u, s) PROVE Typed'
  <2>1. grants' \in [Users -> SUBSET AllScopes]
    BY <1>15 DEF SetScopes, Typed, TypeOK
  <2>2. ghost' \in GhostType
    BY <1>0, <1>15 DEF SetScopes, GhostType
  <2>3. UNCHANGED <<users, made, link, token, codes, req, key, boot>>
    BY <1>15 DEF SetScopes, people, keys
  <2> QED BY <2>1, <2>2, <2>3 DEF Typed, TypeOK, GhostType, ReqInv, Unowned, Issued, Valid
<1>16. CASE UNCHANGED vars
  BY <1>16 DEF vars, Typed, TypeOK, ReqInv, Unowned, Issued, Valid
<1> QED
  BY <1>1, <1>2, <1>3, <1>4, <1>5, <1>6, <1>7, <1>8, <1>9, <1>10, <1>11, <1>12, <1>13, <1>14,
     <1>15, <1>16 DEF Next

(***************************************************************************)
(* Every table keeps its type; in particular no link and no valid refresh  *)
(* token ever names a user that a merge has deleted.                       *)
(***************************************************************************)
THEOREM TypeCorrect == Spec => []TypeOK
<1>1. Typed => TypeOK
  BY DEF Typed
<1> QED BY <1>1, InitTyped, TypedStep, PTL DEF Spec
-----------------------------------------------------------------------------
(***************************************************************************)
(* Accounts and users.                                                     *)
(***************************************************************************)
\* What a step can do to the users and their links.
Unlinked == UNCHANGED <<users, made, link>>
LinksNewUser(a) ==
  /\ a \in Accounts /\ link[a] = NoUser /\ link'[a] # NoUser /\ link'[a] \notin users
  /\ users' = users \cup {link'[a]}
  /\ \A b \in Accounts : b # a => link'[b] = link[b]
LinksAgain(a) ==
  /\ a \in Accounts /\ link'[a] \in users /\ link[a] \in {NoUser, link'[a]}
  /\ users' = users
  /\ \A b \in Accounts : b # a => link'[b] = link[b]
MergesUsers(o, u) ==
  /\ o # u /\ o # NoUser /\ u \in users /\ users' = users \ {o}
  /\ \A a \in Accounts : link'[a] = IF link[a] = o THEN u ELSE link[a]

LEMMA LinkSteps ==
  ASSUME Typed, [Next]_vars
  PROVE  \/ Unlinked
         \/ \E a : LinksNewUser(a) \/ LinksAgain(a)
         \/ \E o, u : MergesUsers(o, u)
<1> DEFINE Goal == \/ Unlinked
                   \/ \E a : LinksNewUser(a) \/ LinksAgain(a)
                   \/ \E o, u : MergesUsers(o, u)
<1>1. ASSUME NEW r \in Requests, CreateUser(r) PROVE Goal
  <2>1. CASE link[req[r].acct] # NoUser
    BY <1>1, <2>1 DEF CreateUser, Unlinked, people
  <2>2. CASE link[req[r].acct] = NoUser
    <3>1. LinksNewUser(req[r].acct)
      BY <1>1, <2>2, CreateUserTables, SmallFacts DEF LinksNewUser
    <3> QED BY <3>1
  <2> QED BY <2>1, <2>2
<1>2. ASSUME NEW r \in Requests, LinkAccount(r) PROVE Goal
  <2>1. CASE req[r].user \notin users
    BY <1>2, <2>1 DEF LinkAccount, Unlinked
  <2>2. CASE req[r].user \in users
    <3>1. users' = users
      BY <1>2 DEF LinkAccount
    <3>2. LinksAgain(req[r].acct)
      BY <1>2, <2>2, <3>1, LinkTables DEF LinksAgain
    <3> QED BY <3>2
  <2> QED BY <2>1, <2>2
<1>3. ASSUME NEW r \in Requests, MergeCommit(r) PROVE Goal
  <2>1. CASE req[r].user \notin users
    BY <1>3, <2>1 DEF MergeCommit, MergeInto, Unlinked
  <2>2. CASE req[r].user \in users
    <3>1. MergesUsers(req[r].other, req[r].user)
      BY <1>3, <2>2, MergeTables, SmallFacts DEF MergesUsers
    <3> QED BY <3>1
  <2> QED BY <2>1, <2>2
<1>4. ASSUME NEW p \in Replicas, GetSigningKey(p) \/ InsertSigningKey(p) PROVE Unlinked
  BY <1>4 DEF GetSigningKey, InsertSigningKey, Unlinked, people
<1>5. ASSUME NEW r \in Requests,
             \/ \E a \in Accounts : Login(r, a)
             \/ \E a \in Accounts, u \in Users : Link(r, a, u)
             \/ \E t \in Tokens : Refresh(r, t)
      PROVE Unlinked
  BY <1>5 DEF Login, Link, Refresh, Open, Unlinked, people
<1>6. ASSUME NEW r \in Requests, Find(r) \/ MergeRead(r) \/ Issue(r) PROVE Unlinked
  BY <1>6 DEF Find, MergeRead, Issue, Unlinked, people
<1>7. ASSUME NEW r \in Requests, CheckToken(r) \/ RevokeToken(r) \/ Abort(r) PROVE Unlinked
  BY <1>7 DEF CheckToken, RevokeToken, Abort, Unlinked, people
<1>8. ASSUME NEW t \in Tokens, Exchange(t) PROVE Unlinked
  BY <1>8 DEF Exchange, Unlinked, people
<1>9. ASSUME NEW u \in Users, NEW s \in SUBSET AllScopes, SetScopes(u, s) PROVE Unlinked
  BY <1>9 DEF SetScopes, Unlinked, people
<1>10. CASE UNCHANGED vars
  BY <1>10 DEF vars, Unlinked
<1> QED
  BY <1>1, <1>2, <1>3, <1>4, <1>5, <1>6, <1>7, <1>8, <1>9, <1>10 DEF Next

(***************************************************************************)
(* However first logins, links and merges overlap, every user has an       *)
(* account to log in with: a lost race on an account's primary key makes   *)
(* no user, and a merge moves every link before it deletes the row.        *)
(***************************************************************************)
THEOREM UsersReachable == Spec => []EveryUserReachable
<1>1. Init => EveryUserReachable
  BY DEF Init, EveryUserReachable
<1>2. ASSUME Typed, EveryUserReachable, [Next]_vars PROVE EveryUserReachable'
  <2>1. CASE Unlinked
    BY <1>2, <2>1 DEF Unlinked, EveryUserReachable
  <2>2. ASSUME NEW a, LinksNewUser(a) \/ LinksAgain(a) PROVE EveryUserReachable'
    <3>1. NoUser \notin users
      BY <1>2, TypedUsers DEF Typed
    <3>2. ASSUME NEW u \in users PROVE \E b \in Accounts : link'[b] = u
      <4>1. PICK b \in Accounts : link[b] = u
        BY <1>2 DEF EveryUserReachable
      <4>2. link'[b] = u
        BY <2>2, <3>1, <4>1 DEF LinksNewUser, LinksAgain
      <4> QED BY <4>2
    <3>3. users' \subseteq users \cup {link'[a]} /\ a \in Accounts
      BY <2>2 DEF LinksNewUser, LinksAgain
    <3> QED BY <3>2, <3>3 DEF EveryUserReachable
  <2>3. ASSUME NEW o, NEW u, MergesUsers(o, u) PROVE EveryUserReachable'
    <3>1. ASSUME NEW w \in users' PROVE \E a \in Accounts : link'[a] = w
      <4>1. w \in users /\ w # o
        BY <2>3 DEF MergesUsers
      <4>2. PICK a \in Accounts : link[a] = w
        BY <1>2, <4>1 DEF EveryUserReachable
      <4>3. link'[a] = w
        BY <2>3, <4>1, <4>2 DEF MergesUsers
      <4> QED BY <4>3
    <3> QED BY <3>1 DEF EveryUserReachable
  <2> QED BY <1>2, <2>1, <2>2, <2>3, LinkSteps
<1> QED BY <1>1, <1>2, InitTyped, TypedStep, PTL DEF Spec

\* No two users share an account, so with one each they are told apart by them.
LEMMA AccountsTellApart ==
  ASSUME Typed, EveryUserReachable
  PROVE  /\ \A u \in users : AccountsOf(u) # {}
         /\ \A u, w \in users : AccountsOf(u) = AccountsOf(w) => u = w
         /\ \A a \in Accounts : link[a] \in users \cup {NoUser}
         /\ NoUser \notin users
<1>1. \A u \in users : \E a \in Accounts : a \in AccountsOf(u)
  BY DEF EveryUserReachable, AccountsOf
<1>2. \A u, w \in users : AccountsOf(u) = AccountsOf(w) => u = w
  BY <1>1 DEF AccountsOf
<1>3. \A a \in Accounts : link[a] \in users \cup {NoUser}
  BY DEF Typed, TypeOK
<1> QED BY <1>1, <1>2, <1>3, TypedUsers DEF Typed

Persons == {AccountsOf(u) : u \in users}

LEMMA PeopleUnlinked ==
  ASSUME users' = users, \A a \in Accounts : link'[a] = link[a] PROVE Persons' = Persons
<1>1. \A u : AccountsOf(u)' = AccountsOf(u)
  BY DEF AccountsOf
<1> QED BY <1>1 DEF Persons

LEMMA PeopleSignUp ==
  ASSUME Typed, EveryUserReachable, NEW a, LinksNewUser(a)
  PROVE  a \in Accounts /\ a \notin UNION Persons /\ Persons' = Persons \cup {{a}}
<1>1. PICK n : n = link'[a]
  OBVIOUS
<1>2. /\ a \in Accounts /\ link[a] = NoUser /\ n # NoUser /\ n \notin users
      /\ users' = users \cup {n}
      /\ \A b \in Accounts : b # a => link'[b] = link[b]
  BY <1>1 DEF LinksNewUser
<1>3. NoUser \notin users /\ \A b \in Accounts : link[b] \in users \cup {NoUser}
  BY AccountsTellApart
<1>4. a \notin UNION Persons
  BY <1>2, <1>3 DEF Persons, AccountsOf
<1>5. \A u \in users : AccountsOf(u)' = AccountsOf(u)
  BY <1>1, <1>2, <1>3 DEF AccountsOf
<1>6. AccountsOf(n)' = {a}
  BY <1>1, <1>2, <1>3 DEF AccountsOf
<1>7. Persons' = Persons \cup {{a}}
  BY <1>2, <1>5, <1>6 DEF Persons
<1> QED BY <1>2, <1>4, <1>7

LEMMA PeopleAttach ==
  ASSUME Typed, EveryUserReachable, NEW a, LinksAgain(a), link[a] = NoUser
  PROVE  /\ a \in Accounts /\ a \notin UNION Persons
         /\ \E p \in Persons : Persons' = (Persons \ {p}) \cup {p \cup {a}}
<1>1. PICK u : u = link'[a]
  OBVIOUS
<1>2. /\ a \in Accounts /\ u \in users /\ users' = users
      /\ \A b \in Accounts : b # a => link'[b] = link[b]
  BY <1>1 DEF LinksAgain
<1>3. NoUser \notin users /\ \A w \in users : AccountsOf(w) = AccountsOf(u) => w = u
  BY <1>2, AccountsTellApart
<1>4. a \notin UNION Persons
  BY <1>3 DEF Persons, AccountsOf
<1>5. \A w \in users : w # u => AccountsOf(w)' = AccountsOf(w)
  BY <1>1, <1>2, <1>3 DEF AccountsOf
<1>6. AccountsOf(u)' = AccountsOf(u) \cup {a}
  BY <1>1, <1>2 DEF AccountsOf
<1>7. Persons' = (Persons \ {AccountsOf(u)}) \cup {AccountsOf(u) \cup {a}}
  BY <1>2, <1>3, <1>5, <1>6 DEF Persons
<1>8. AccountsOf(u) \in Persons
  BY <1>2 DEF Persons
<1> QED BY <1>2, <1>4, <1>7, <1>8

LEMMA PeopleUnite ==
  ASSUME Typed, EveryUserReachable, NEW o \in users, NEW u, MergesUsers(o, u)
  PROVE  \E p, q \in Persons : p # q /\ Persons' = (Persons \ {p, q}) \cup {p \cup q}
<1>1. o # u /\ u \in users /\ users' = users \ {o}
  BY DEF MergesUsers
<1>2. \A w \in users : w # o /\ w # u => AccountsOf(w)' = AccountsOf(w)
  BY DEF AccountsOf, MergesUsers
<1>3. AccountsOf(u)' = AccountsOf(o) \cup AccountsOf(u)
  BY DEF AccountsOf, MergesUsers
<1>4. \A v, w \in users : AccountsOf(v) = AccountsOf(w) => v = w
  BY AccountsTellApart
<1>5. Persons' = (Persons \ {AccountsOf(o), AccountsOf(u)}) \cup {AccountsOf(o) \cup AccountsOf(u)}
  BY <1>1, <1>2, <1>3, <1>4 DEF Persons
<1>6. AccountsOf(o) \in Persons /\ AccountsOf(u) \in Persons /\ AccountsOf(o) # AccountsOf(u)
  BY <1>1, <1>4 DEF Persons
<1> QED BY <1>5, <1>6

(***************************************************************************)
(* Logins, links and merges implement the abstract People however they     *)
(* overlap: a create that lost its race and a merge whose user was merged  *)
(* away meanwhile change nobody, and every other step founds a person,     *)
(* adds an unknown account to one or unites two.  No account is ever lost. *)
(***************************************************************************)
THEOREM ImplementsPeople == Spec => PeopleKept
<1>1. Init => People!Init
  BY DEF Init, People!Init
<1>2. ASSUME Typed, EveryUserReachable, [Next]_vars
      PROVE  [People!Next]_Persons
  <2>1. ASSUME Unlinked PROVE Persons' = Persons
    BY <2>1, PeopleUnlinked DEF Unlinked
  <2>2. ASSUME NEW a, LinksNewUser(a) PROVE People!Next
    <3>1. a \in Accounts /\ a \notin UNION Persons /\ Persons' = Persons \cup {{a}}
      BY <1>2, <2>2, PeopleSignUp
    <3> QED BY <3>1 DEF Persons, People!Next, People!SignUp, People!Known
  <2>3. ASSUME NEW a, LinksAgain(a) PROVE [People!Next]_Persons
    <3>1. CASE link[a] = NoUser
      <4>1. /\ a \in Accounts /\ a \notin UNION Persons
            /\ \E p \in Persons : Persons' = (Persons \ {p}) \cup {p \cup {a}}
        BY <1>2, <2>3, <3>1, PeopleAttach
      <4> QED BY <4>1 DEF Persons, People!Next, People!Attach, People!Known
    <3>2. CASE link[a] # NoUser
      BY <2>3, <3>2, PeopleUnlinked DEF LinksAgain
    <3> QED BY <3>1, <3>2
  <2>4. ASSUME NEW o, NEW u, MergesUsers(o, u) PROVE [People!Next]_Persons
    <3>1. CASE o \in users
      <4>1. \E p, q \in Persons : p # q /\ Persons' = (Persons \ {p, q}) \cup {p \cup q}
        BY <1>2, <2>4, <3>1, PeopleUnite
      <4> QED BY <4>1 DEF Persons, People!Next, People!Unite
    <3>2. CASE o \notin users
      <4>1. users' = users
        BY <2>4, <3>2 DEF MergesUsers
      <4>2. \A a \in Accounts : link'[a] = link[a]
        BY <1>2, <2>4, <3>2, AccountsTellApart DEF MergesUsers
      <4> QED BY <4>1, <4>2, PeopleUnlinked
    <3> QED BY <3>1, <3>2
  <2> QED BY <1>2, <2>1, <2>2, <2>3, <2>4, LinkSteps
<1>3. ASSUME Typed, EveryUserReachable, [Next]_vars
      PROVE  [People!Next]_{AccountsOf(u) : u \in users}
  BY <1>2, <1>3 DEF Persons
<1> QED BY <1>1, <1>3, UsersReachable, InitTyped, TypedStep, PTL DEF Spec, PeopleKept, People!Spec

-----------------------------------------------------------------------------
(***************************************************************************)
(* The signing key: once some replica is up the row is there for good.     *)
(***************************************************************************)
KeyInv == \A p \in Replicas : boot[p].pc = "up" => boot[p].key = key /\ key # NoKey

LEMMA KeyStep == Typed /\ KeyInv /\ [Next]_vars => KeyInv'
<1> SUFFICES ASSUME Typed, KeyInv, [Next]_vars PROVE KeyInv'
  OBVIOUS
<1>1. boot \in [Replicas -> BootType]
  BY TypedParts
<1>2. ASSUME NEW p \in Replicas, GetSigningKey(p) PROVE KeyInv'
  BY <1>1, <1>2 DEF GetSigningKey, KeyInv, BootType, NoKey
<1>3. ASSUME NEW p \in Replicas, InsertSigningKey(p) PROVE KeyInv'
  <2>1. key' # NoKey /\ (key # NoKey => key' = key)
    BY <1>3 DEF InsertSigningKey, NoKey
  <2>2. /\ boot'[p].key = key'
        /\ \A o \in Replicas : o # p => boot'[o] = boot[o]
    BY <1>1, <1>3 DEF InsertSigningKey
  <2> QED BY <2>1, <2>2 DEF KeyInv
<1>4. CASE UNCHANGED keys
  BY <1>4 DEF keys, KeyInv
<1>5. ASSUME NEW r \in Requests,
             \/ \E a \in Accounts : Login(r, a)
             \/ \E a \in Accounts, u \in Users : Link(r, a, u)
             \/ \E t \in Tokens : Refresh(r, t)
      PROVE UNCHANGED keys
  BY <1>5 DEF Login, Link, Refresh, Open
<1>6. ASSUME NEW r \in Requests, Find(r) \/ CreateUser(r) \/ LinkAccount(r) \/ MergeRead(r)
      PROVE UNCHANGED keys
  BY <1>6 DEF Find, CreateUser, LinkAccount, MergeRead
<1>7. ASSUME NEW r \in Requests,
             MergeCommit(r) \/ Issue(r) \/ CheckToken(r) \/ RevokeToken(r) \/ Abort(r)
      PROVE UNCHANGED keys
  BY <1>7 DEF MergeCommit, MergeInto, Issue, CheckToken, RevokeToken, Abort
<1>8. ASSUME NEW t \in Tokens, Exchange(t) PROVE UNCHANGED keys
  BY <1>8 DEF Exchange
<1>9. ASSUME NEW u \in Users, NEW s \in SUBSET AllScopes, SetScopes(u, s) PROVE UNCHANGED keys
  BY <1>9 DEF SetScopes
<1>10. CASE UNCHANGED vars
  BY <1>10, <1>4 DEF vars, keys
<1> QED
  BY <1>2, <1>3, <1>4, <1>5, <1>6, <1>7, <1>8, <1>9, <1>10 DEF Next

(***************************************************************************)
(* Signer::load_or_create: any number of replicas that boot at once end up *)
(* signing with the one key in the table.                                  *)
(***************************************************************************)
THEOREM KeysConverge == Spec => []OneSigningKey
<1>1. Init => KeyInv
  BY DEF Init, KeyInv
<1>2. KeyInv => OneSigningKey
  BY DEF KeyInv, OneSigningKey
<1> QED BY <1>1, <1>2, KeyStep, InitTyped, TypedStep, PTL DEF Spec
-----------------------------------------------------------------------------
(***************************************************************************)
(* "*".  A merge writes the scopes it read: what it read has "*", or       *)
(* someone it does not delete has it.                                      *)
(***************************************************************************)
Excused == ghost.starTaken \/ ghost.mergesMet

OneMerge == \A q, r \in Requests : req[q].pc = "merge" /\ req[r].pc = "merge" => q = r

StarElsewhere(r) ==
  Star \in req[r].grants \/ \E u \in users \ {req[r].other} : Star \in grants[u]

StarInv ==
  ~ Excused =>
    /\ SuperuserSurvives
    /\ OneMerge
    /\ \A r \in Requests : req[r].pc = "merge" => StarElsewhere(r)

\* No scope, no user and no merge of this step's making.
StarIdle ==
  /\ UNCHANGED <<users, made, grants, ghost>>
  /\ \A r \in Requests : req'[r].pc = "merge" => req'[r] = req[r]

LEMMA StarIdleKeeps == ASSUME StarInv, StarIdle PROVE StarInv'
<1>1. Excused' = Excused
  BY DEF StarIdle, Excused
<1> SUFFICES ASSUME ~ Excused
             PROVE  /\ SuperuserSurvives' /\ OneMerge'
                    /\ \A r \in Requests : req'[r].pc = "merge" => StarElsewhere(r)'
  BY <1>1 DEF StarInv
<1>2. SuperuserSurvives'
  BY DEF StarInv, SuperuserSurvives, StarIdle
<1>3. OneMerge'
  BY DEF StarInv, OneMerge, StarIdle
<1>4. \A r \in Requests : req'[r].pc = "merge" => StarElsewhere(r)'
  BY DEF StarInv, StarElsewhere, StarIdle
<1> QED BY <1>2, <1>3, <1>4

\* A step that only moves its request, and not into a merge, is idle.
LEMMA StarMoves ==
  ASSUME Typed, NEW r \in Requests, NEW q, Moves(r, q), q.pc # "merge",
         UNCHANGED <<users, made, grants, ghost>>
  PROVE  StarIdle
BY MovesTyped DEF StarIdle

LEMMA StarCreate ==
  ASSUME Typed, StarInv, NEW r \in Requests, CreateUser(r) PROVE StarInv'
<1>1. CASE link[req[r].acct] # NoUser
  <2>1. Close(r) /\ UNCHANGED <<users, made, grants, ghost>>
    BY <1>1 DEF CreateUser, people
  <2> QED BY <2>1, CloseMoves, SmallFacts, StarMoves, StarIdleKeeps
<1>2. CASE link[req[r].acct] = NoUser
  <2>1. made' = made + 1 /\ users' = users \cup {made'} /\ made' \in Users /\ made' \notin users
    BY <1>2, CreateUserTables
  <2>2. /\ req' = [req EXCEPT ![r].pc = "issue", ![r].user = made']
        /\ grants' = IF users = {} THEN [grants EXCEPT ![made'] = {Star}] ELSE grants
        /\ ghost' = ghost
    BY <1>2 DEF CreateUser
  <2>3. req \in [Requests -> ReqType]
    BY TypedParts
  <2>4. \A o \in Requests : req'[o].pc = "merge" => req'[o] = req[o]
    BY <2>2, <2>3 DEF ReqType
  <2>5. \A u \in users : grants'[u] = grants[u]
    BY <2>2
  <2>6. SUFFICES ASSUME ~ Excused
                 PROVE  /\ SuperuserSurvives' /\ OneMerge'
                        /\ \A o \in Requests : req'[o].pc = "merge" => StarElsewhere(o)'
    BY <2>2 DEF StarInv, Excused
  <2>7. SuperuserSurvives'
    <3>1. CASE users = {}
      <4>1. Star \in grants'[made']
        BY <2>1, <2>2, <3>1 DEF Typed, TypeOK
      <4> QED BY <2>1, <4>1 DEF SuperuserSurvives
    <3>2. CASE users # {}
      <4>1. made > 0
        BY <3>2, SomeUser
      <4>2. \E u \in users : Star \in grants[u]
        BY <2>6, <4>1 DEF StarInv, SuperuserSurvives, Excused
      <4> QED BY <2>1, <2>5, <4>2 DEF SuperuserSurvives
    <3> QED BY <3>1, <3>2
  <2>8. OneMerge'
    BY <2>4, <2>6 DEF StarInv, OneMerge
  <2>9. \A o \in Requests : req'[o].pc = "merge" => StarElsewhere(o)'
    BY <2>1, <2>4, <2>5, <2>6 DEF StarInv, StarElsewhere
  <2> QED BY <2>7, <2>8, <2>9
<1> QED BY <1>1, <1>2

LEMMA StarMergeRead ==
  ASSUME Typed, StarInv, NEW r \in Requests, MergeRead(r) PROVE StarInv'
<1>1. PICK q : /\ Moves(r, q) /\ q.pc = "merge"
               /\ q.other = link[req[r].acct] /\ q.grants = grants[q.other]
  BY MergeReadMoves
<1>2. UNCHANGED <<users, made, grants>>
  BY DEF MergeRead, people
<1>3. /\ ghost'.starTaken = ghost.starTaken
      /\ ghost'.mergesMet = (ghost.mergesMet \/ \E o \in Requests : req[o].pc = "merge")
  BY DEF MergeRead, Typed, TypeOK
<1> SUFFICES ASSUME ~ Excused'
             PROVE  /\ SuperuserSurvives' /\ OneMerge'
                    /\ \A o \in Requests : req'[o].pc = "merge" => StarElsewhere(o)'
  BY DEF StarInv
<1>4. ~ Excused /\ \A o \in Requests : req[o].pc # "merge"
  BY <1>3 DEF Excused
<1>5. req'[r] = q /\ \A o \in Requests : o # r => req'[o] = req[o]
  BY <1>1, MovesTyped
<1>6. SuperuserSurvives'
  BY <1>2, <1>3, <1>4 DEF StarInv, SuperuserSurvives
<1>7. OneMerge'
  BY <1>4, <1>5 DEF OneMerge
<1>8. StarElsewhere(r)'
  <2>1. req[r].acct \in Accounts /\ link[req[r].acct] # NoUser
    BY DEF MergeRead, Typed, ReqInv, AccountPcs
  <2>2. link[req[r].acct] \in users
    BY <2>1 DEF Typed, TypeOK
  <2>3. made > 0
    BY <2>2, SomeUser
  <2>4. PICK u \in users : Star \in grants[u]
    BY <1>4, <2>3 DEF StarInv, SuperuserSurvives, Excused
  <2> QED BY <1>1, <1>2, <1>5, <2>4 DEF StarElsewhere
<1> QED BY <1>4, <1>5, <1>6, <1>7, <1>8

LEMMA StarMergeCommit ==
  ASSUME Typed, StarInv, NEW r \in Requests, MergeCommit(r) PROVE StarInv'
<1>1. ghost' = ghost /\ made' = made /\ req[r].pc = "merge"
  BY DEF MergeCommit, MergeInto
<1>2. CASE req[r].user \notin users
  <2>1. Close(r) /\ UNCHANGED <<users, grants>>
    BY <1>2 DEF MergeCommit, MergeInto
  <2> QED BY <1>1, <2>1, CloseMoves, SmallFacts, StarMoves, StarIdleKeeps
<1>3. CASE req[r].user \in users
  <2>1. /\ req[r].other # req[r].user /\ users' = users \ {req[r].other}
        /\ \A u \in Users : u # req[r].other => grants[u] \subseteq grants'[u]
        /\ req[r].grants \subseteq grants'[req[r].user]
    <3>1. users \subseteq Users
      BY TypedUsers DEF Typed
    <3> QED BY <1>3, <3>1, MergeTables
  <2>2. req' = [req EXCEPT ![r].pc = "issue"]
    BY <1>3 DEF MergeCommit, MergeInto
  <2>3. PICK q : Moves(r, q) /\ q.pc = "issue"
    BY <2>2, IssuesNext
  <2>4. req'[r].pc = "issue" /\ \A o \in Requests : o # r => req'[o] = req[o]
    BY <2>3, MovesTyped
  <2> SUFFICES ASSUME ~ Excused
               PROVE  /\ SuperuserSurvives' /\ OneMerge'
                      /\ \A o \in Requests : req'[o].pc = "merge" => StarElsewhere(o)'
    BY <1>1 DEF StarInv, Excused
  <2>5. \A o \in Requests : req'[o].pc # "merge"
    BY <1>1, <2>4 DEF StarInv, OneMerge
  <2>6. SuperuserSurvives'
    <3>1. CASE Star \in req[r].grants
      <4>1. req[r].user \in users' /\ Star \in grants'[req[r].user]
        BY <1>3, <2>1, <3>1
      <4> QED BY <4>1 DEF SuperuserSurvives
    <3>2. ASSUME NEW u \in users \ {req[r].other}, Star \in grants[u] PROVE SuperuserSurvives'
      <4>1. u \in Users
        BY TypedUsers DEF Typed
      <4>2. u \in users' /\ Star \in grants'[u]
        BY <2>1, <3>2, <4>1
      <4> QED BY <4>2 DEF SuperuserSurvives
    <3> QED BY <1>1, <3>1, <3>2 DEF StarInv, StarElsewhere
  <2> QED BY <2>5, <2>6 DEF OneMerge
<1> QED BY <1>2, <1>3

LEMMA StarSetScopes ==
  ASSUME Typed, StarInv, NEW u \in Users, NEW s \in SUBSET AllScopes, SetScopes(u, s)
  PROVE  StarInv'
<1>1. UNCHANGED <<users, made, req>>
  BY DEF SetScopes, people
<1>2. grants'[u] = s /\ \A w \in Users : w # u => grants'[w] = grants[w]
  BY DEF SetScopes, Typed, TypeOK
<1>3. /\ ghost'.mergesMet = ghost.mergesMet
      /\ ghost'.starTaken =
           (ghost.starTaken \/ (u \in users /\ Star \in grants[u] /\ Star \notin s))
  BY DEF SetScopes, Typed, TypeOK
<1> SUFFICES ASSUME ~ Excused'
             PROVE  /\ SuperuserSurvives' /\ OneMerge'
                    /\ \A r \in Requests : req'[r].pc = "merge" => StarElsewhere(r)'
  BY DEF StarInv
<1>4. ~ Excused /\ (u \in users /\ Star \in grants[u] => Star \in s)
  BY <1>3 DEF Excused
<1>5. \A w \in users : Star \in grants[w] => Star \in grants'[w]
  BY <1>2, <1>4, TypedUsers DEF Typed
<1>6. SuperuserSurvives'
  BY <1>1, <1>4, <1>5 DEF StarInv, SuperuserSurvives, Excused
<1>7. OneMerge'
  BY <1>1, <1>4 DEF StarInv, OneMerge
<1>8. \A r \in Requests : req'[r].pc = "merge" => StarElsewhere(r)'
  BY <1>1, <1>4, <1>5 DEF StarInv, StarElsewhere
<1> QED BY <1>6, <1>7, <1>8

LEMMA StarStep == Typed /\ StarInv /\ [Next]_vars => StarInv'
<1> SUFFICES ASSUME Typed, StarInv, [Next]_vars PROVE StarInv'
  OBVIOUS
<1> DEFINE Still == UNCHANGED <<users, made, grants, ghost>>
<1>1. ASSUME NEW p \in Replicas, GetSigningKey(p) \/ InsertSigningKey(p) PROVE StarIdle
  BY <1>1 DEF GetSigningKey, InsertSigningKey, people, StarIdle
<1>2. ASSUME NEW r \in Requests, NEW a \in Accounts, Login(r, a) PROVE StarIdle
  <2>1. Still
    BY <1>2 DEF Login, Open, people
  <2> QED BY <1>2, <2>1, LoginMoves, StarMoves
<1>3. ASSUME NEW r \in Requests, NEW a \in Accounts, NEW u \in Users, Link(r, a, u) PROVE StarIdle
  <2>1. Still
    BY <1>3 DEF Link, Open, people
  <2> QED BY <1>3, <2>1, LinkMoves, StarMoves
<1>4. ASSUME NEW r \in Requests, Find(r) PROVE StarIdle
  <2>1. Still
    BY <1>4 DEF Find, people
  <2>2. \A o \in Requests : req'[o].pc = "merge" => req'[o] = req[o]
    <3>1. req \in [Requests -> ReqType]
      BY TypedParts
    <3> QED BY <1>4, <3>1 DEF Find, ReqType
  <2> QED BY <2>1, <2>2 DEF StarIdle
<1>5. ASSUME NEW r \in Requests, LinkAccount(r) PROVE StarIdle
  <2>1. Still
    BY <1>5 DEF LinkAccount
  <2>2. CASE Close(r)
    BY <2>1, <2>2, CloseMoves, SmallFacts, StarMoves
  <2>3. CASE req' = [req EXCEPT ![r].pc = "issue"]
    BY <2>1, <2>3, IssuesNext, StarMoves
  <2> QED BY <1>5, <2>2, <2>3 DEF LinkAccount
<1>6. ASSUME NEW r \in Requests, Issue(r) \/ Abort(r) PROVE StarIdle
  <2>1. Still /\ Close(r)
    BY <1>6 DEF Issue, Abort, people
  <2> QED BY <2>1, CloseMoves, SmallFacts, StarMoves
<1>7. ASSUME NEW r \in Requests, NEW t \in Tokens, Refresh(r, t) PROVE StarInv'
  <2>1. /\ UNCHANGED <<users, made, grants>>
        /\ ghost'.starTaken = ghost.starTaken /\ ghost'.mergesMet = ghost.mergesMet
    BY <1>7 DEF Refresh, Open, people, Typed, TypeOK
  <2>2. PICK q : Moves(r, q) /\ q.pc = "check"
    BY <1>7, RefreshMoves
  <2>3. \A o \in Requests : req'[o].pc = "merge" => req'[o] = req[o]
    BY <2>2, MovesTyped
  <2>4. SUFFICES ASSUME ~ Excused'
                 PROVE  /\ SuperuserSurvives' /\ OneMerge'
                        /\ \A o \in Requests : req'[o].pc = "merge" => StarElsewhere(o)'
    BY DEF StarInv
  <2>5. ~ Excused
    BY <2>1, <2>4 DEF Excused
  <2>6. SuperuserSurvives'
    BY <2>1, <2>5 DEF StarInv, SuperuserSurvives
  <2>7. OneMerge'
    BY <2>3, <2>5 DEF StarInv, OneMerge
  <2>8. \A o \in Requests : req'[o].pc = "merge" => StarElsewhere(o)'
    BY <2>1, <2>3, <2>5 DEF StarInv, StarElsewhere
  <2> QED BY <2>6, <2>7, <2>8
<1>8. ASSUME NEW r \in Requests, CheckToken(r) PROVE StarIdle
  <2>1. Still
    BY <1>8 DEF CheckToken, people
  <2>2. \A o \in Requests : req'[o].pc = "merge" => req'[o] = req[o]
    <3>1. req \in [Requests -> ReqType]
      BY TypedParts
    <3> QED BY <1>8, <3>1, SmallFacts DEF CheckToken, Close, ReqType
  <2> QED BY <2>1, <2>2 DEF StarIdle
<1>9. ASSUME NEW r \in Requests, RevokeToken(r) PROVE StarIdle
  <2>1. Still /\ req' = [req EXCEPT ![r].pc = "issue"]
    BY <1>9 DEF RevokeToken, people
  <2> QED BY <2>1, IssuesNext, StarMoves
<1>10. ASSUME NEW t \in Tokens, Exchange(t) PROVE StarIdle
  BY <1>10 DEF Exchange, people, StarIdle
<1>11. CASE UNCHANGED vars
  BY <1>11, StarIdleKeeps DEF vars, StarIdle
<1> QED
  BY <1>1, <1>2, <1>3, <1>4, <1>5, <1>6, <1>7, <1>8, <1>9, <1>10, <1>11, StarIdleKeeps,
     StarCreate, StarMergeRead, StarMergeCommit, StarSetScopes DEF Next

(***************************************************************************)
(* The first user's "*" is never lost to a merge, even when scopes are     *)
(* given out between a merge's read of them and its commit; only an        *)
(* administrator takes it away, or two merges that overlap.                *)
(***************************************************************************)
THEOREM SuperuserStays == Spec => []SuperuserSurvives
<1>1. Init => StarInv
  <2> SUFFICES ASSUME Init PROVE StarInv
    OBVIOUS
  <2>1. made = 0 /\ \A r \in Requests : req[r].pc = "idle"
    BY SmallFacts DEF Init
  <2> QED BY <2>1 DEF StarInv, SuperuserSurvives, OneMerge
<1>2. StarInv => SuperuserSurvives
  BY DEF StarInv, SuperuserSurvives, Excused
<1> QED BY <1>1, <1>2, StarStep, InitTyped, TypedStep, PTL DEF Spec
-----------------------------------------------------------------------------
(***************************************************************************)
(* Refresh tokens.  While no two refreshes of one token overlap, a login   *)
(* has at most one refresh under way past its check; until the revocation  *)
(* the only valid token of the login is the one presented, and from then   *)
(* on there is none.                                                       *)
(***************************************************************************)
LoginOf(r) == token[req[r].token].login
Rotating(r) == req[r].token # NoToken /\ req[r].pc \in {"revoke", "issue"}

ChainInv ==
  /\ \A t \in Issued : token[t].login \in Issued
  /\ \A r \in Requests : req[r].token # NoToken => req[r].token \in Issued

Apart ==
  /\ \A q, r \in Requests : req[q].token = req[r].token /\ req[q].token # NoToken => q = r
  /\ \A q, r \in Requests : Rotating(q) /\ Rotating(r) /\ LoginOf(q) = LoginOf(r) => q = r

Chained(r) ==
  \A s \in Valid : token[s].login = LoginOf(r) => req[r].pc = "revoke" /\ s = req[r].token

RotateInv ==
  /\ ChainInv
  /\ ~ ghost.refreshesMet =>
       /\ \A s, t \in Valid : token[s].login = token[t].login => s = t
       /\ Apart
       /\ \A r \in Requests : Rotating(r) => Chained(r)

\* No token is issued, and none that is not valid becomes valid.
TokensFade ==
  \A t \in Tokens : /\ token'[t].login = token[t].login
                    /\ token[t].state = "unissued" <=> token'[t].state = "unissued"
                    /\ token'[t].state = "valid" => token[t].state = "valid"

\* No request takes up a token, and none goes past its check.
RefreshesFade ==
  /\ \A r \in Requests :
       \/ req'[r].token = NoToken
       \/ req'[r].token = req[r].token /\ req'[r].pc = req[r].pc
  /\ ghost'.refreshesMet = ghost.refreshesMet

LEMMA FadeKeeps == ASSUME Typed, RotateInv, TokensFade, RefreshesFade PROVE RotateInv'
<1>1. Issued' = Issued /\ Valid' \subseteq Valid /\ Issued \subseteq Tokens /\ Valid \subseteq Tokens
  BY DEF TokensFade, Issued, Valid
<1>2. ChainInv'
  BY <1>1 DEF RotateInv, ChainInv, TokensFade, RefreshesFade
<1>3. SUFFICES ASSUME ~ ghost.refreshesMet
               PROVE  /\ \A s, t \in Valid' : token'[s].login = token'[t].login => s = t
                      /\ Apart'
                      /\ \A r \in Requests : Rotating(r)' => Chained(r)'
  BY <1>2 DEF RotateInv, RefreshesFade
<1>4. \A s, t \in Valid' : token'[s].login = token'[t].login => s = t
  BY <1>1, <1>3 DEF RotateInv, TokensFade
<1>5. \A r \in Requests : Rotating(r)' => /\ Rotating(r) /\ LoginOf(r)' = LoginOf(r)
                                          /\ req'[r].pc = req[r].pc /\ req'[r].token = req[r].token
  BY <1>1 DEF Rotating, LoginOf, RefreshesFade, TokensFade, RotateInv, ChainInv
<1>6. Apart'
  BY <1>3, <1>5 DEF RotateInv, Apart, RefreshesFade
<1>7. \A r \in Requests : Rotating(r)' => Chained(r)'
  BY <1>1, <1>3, <1>5 DEF RotateInv, Chained, TokensFade
<1> QED BY <1>4, <1>6, <1>7

\* A request that has no token and takes none.
LEMMA MovesFade ==
  ASSUME Typed, NEW r \in Requests, NEW q, Moves(r, q), q.token = NoToken,
         ghost'.refreshesMet = ghost.refreshesMet
  PROVE  RefreshesFade
BY MovesTyped DEF RefreshesFade

LEMMA SameTokens == ASSUME UNCHANGED token PROVE TokensFade
BY DEF TokensFade

\* /auth/refresh: overlapping with another of the same token is recorded.
LEMMA RotateRefresh ==
  ASSUME Typed, RotateInv, NEW r \in Requests, NEW t \in Tokens, Refresh(r, t) PROVE RotateInv'
<1>1. PICK q : Moves(r, q) /\ q.pc = "check" /\ q.token = t
  BY RefreshMoves
<1>2. req'[r] = q /\ \A o \in Requests : o # r => req'[o] = req[o]
  BY <1>1, MovesTyped
<1>3. token' = token /\ t \in Issued
  BY DEF Refresh, Open
<1>4. ghost'.refreshesMet = (ghost.refreshesMet \/ \E o \in Requests : req[o].token = t)
  BY DEF Refresh, Typed, TypeOK
<1>5. Issued' = Issued /\ Valid' = Valid
  BY <1>3 DEF Issued, Valid
<1>6. ChainInv'
  BY <1>1, <1>2, <1>3, <1>5 DEF RotateInv, ChainInv
<1>7. SUFFICES ASSUME ~ ghost'.refreshesMet
               PROVE  /\ \A s, u \in Valid' : token'[s].login = token'[u].login => s = u
                      /\ Apart'
                      /\ \A o \in Requests : Rotating(o)' => Chained(o)'
  BY <1>6 DEF RotateInv
<1>8. ~ ghost.refreshesMet /\ \A o \in Requests : req[o].token # t
  BY <1>4, <1>7
<1>9. \A o \in Requests : Rotating(o)' => o # r /\ Rotating(o) /\ LoginOf(o)' = LoginOf(o)
  BY <1>1, <1>2, <1>3 DEF Rotating, LoginOf
<1>10. Apart'
  BY <1>1, <1>2, <1>8, <1>9 DEF RotateInv, Apart
<1>11. \A o \in Requests : Rotating(o)' => Chained(o)'
  BY <1>2, <1>3, <1>5, <1>8, <1>9 DEF RotateInv, Chained
<1> QED BY <1>3, <1>5, <1>8, <1>10, <1>11 DEF RotateInv

\* valid_refresh_token_user: the token is valid, so it is the login's only one
\* and nobody else is past the check with it.
LEMMA RotateCheck ==
  ASSUME Typed, RotateInv, NEW r \in Requests, CheckToken(r) PROVE RotateInv'
<1>1. token' = token /\ ghost' = ghost /\ req[r].pc = "check"
  BY DEF CheckToken
<1>2. CASE Close(r)
  BY <1>1, <1>2, CloseMoves, SmallFacts, MovesFade, SameTokens, FadeKeeps
<1>3. CASE /\ req[r].token \in Valid
           /\ req' = [req EXCEPT ![r].pc = "revoke", ![r].user = token[req[r].token].owner]
  <2>1. /\ req'[r].pc = "revoke" /\ req'[r].token = req[r].token
        /\ \A o \in Requests : o # r => req'[o] = req[o]
    <3>1. req \in [Requests -> ReqType]
      BY TypedParts
    <3> QED BY <1>3, <3>1 DEF ReqType
  <2>2. Issued' = Issued /\ Valid' = Valid
    BY <1>1 DEF Issued, Valid
  <2>3. ChainInv'
    BY <1>1, <2>1, <2>2 DEF RotateInv, ChainInv
  <2>4. SUFFICES ASSUME ~ ghost.refreshesMet
                 PROVE  /\ \A s, t \in Valid' : token'[s].login = token'[t].login => s = t
                        /\ Apart'
                        /\ \A o \in Requests : Rotating(o)' => Chained(o)'
    BY <1>1, <2>3 DEF RotateInv
  <2>5. /\ \A s, t \in Valid : token[s].login = token[t].login => s = t
        /\ Apart
        /\ \A o \in Requests : Rotating(o) => Chained(o)
    BY <2>4 DEF RotateInv
  <2>6. \A o \in Requests : LoginOf(o)' = LoginOf(o) /\ (o # r /\ Rotating(o)' => Rotating(o))
    BY <1>1, <2>1 DEF LoginOf, Rotating
  <2>7. ASSUME NEW o \in Requests, o # r, Rotating(o) PROVE LoginOf(o) # LoginOf(r)
    <3>1. SUFFICES ASSUME LoginOf(o) = LoginOf(r) PROVE FALSE
      OBVIOUS
    <3>2. token[req[r].token].login = LoginOf(o)
      BY <3>1 DEF LoginOf
    <3>3. req[r].token = req[o].token
      BY <1>3, <2>5, <2>7, <3>2 DEF Chained
    <3>4. req[o].token # NoToken
      BY <2>7 DEF Rotating
    <3> QED BY <2>5, <2>7, <3>3, <3>4 DEF Apart
  <2>8. Apart'
    <3>1. \A o, p \in Requests : req'[o].token = req'[p].token /\ req'[o].token # NoToken => o = p
      BY <2>1, <2>5 DEF Apart
    <3>2. \A o, p \in Requests : Rotating(o)' /\ Rotating(p)' /\ LoginOf(o)' = LoginOf(p)' => o = p
      BY <2>5, <2>6, <2>7 DEF Apart
    <3> QED BY <3>1, <3>2 DEF Apart
  <2>9. Chained(r)'
    BY <1>1, <1>3, <2>1, <2>2, <2>5, <2>6 DEF Chained, LoginOf
  <2>10. \A o \in Requests : o # r /\ Rotating(o)' => Chained(o)'
    BY <1>1, <2>1, <2>2, <2>5, <2>6 DEF Chained
  <2> QED BY <1>1, <2>2, <2>5, <2>8, <2>9, <2>10
<1> QED BY <1>2, <1>3 DEF CheckToken

\* The revocation, which finds the token valid or gone.
LEMMA RotateRevoke ==
  ASSUME Typed, RotateInv, NEW r \in Requests, RevokeToken(r) PROVE RotateInv'
<1>1. /\ req[r].pc = "revoke" /\ ghost' = ghost
      /\ req' = [req EXCEPT ![r].pc = "issue"]
  BY DEF RevokeToken
<1>2. \A t \in Tokens : /\ token'[t].login = token[t].login
                        /\ token'[t].state = IF t = req[r].token /\ token[t].state = "valid"
                                               THEN "revoked" ELSE token[t].state
  BY RevokeTables
<1>3. /\ req'[r].pc = "issue" /\ req'[r].token = req[r].token
      /\ \A o \in Requests : o # r => req'[o] = req[o]
  <2>1. req \in [Requests -> ReqType]
    BY TypedParts
  <2> QED BY <1>1, <2>1 DEF ReqType
<1>4. req[r].token \in Tokens /\ req[r].token # NoToken
  BY <1>1, SmallFacts DEF Typed, ReqInv, RefreshPcs
<1>5. Issued' = Issued /\ Valid' = Valid \ {req[r].token} /\ Issued \subseteq Tokens /\ Valid \subseteq Tokens
  BY <1>2 DEF Issued, Valid
<1>6. ChainInv'
  BY <1>2, <1>3, <1>5 DEF RotateInv, ChainInv
<1>7. SUFFICES ASSUME ~ ghost.refreshesMet
               PROVE  /\ \A s, t \in Valid' : token'[s].login = token'[t].login => s = t
                      /\ Apart'
                      /\ \A o \in Requests : Rotating(o)' => Chained(o)'
  BY <1>1, <1>6 DEF RotateInv
<1>8. \A o \in Requests : Rotating(o)' => Rotating(o) /\ LoginOf(o)' = LoginOf(o)
  <2>1. \A o \in Requests : req'[o].token = req[o].token
    BY <1>3
  <2>2. \A o \in Requests : Rotating(o)' => Rotating(o) /\ req[o].token \in Tokens
    BY <1>1, <1>3, <1>4, <1>5, <2>1 DEF Rotating, RotateInv, ChainInv
  <2> QED BY <1>2, <2>1, <2>2 DEF LoginOf
<1>9. \A s, t \in Valid' : token'[s].login = token'[t].login => s = t
  BY <1>2, <1>5, <1>7 DEF RotateInv
<1>10. Apart'
  BY <1>3, <1>7, <1>8 DEF RotateInv, Apart
<1>11. \A o \in Requests : o # r /\ Rotating(o)' => Chained(o)'
  BY <1>2, <1>3, <1>5, <1>7, <1>8 DEF RotateInv, Chained
<1>12. Chained(r)'
  <2>1. Rotating(r)
    BY <1>1, <1>4 DEF Rotating
  <2>2. \A s \in Valid : token[s].login = LoginOf(r) => s = req[r].token
    BY <1>7, <2>1 DEF RotateInv, Chained
  <2>3. LoginOf(r)' = LoginOf(r)
    BY <1>2, <1>3, <1>4 DEF LoginOf
  <2> QED BY <1>2, <1>5, <2>2, <2>3 DEF Chained
<1> QED BY <1>9, <1>10, <1>11, <1>12

\* TokenIssuer::issue: a new login, or the next token of one that has none.
LEMMA RotateIssue ==
  ASSUME Typed, RotateInv, NEW r \in Requests, Issue(r) PROVE RotateInv'
<1>1. Close(r) /\ ghost' = ghost /\ req[r].pc = "issue"
  BY DEF Issue
<1>2. req'[r].token = NoToken /\ \A o \in Requests : o # r => req'[o] = req[o]
  BY <1>1, CloseMoves, SmallFacts, MovesTyped
<1>3. CASE req[r].user \notin users
  <2>1. token' = token
    BY <1>3 DEF Issue
  <2> QED BY <1>1, <2>1, CloseMoves, SmallFacts, MovesFade, SameTokens, FadeKeeps
<1>4. CASE req[r].user \in users
  <2>1. PICK t \in Tokens \ Issued :
          /\ token'[t].state = "valid"
          /\ token'[t].login = IF req[r].token = NoToken THEN t ELSE token[req[r].token].login
          /\ \A s \in Tokens : s # t => token'[s] = token[s]
    BY <1>4, IssueTables
  <2>2. /\ Issued' = Issued \cup {t} /\ Valid' = Valid \cup {t}
        /\ Valid \subseteq Issued /\ Issued \subseteq Tokens
    BY <2>1 DEF Issued, Valid
  <2>3. \A s \in Issued : token'[s] = token[s]
    BY <2>1, <2>2
  <2>4. token'[t].login \in Issued'
    BY <2>1, <2>2 DEF RotateInv, ChainInv
  <2>5. ChainInv'
    BY <1>2, <2>2, <2>3, <2>4 DEF RotateInv, ChainInv
  <2>6. SUFFICES ASSUME ~ ghost.refreshesMet
                 PROVE  /\ \A s, u \in Valid' : token'[s].login = token'[u].login => s = u
                        /\ Apart'
                        /\ \A o \in Requests : Rotating(o)' => Chained(o)'
    BY <1>1, <2>5 DEF RotateInv
  <2>7. /\ \A s, u \in Valid : token[s].login = token[u].login => s = u
        /\ Apart
        /\ \A o \in Requests : Rotating(o) => Chained(o)
    BY <2>6 DEF RotateInv
  <2>8. \A s \in Valid : token[s].login # token'[t].login
    <3>1. CASE req[r].token = NoToken
      BY <2>1, <2>2, <3>1 DEF RotateInv, ChainInv
    <3>2. CASE req[r].token # NoToken
      <4>1. Rotating(r)
        BY <1>1, <3>2 DEF Rotating
      <4>2. Chained(r)
        BY <2>7, <4>1
      <4> QED BY <1>1, <2>1, <3>2, <4>2 DEF Chained, LoginOf
    <3> QED BY <3>1, <3>2
  <2>9. \A s, u \in Valid' : token'[s].login = token'[u].login => s = u
    BY <2>2, <2>3, <2>7, <2>8
  <2>10. \A o \in Requests : Rotating(o)' => o # r /\ Rotating(o) /\ LoginOf(o)' = LoginOf(o)
    BY <1>2, <2>3 DEF Rotating, LoginOf, RotateInv, ChainInv
  <2>11. Apart'
    BY <1>2, <2>7, <2>10 DEF Apart
  <2>12. ASSUME NEW o \in Requests, Rotating(o)' PROVE Chained(o)'
    <3>1. o # r /\ Rotating(o) /\ LoginOf(o)' = LoginOf(o) /\ req'[o] = req[o]
      BY <1>2, <2>10, <2>12
    <3>2. LoginOf(o) # token'[t].login
      <4>1. CASE req[r].token = NoToken
        <5>1. LoginOf(o) \in Issued
          BY <3>1 DEF Rotating, LoginOf, RotateInv, ChainInv
        <5> QED BY <2>1, <4>1, <5>1
      <4>2. CASE req[r].token # NoToken
        <5>1. Rotating(r) /\ token'[t].login = LoginOf(r)
          BY <1>1, <2>1, <4>2 DEF Rotating, LoginOf
        <5> QED BY <2>7, <3>1, <5>1 DEF Apart
      <4> QED BY <4>1, <4>2
    <3>3. Chained(o)
      BY <2>7, <3>1
    <3> QED BY <2>2, <2>3, <3>1, <3>2, <3>3 DEF Chained
  <2> QED BY <2>9, <2>11, <2>12
<1> QED BY <1>3, <1>4

LEMMA RotateStep == Typed /\ RotateInv /\ [Next]_vars => RotateInv'
<1> SUFFICES ASSUME Typed, RotateInv, [Next]_vars PROVE RotateInv'
  OBVIOUS
<1>1. ASSUME NEW p \in Replicas, GetSigningKey(p) \/ InsertSigningKey(p)
      PROVE  TokensFade /\ RefreshesFade
  BY <1>1, SameTokens DEF GetSigningKey, InsertSigningKey, RefreshesFade
<1>2. ASSUME NEW r \in Requests, NEW a \in Accounts, Login(r, a) PROVE TokensFade /\ RefreshesFade
  <2>1. UNCHANGED token /\ ghost' = ghost
    BY <1>2 DEF Login, Open
  <2> QED BY <1>2, <2>1, LoginMoves, MovesFade, SameTokens
<1>3. ASSUME NEW r \in Requests, NEW a \in Accounts, NEW u \in Users, Link(r, a, u)
      PROVE  TokensFade /\ RefreshesFade
  <2>1. UNCHANGED token /\ ghost' = ghost
    BY <1>3 DEF Link, Open
  <2> QED BY <1>3, <2>1, LinkMoves, MovesFade, SameTokens
<1>4. ASSUME NEW r \in Requests, Find(r) \/ CreateUser(r) \/ LinkAccount(r)
      PROVE  TokensFade /\ RefreshesFade
  <2>1. UNCHANGED token /\ ghost' = ghost
    BY <1>4 DEF Find, CreateUser, LinkAccount
  <2>2. req \in [Requests -> ReqType] /\ req[r].token = NoToken
    BY <1>4, TypedParts DEF Typed, ReqInv, AccountPcs, Find, CreateUser, LinkAccount
  <2>3. req'[r].token = NoToken /\ \A o \in Requests : o # r => req'[o] = req[o]
    BY <1>4, <2>2, SmallFacts DEF Find, CreateUser, LinkAccount, Close, ReqType
  <2> QED BY <2>1, <2>3, SameTokens DEF RefreshesFade
<1>5. ASSUME NEW r \in Requests, MergeRead(r) PROVE TokensFade /\ RefreshesFade
  <2>1. UNCHANGED token /\ ghost'.refreshesMet = ghost.refreshesMet
    BY <1>5 DEF MergeRead, Typed, TypeOK
  <2> QED BY <1>5, <2>1, MergeReadMoves, MovesFade, SameTokens
<1>6. ASSUME NEW r \in Requests, MergeCommit(r) PROVE TokensFade /\ RefreshesFade
  <2>1. ghost' = ghost /\ req[r].token = NoToken
    BY <1>6 DEF MergeCommit, MergeInto, Typed, ReqInv, AccountPcs
  <2>2. CASE req[r].user \notin users
    <3>1. Close(r) /\ UNCHANGED token
      BY <1>6, <2>2 DEF MergeCommit, MergeInto
    <3> QED BY <2>1, <3>1, CloseMoves, SmallFacts, MovesFade, SameTokens
  <2>3. CASE req[r].user \in users
    <3>1. req' = [req EXCEPT ![r].pc = "issue"]
      BY <1>6, <2>3 DEF MergeCommit, MergeInto
    <3>2. RefreshesFade
      BY <2>1, <3>1, IssuesNext, MovesFade
    <3>3. TokensFade
      BY <1>6, <2>3, MergeTables DEF TokensFade
    <3> QED BY <3>2, <3>3
  <2> QED BY <2>2, <2>3
<1>7. ASSUME NEW r \in Requests, Abort(r) PROVE TokensFade /\ RefreshesFade
  <2>1. UNCHANGED token /\ ghost' = ghost /\ Close(r)
    BY <1>7 DEF Abort
  <2> QED BY <2>1, CloseMoves, SmallFacts, MovesFade, SameTokens
<1>8. ASSUME NEW t \in Tokens, Exchange(t) PROVE TokensFade /\ RefreshesFade
  BY <1>8, SameTokens DEF Exchange, RefreshesFade
<1>9. ASSUME NEW u \in Users, NEW s \in SUBSET AllScopes, SetScopes(u, s)
      PROVE  TokensFade /\ RefreshesFade
  BY <1>9, SameTokens DEF SetScopes, RefreshesFade, Typed, TypeOK
<1>10. CASE UNCHANGED vars
  BY <1>10, SameTokens, FadeKeeps DEF vars, RefreshesFade
<1> QED
  BY <1>1, <1>2, <1>3, <1>4, <1>5, <1>6, <1>7, <1>8, <1>9, <1>10, FadeKeeps,
     RotateRefresh, RotateCheck, RotateRevoke, RotateIssue DEF Next

(***************************************************************************)
(* Rotation holds for any number of requests and tokens: unless two        *)
(* refreshes of one token overlapped, no login has two usable refresh      *)
(* tokens, whatever failed between the revocation and the issue and        *)
(* whichever users were merged meanwhile.                                  *)
(***************************************************************************)
THEOREM TokensRotate == Spec => []OneTokenPerLogin
<1>1. Init => RotateInv
  <2> SUFFICES ASSUME Init PROVE RotateInv
    OBVIOUS
  <2>1. \A t \in Tokens : token[t].state = "unissued"
    BY DEF Init, NewToken
  <2>2. Issued = {} /\ Valid = {}
    BY <2>1 DEF Issued, Valid
  <2>3. \A r \in Requests : req[r].token = NoToken
    BY SmallFacts DEF Init
  <2> QED BY <2>2, <2>3 DEF RotateInv, ChainInv, Apart, Rotating
<1>2. RotateInv => OneTokenPerLogin
  BY DEF RotateInv, OneTokenPerLogin
<1> QED BY <1>1, <1>2, RotateStep, InitTyped, TypedStep, PTL DEF Spec
=============================================================================
