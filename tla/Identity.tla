------------------------------ MODULE Identity ------------------------------
(***************************************************************************)
(* services/identity and the tables it shares (crates/registry-db): logins *)
(* through external accounts, linking and merging of users, refresh tokens *)
(* rotated on use, one-time exchange codes, scopes, and the signing key    *)
(* two starting replicas race for.                                         *)
(*                                                                         *)
(* A request is a sequence of statements on Postgres.  A transaction whose *)
(* rows are locked from its first statement on is one step; the merge of   *)
(* two users reads the grants it moves in one statement and writes them in *)
(* later ones, which READ COMMITTED lets others come between.              *)
(***************************************************************************)
EXTENDS FiniteSets, Naturals

CONSTANTS
  Accounts,      \* external identities: (provider, provider_user_id)
  Requests,      \* HTTP requests that may be in flight
  Replicas,      \* identity processes that may start
  Scopes,        \* scopes an administrator hands out beside "*"
  MaxUsers,      \* bound: users ever created
  MaxTokens      \* bound: refresh tokens ever issued

ASSUME BoundsAssumption == MaxUsers \in Nat /\ MaxTokens \in Nat
ASSUME KeysAssumption == "none" \notin Replicas   \* NoKey is no replica's key

VARIABLES
  users,         \* the users table
  made,          \* users created so far; ids are never used again
  link,          \* linked_accounts: the user of each account, or NoUser
  grants,        \* acl_grants: the scopes of each subject
  token,         \* refresh_tokens, by number: state, owner, the login it descends from
  codes,         \* exchange_codes: tokens waiting to be fetched
  req,           \* per request: its step and its local variables
  key, boot,     \* the signing_keys row; per replica: its step and the key it signs with
  ghost          \* what has happened so far, for the properties

vars == <<users, made, link, grants, token, codes, req, key, boot, ghost>>
people == <<users, made, link>>
keys == <<key, boot>>

-----------------------------------------------------------------------------
Users == 1 .. MaxUsers
NoUser == 0
Tokens == 1 .. MaxTokens
NoToken == 0
Star == "*"
AllScopes == Scopes \cup {Star}
NoKey == "none"

ReqPcs == {"idle", "find", "create", "link", "merge", "check", "revoke", "issue"}
IdleReq == [pc |-> "idle", acct |-> "none", user |-> NoUser, other |-> NoUser, token |-> NoToken,
            grants |-> {}]
NewToken == [state |-> "unissued", owner |-> NoUser, login |-> NoToken]

Issued == {t \in Tokens : token[t].state # "unissued"}
Valid == {t \in Tokens : token[t].state = "valid"}

TypeOK ==
  /\ users \in SUBSET (1 .. made) /\ made \in 0 .. MaxUsers
  /\ link \in [Accounts -> users \cup {NoUser}]
  /\ grants \in [Users -> SUBSET AllScopes]
  /\ token \in [Tokens -> [state : {"unissued", "valid", "revoked", "deleted"},
                           owner : Users \cup {NoUser}, login : Tokens \cup {NoToken}]]
  /\ codes \subseteq Issued
  /\ req \in [Requests -> [pc : ReqPcs, acct : Accounts \cup {"none"}, user : Users \cup {NoUser},
                           other : Users \cup {NoUser}, token : Tokens \cup {NoToken},
                           grants : SUBSET AllScopes]]
  /\ key \in Replicas \cup {NoKey}
  /\ boot \in [Replicas -> [pc : {"down", "insert", "up"}, key : Replicas \cup {NoKey}]]
  /\ ghost \in [starTaken : BOOLEAN, mergesMet : BOOLEAN, refreshesMet : BOOLEAN]
  /\ \A t \in Valid : token[t].owner \in users

Init ==
  /\ users = {} /\ made = 0
  /\ link = [a \in Accounts |-> NoUser]
  /\ grants = [u \in Users |-> {}]
  /\ token = [t \in Tokens |-> NewToken]
  /\ codes = {}
  /\ req = [r \in Requests |-> IdleReq]
  /\ key = NoKey
  /\ boot = [p \in Replicas |-> [pc |-> "down", key |-> NoKey]]
  /\ ghost = [starTaken |-> FALSE, mergesMet |-> FALSE, refreshesMet |-> FALSE]

-----------------------------------------------------------------------------
(***************************************************************************)
(* Signer::load_or_create.                                                 *)
(***************************************************************************)
GetSigningKey(p) ==
  /\ boot[p].pc = "down"
  /\ boot' = [boot EXCEPT ![p] = IF key = NoKey THEN [pc |-> "insert", key |-> p]
                                 ELSE [pc |-> "up", key |-> key]]
  /\ UNCHANGED <<people, grants, token, codes, req, key, ghost>>

\* Mutant of InsertSigningKey: the generated key is used without reading back.
InsertSigningKeyBlind(p) ==
  /\ boot[p].pc = "insert"
  /\ key' = IF key = NoKey THEN p ELSE key
  /\ boot' = [boot EXCEPT ![p].pc = "up"]
  /\ UNCHANGED <<people, grants, token, codes, req, ghost>>

\* ON CONFLICT DO NOTHING, then the row is read back.
InsertSigningKey(p) ==
  /\ boot[p].pc = "insert"
  /\ key' = IF key = NoKey THEN p ELSE key
  /\ boot' = [boot EXCEPT ![p] = [pc |-> "up", key |-> key']]
  /\ UNCHANGED <<people, grants, token, codes, req, ghost>>

\* Requests neither read nor write what the boots do: they come after them.
Serving == \A p \in Replicas : boot[p].pc = "up"

-----------------------------------------------------------------------------
(***************************************************************************)
(* callback: a login, or with link_user_id the linking of an account.      *)
(***************************************************************************)
Open(r, q) ==
  /\ Serving
  /\ req[r].pc = "idle"
  /\ req' = [req EXCEPT ![r] = q]
  /\ UNCHANGED <<people, grants, token, codes, keys>>

Login(r, a) == Open(r, [IdleReq EXCEPT !.pc = "find", !.acct = a]) /\ UNCHANGED ghost

\* The bearer token names a user that may have been merged away since.
Link(r, a, u) ==
  /\ u <= made
  /\ Open(r, [IdleReq EXCEPT !.pc = "link", !.acct = a, !.user = u])
  /\ UNCHANGED ghost

Close(r) == req' = [req EXCEPT ![r] = IdleReq]

\* find_linked_account.
Find(r) ==
  /\ req[r].pc = "find"
  /\ LET u == link[req[r].acct]
     IN  req' = [req EXCEPT ![r].pc = IF u = NoUser THEN "create" ELSE "issue", ![r].user = u]
  /\ UNCHANGED <<people, grants, token, codes, keys, ghost>>

\* Mutant of CreateUser: the user row is committed before the link.
CreateUserFirst(r) ==
  /\ req[r].pc = "create"
  /\ made < MaxUsers
  /\ made' = made + 1
  /\ users' = users \cup {made'}
  /\ grants' = IF users = {} THEN [grants EXCEPT ![made'] = {Star}] ELSE grants
  /\ IF link[req[r].acct] # NoUser THEN Close(r) /\ UNCHANGED link
     ELSE /\ link' = [link EXCEPT ![req[r].acct] = made']
          /\ req' = [req EXCEPT ![r].pc = "issue", ![r].user = made']
  /\ UNCHANGED <<token, codes, keys, ghost>>

\* create_user_and_link, under LOCK TABLE users: the very first user is given
\* every scope.  An account linked meanwhile conflicts on the primary key.
CreateUser(r) ==
  /\ req[r].pc = "create"
  /\ IF link[req[r].acct] # NoUser THEN Close(r) /\ UNCHANGED <<people, grants>>
     ELSE /\ made < MaxUsers
          /\ made' = made + 1
          /\ users' = users \cup {made'}
          /\ link' = [link EXCEPT ![req[r].acct] = made']
          /\ grants' = IF users = {} THEN [grants EXCEPT ![made'] = {Star}] ELSE grants
          /\ req' = [req EXCEPT ![r].pc = "issue", ![r].user = made']
  /\ UNCHANGED <<token, codes, keys, ghost>>

\* SELECT ... FOR UPDATE waits for a merge that holds the account's row.
RowFree(a) == \A q \in Requests : req[q].pc = "merge" => req[q].acct # a

\* link_account_to_user without a merge: a new link, or its own again.  A user
\* that is gone violates the foreign key.
LinkAccount(r) ==
  /\ req[r].pc = "link"
  /\ LET a == req[r].acct  u == req[r].user
     IN  /\ link[a] \in {NoUser, u} /\ RowFree(a)
         /\ IF u \in users
              THEN link' = [link EXCEPT ![a] = u] /\ req' = [req EXCEPT ![r].pc = "issue"]
              ELSE Close(r) /\ UNCHANGED link
  /\ UNCHANGED <<users, made, grants, token, codes, keys, ghost>>

\* With a merge: the other user's scopes are read for the union.
MergeRead(r) ==
  /\ req[r].pc = "link"
  /\ link[req[r].acct] \notin {NoUser, req[r].user}
  /\ RowFree(req[r].acct)
  /\ LET o == link[req[r].acct]
     IN  req' = [req EXCEPT ![r].pc = "merge", ![r].other = o, ![r].grants = grants[o]]
  /\ ghost' = [ghost EXCEPT !.mergesMet = @ \/ \E q \in Requests : req[q].pc = "merge"]
  /\ UNCHANGED <<people, grants, token, codes, keys>>

\* Another merge of the same user holds one of the rows to be moved.
MergeBlocked(r) ==
  \E q \in Requests \ {r} : req[q].pc = "merge" /\ link[req[q].acct] = req[r].other

\* All of the other user's links are moved, and its scopes as they were read.
MovedLinks(r) == [a \in Accounts |-> IF link[a] = req[r].other THEN req[r].user ELSE link[a]]
MovedGrants(r) ==
  [grants EXCEPT ![req[r].user] = @ \cup req[r].grants, ![req[r].other] = {}]

\* The rest of the transaction; the other user's tokens and its row are deleted.
\* A target that is gone by now violates the foreign key and rolls it all back.
MergeInto(r, newLink, newGrants) ==
  /\ req[r].pc = "merge"
  /\ ~ MergeBlocked(r)
  /\ IF req[r].user \notin users THEN Close(r) /\ UNCHANGED <<users, link, grants, token>>
     ELSE /\ grants' = newGrants
          /\ link' = newLink
          /\ token' = [t \in Tokens |-> IF token[t].owner = req[r].other
                                          THEN [token[t] EXCEPT !.state = "deleted"] ELSE token[t]]
          /\ users' = users \ {req[r].other}
          /\ req' = [req EXCEPT ![r].pc = "issue"]
  /\ UNCHANGED <<made, codes, keys, ghost>>

\* Mutant of MergeCommit: only the account that was presented is moved; the
\* user's other links go with it (ON DELETE CASCADE).
MergeCommitOne(r) ==
  MergeInto(r, [a \in Accounts |-> IF a = req[r].acct THEN req[r].user
                                   ELSE IF link[a] = req[r].other THEN NoUser ELSE link[a]],
            MovedGrants(r))

\* Mutant of MergeCommit: the merged user's scopes are dropped.
MergeCommitScopeless(r) == MergeInto(r, MovedLinks(r), [grants EXCEPT ![req[r].other] = {}])

MergeCommit(r) == MergeInto(r, MovedLinks(r), MovedGrants(r))

-----------------------------------------------------------------------------
(***************************************************************************)
(* Tokens.                                                                 *)
(***************************************************************************)
\* TokenIssuer::issue ends a callback and a refresh alike; a user that is gone
\* violates the foreign key.  A browser login gets a code to fetch the pair with.
Issue(r) ==
  /\ req[r].pc = "issue"
  /\ Close(r)
  /\ IF req[r].user \notin users THEN UNCHANGED <<token, codes>>
     ELSE \E t \in Tokens \ Issued :
            /\ \A s \in Tokens \ Issued : t <= s
            /\ token' = [token EXCEPT ![t] =
                 [state |-> "valid", owner |-> req[r].user,
                  login |-> IF req[r].token = NoToken THEN t ELSE token[req[r].token].login]]
            /\ \/ UNCHANGED codes
               \/ req[r].token = NoToken /\ codes' = codes \cup {t}
  /\ UNCHANGED <<people, grants, keys, ghost>>

\* exchange: the code is taken out of the map, used or expired; the map is in
\* memory and may be lost.
Exchange(t) ==
  /\ t \in codes
  /\ codes' = codes \ {t}
  /\ UNCHANGED <<people, grants, token, req, keys, ghost>>

\* /auth/refresh with a token its holder has.
Refresh(r, t) ==
  /\ t \in Issued \ codes
  /\ Open(r, [IdleReq EXCEPT !.pc = "check", !.token = t])
  /\ ghost' = [ghost EXCEPT !.refreshesMet = @ \/ \E q \in Requests : req[q].token = t]

\* valid_refresh_token_user; a token may also have expired.
CheckToken(r) ==
  /\ req[r].pc = "check"
  /\ \/ /\ req[r].token \in Valid
        /\ req' = [req EXCEPT ![r].pc = "revoke", ![r].user = token[req[r].token].owner]
     \/ Close(r)
  /\ UNCHANGED <<people, grants, token, codes, keys, ghost>>

\* Mutant of RevokeToken: a failing UPDATE does not stop the refresh.
RevokeTokenLax(r) ==
  /\ req[r].pc = "revoke"
  /\ req' = [req EXCEPT ![r].pc = "issue"]
  /\ token' \in {token, [token EXCEPT ![req[r].token].state = "revoked"]}
  /\ UNCHANGED <<people, grants, codes, keys, ghost>>

\* The UPDATE counts no rows: a token revoked or deleted since is no error.
RevokeToken(r) ==
  /\ req[r].pc = "revoke"
  /\ req' = [req EXCEPT ![r].pc = "issue"]
  /\ token' = IF req[r].token \in Valid THEN [token EXCEPT ![req[r].token].state = "revoked"]
              ELSE token
  /\ UNCHANGED <<people, grants, codes, keys, ghost>>

\* A statement fails, Postgres breaks a deadlock, the caller goes away, or the
\* process dies.
Abort(r) ==
  /\ req[r].pc # "idle"
  /\ Close(r)
  /\ UNCHANGED <<people, grants, token, codes, keys, ghost>>

\* registry's SetAclScopes replaces a subject's scopes.  The subject is not
\* looked up: it may be a user that has been merged away.
SetScopes(u, s) ==
  /\ u <= made
  /\ grants' = [grants EXCEPT ![u] = s]
  /\ ghost' = [ghost EXCEPT !.starTaken =
                 @ \/ (u \in users /\ Star \in grants[u] /\ Star \notin s)]
  /\ UNCHANGED <<people, token, codes, req, keys>>

-----------------------------------------------------------------------------
Next ==
  \/ \E p \in Replicas : GetSigningKey(p) \/ InsertSigningKey(p)
  \/ \E r \in Requests :
       \/ \E a \in Accounts : Login(r, a)
       \/ \E a \in Accounts, u \in Users : Link(r, a, u)
       \/ Find(r) \/ CreateUser(r) \/ LinkAccount(r) \/ MergeRead(r) \/ MergeCommit(r)
       \/ Issue(r)
       \/ \E t \in Tokens : Refresh(r, t)
       \/ CheckToken(r) \/ RevokeToken(r) \/ Abort(r)
  \/ \E t \in Tokens : Exchange(t)
  \/ \E u \in Users, s \in SUBSET AllScopes : SetScopes(u, s)

Spec == Init /\ [][Next]_vars

-----------------------------------------------------------------------------
(***************************************************************************)
(* "The first person to ever sign in becomes the operator", and a merge    *)
(* must not let "the first-ever superuser silently lose that scope":       *)
(* unless an administrator took it away, some user holds "*".  Two merges  *)
(* that overlap are excepted: the second can delete what the first moved.  *)
(***************************************************************************)
SuperuserSurvives ==
  made > 0 /\ ~ ghost.starTaken /\ ~ ghost.mergesMet => \E u \in users : Star \in grants[u]

(***************************************************************************)
(* Every user can be logged into: simultaneous first logins through one    *)
(* account leave no user without one, and a merge leaves none behind.      *)
(***************************************************************************)
EveryUserReachable == \A u \in users : \E a \in Accounts : link[a] = u

(***************************************************************************)
(* The users' accounts implement the abstract People: a login founds a     *)
(* person or finds one, a link adds an account to one, a merge unites two, *)
(* and nothing else, whichever of these requests overlap, fail or come too *)
(* late.  No account is lost, moved without its owner or split off.        *)
(***************************************************************************)
AccountsOf(u) == {a \in Accounts : link[a] = u}
People == INSTANCE People WITH persons <- {AccountsOf(u) : u \in users}

PeopleKept == People!Spec

(***************************************************************************)
(* "Rotated on every use": the tokens that descend from one login are a    *)
(* chain with one usable end, failures between the revocation and the new  *)
(* token included, as long as no two refreshes of one token overlap (check *)
(* and revocation are two statements, and both would issue).               *)
(***************************************************************************)
OneTokenPerLogin ==
  ~ ghost.refreshesMet => \A s, t \in Valid : token[s].login = token[t].login => s = t

(***************************************************************************)
(* Replicas racing on the first boot "converge on one winner": whoever is  *)
(* up signs with the key in the table.                                     *)
(***************************************************************************)
OneSigningKey == \A p \in Replicas : boot[p].pc = "up" => boot[p].key = key
=============================================================================
