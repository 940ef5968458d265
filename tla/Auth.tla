-------------------------------- MODULE Auth --------------------------------
(***************************************************************************)
(* auth-service's accounts and refresh-token sessions (handlers/auth.go,   *)
(* sessions/refresh_repository.go, storage/user_repository.go).            *)
(*                                                                         *)
(* Register and Login each end in issueRefreshToken, one INSERT INTO       *)
(* refresh_tokens.  Refresh and Logout are modelled statement by statement *)
(* because their statements are separate autocommit queries on the pool:  *)
(*                                                                         *)
(*   Refresh   GetByHash; 401 if revoked_at is set or the token expired;   *)
(*             GetByID; Revoke (UPDATE ... SET revoked_at = now() WHERE    *)
(*             id = $1, no condition on revoked_at); issueRefreshToken.    *)
(*   Logout    GetByHash; if revoked_at is unset, Revoke.  204.            *)
(*                                                                         *)
(* A token is named by its position 1..MaxTokens in the order of issue.    *)
(* JWT signing reads keys that never change here and is left out.  Answers *)
(* that change no row (400, 401, a 500 before any write) are not steps.    *)
(***************************************************************************)
EXTENDS Naturals, FiniteSets

CONSTANTS
    Emails,     \* the e-mail addresses clients register and log in with
    Reqs,       \* concurrent Refresh and Logout requests
    MaxTokens,  \* bound on the refresh tokens issued
    Outcomes    \* outcomes of a statement: "ok", "err"

VARIABLES
    users,      \* e-mails with a committed users row
    created,    \* created[e]: committed auth.user.created.v1 outbox rows
    issued,     \* refresh_tokens rows so far: tokens 1..issued
    owner,      \* owner[t]: the user of token t
    parent,     \* parent[t]: the token a Refresh exchanged for t, 0 if none
    revoked,    \* tokens with revoked_at set
    expired,    \* tokens whose expires_at has passed
    pc,         \* pc[q]: "idle", "rotate", "issue", "logout" or "done"
    held        \* held[q]: the token record request q read

vars == <<users, created, issued, owner, parent, revoked, expired, pc, held>>

Tokens == 1..MaxTokens

-----------------------------------------------------------------------------
(* issueRefreshToken: a fresh random token, its row inserted with the      *)
(* user and expiry; p is the token a Refresh exchanges, 0 otherwise.  The  *)
(* caller answers 500 when the INSERT fails, which is the other outcome.   *)
IssueRefreshToken(e, p) ==
    /\ issued < MaxTokens
    /\ issued' = issued + 1
    /\ owner' = [owner EXCEPT ![issued + 1] = e]
    /\ parent' = [parent EXCEPT ![issued + 1] = p]

(* Register: one transaction inserts the users row (23505 on a taken       *)
(* e-mail: 409) and the user.created outbox row, and commits; the refresh  *)
(* token is issued after the commit, so its failure leaves the account.    *)
Register(e) ==
    /\ e \notin users
    /\ users' = users \cup {e}
    /\ created' = [created EXCEPT ![e] = @ + 1]
    /\ \/ IssueRefreshToken(e, 0)
       \/ UNCHANGED <<issued, owner, parent>>
    /\ UNCHANGED <<revoked, expired, pc, held>>

(* Login: GetByEmail and the password check; only a user with the right    *)
(* password gets a token.                                                  *)
Login(e) ==
    /\ e \in users
    /\ IssueRefreshToken(e, 0)
    /\ UNCHANGED <<users, created, revoked, expired, pc, held>>

(* Time passes a token's expires_at.                                       *)
Expire(t) ==
    /\ t <= issued /\ t \notin expired
    /\ expired' = expired \cup {t}
    /\ UNCHANGED <<users, created, issued, owner, parent, revoked, pc, held>>

(* Refresh up to Revoke: GetByHash of a presented token, the revoked and   *)
(* expiry test, and GetByID, whose error is a 500.                         *)
RefreshRead(q, t) ==
    /\ pc[q] = "idle" /\ t <= issued
    /\ IF t \in revoked \/ t \in expired
       THEN pc' = [pc EXCEPT ![q] = "done"]
       ELSE \E out \in Outcomes :
               /\ pc' = [pc EXCEPT ![q] = IF out = "ok" THEN "rotate" ELSE "done"]
    /\ held' = [held EXCEPT ![q] = t]
    /\ UNCHANGED <<users, created, issued, owner, parent, revoked, expired>>

(* Refresh's Revoke: an unconditional UPDATE of the record it read; an     *)
(* error is a 500 ("failed to rotate refresh token").                      *)
RefreshRevoke(q) ==
    /\ pc[q] = "rotate"
    /\ \E out \in Outcomes :
          IF out = "ok"
          THEN /\ revoked' = revoked \cup {held[q]}
               /\ pc' = [pc EXCEPT ![q] = "issue"]
          ELSE /\ pc' = [pc EXCEPT ![q] = "done"]
               /\ UNCHANGED revoked
    /\ UNCHANGED <<users, created, issued, owner, parent, expired, held>>

(* Refresh's issueRefreshToken for the record's user; on an error the old  *)
(* token is revoked and no new one exists (500).  The access token is      *)
(* signed after it.                                                        *)
RefreshIssue(q) ==
    /\ pc[q] = "issue"
    /\ pc' = [pc EXCEPT ![q] = "done"]
    /\ \/ IssueRefreshToken(owner[held[q]], held[q])
       \/ UNCHANGED <<issued, owner, parent>>
    /\ UNCHANGED <<users, created, revoked, expired, held>>

(* Logout's GetByHash: a revoked token is answered 204 at once.            *)
LogoutRead(q, t) ==
    /\ pc[q] = "idle" /\ t <= issued
    /\ pc' = [pc EXCEPT ![q] = IF t \in revoked THEN "done" ELSE "logout"]
    /\ held' = [held EXCEPT ![q] = t]
    /\ UNCHANGED <<users, created, issued, owner, parent, revoked, expired>>

(* Logout's Revoke, then 204; an error is a 500.                           *)
LogoutRevoke(q) ==
    /\ pc[q] = "logout"
    /\ pc' = [pc EXCEPT ![q] = "done"]
    /\ \/ revoked' = revoked \cup {held[q]}
       \/ "err" \in Outcomes /\ UNCHANGED revoked
    /\ UNCHANGED <<users, created, issued, owner, parent, expired, held>>

-----------------------------------------------------------------------------
Init ==
    /\ users = {}
    /\ created = [e \in Emails |-> 0]
    /\ issued = 0
    /\ owner = [t \in Tokens |-> CHOOSE e \in Emails : TRUE]
    /\ parent = [t \in Tokens |-> 0]
    /\ revoked = {}
    /\ expired = {}
    /\ pc = [q \in Reqs |-> "idle"]
    /\ held = [q \in Reqs |-> 0]

Next ==
    \/ \E e \in Emails : Register(e) \/ Login(e)
    \/ \E t \in Tokens : Expire(t)
    \/ \E q \in Reqs :
          \/ \E t \in Tokens : RefreshRead(q, t) \/ LogoutRead(q, t)
          \/ RefreshRevoke(q) \/ RefreshIssue(q) \/ LogoutRevoke(q)

Spec == Init /\ [][Next]_vars

-----------------------------------------------------------------------------
TypeOK ==
    /\ users \subseteq Emails
    /\ created \in [Emails -> Nat]
    /\ issued \in 0..MaxTokens
    /\ parent \in [Tokens -> 0..MaxTokens]
    /\ revoked \subseteq Tokens /\ expired \subseteq Tokens
    /\ pc \in [Reqs -> {"idle", "rotate", "issue", "logout", "done"}]
    /\ held \in [Reqs -> 0..MaxTokens]

Children(t) == {c \in 1..issued : parent[c] = t}

(* Refresh rotates the refresh token: the token it reads is revoked and    *)
(* exchanged for one new token, so a refresh token is used once (a second *)
(* use of it is answered 401).  However Refresh and Logout requests and    *)
(* their failures interleave, no token is exchanged for two new ones.      *)
RefreshSingleUse == \A t \in 1..issued : Cardinality(Children(t)) <= 1
====
