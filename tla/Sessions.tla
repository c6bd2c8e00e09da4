------------------------------- MODULE Sessions -------------------------------
(***************************************************************************)
(* The account and refresh-token half of the server: the routes of         *)
(* auth.routes.js (login, refresh, logout, me), the authenticate           *)
(* middleware in front of them, and the two admin routes that change who   *)
(* may hold a session (POST /users and DELETE /users/:id).  Who is an      *)
(* admin is a constant here: no route makes an admin, and PATCH can only   *)
(* demote one, which takes steps away; roles change in Messaging.          *)
(*                                                                         *)
(* The server is one Node process over one Postgres database.  A handler   *)
(* runs up to its next await without being interrupted, and no handler     *)
(* opens a transaction, so the unit of interleaving is one SQL statement   *)
(* (or one bcrypt call) of one request.  Each action below is the code     *)
(* between two awaits.  Every statement may fail, which ends the request   *)
(* with a 500 and leaves what earlier statements did.                      *)
(***************************************************************************)
EXTENDS Naturals, FiniteSets

CONSTANTS
    User,       \* the ids that have, or may be given, a row in users
    Admins,     \* the rows with role 'admin'
    Token,      \* refresh tokens; newRefreshToken() never repeats one
    Request,    \* slots for the requests in flight at the same time
    NoUser,     \* "no row"
    NoToken     \* "no token"

ASSUME SessionsAssumption ==
    /\ Admins \subseteq User
    /\ NoUser \notin User
    /\ NoToken \notin Token

VARIABLES
    account,    \* users: "absent" (no row), "active" or "inactive" (is_active)
    owner,      \* refresh_tokens.user_id of each token, NoUser if never inserted
    revoked,    \* the tokens whose revoked_at is set
    expired,    \* the tokens whose expires_at has passed
    signedIn,   \* the users for whom an unexpired access JWT is in circulation
    h,          \* the local state of each request handler
    parent,     \* history: the token that /auth/refresh exchanged for this one
    late,       \* history: the tokens inserted when their owner was inactive
    cut         \* history: the users whose DELETE /users/:id has answered 200

tables  == <<account, owner, revoked, expired>>
history == <<parent, late, cut>>
vars    == <<account, owner, revoked, expired, signedIn, h, parent, late, cut>>

-----------------------------------------------------------------------------
(* Handlers.  "pc" is the statement a handler will run next, or its answer. *)

Running  == {"verify", "issue", "rotate", "reissue", "forget", "create",
             "flag", "sweep"}
Answered == {"granted", "ok", "denied", "error"}

Handler == [pc: {"idle"} \cup Running \cup Answered,
            user: User \cup {NoUser},
            token: Token \cup {NoToken},
            out: Token \cup {NoToken}]

Idle == [pc |-> "idle", user |-> NoUser, token |-> NoToken, out |-> NoToken]

Enter(pc, u, t) == [pc |-> pc, user |-> u, token |-> t, out |-> NoToken]

Answer(pc) == [Idle EXCEPT !.pc = pc]

(* The types of the tables, and what a handler must hold when it gets to a *)
(* statement: the account it works for, the token it was sent, and in an   *)
(* answer that grants a session the new refresh token itself.              *)
TypeOK ==
    /\ account \in [User -> {"absent", "active", "inactive"}]
    /\ owner \in [Token -> User \cup {NoUser}]
    /\ revoked \subseteq Token
    /\ expired \subseteq Token
    /\ signedIn \subseteq User
    /\ h \in [Request -> Handler]
    /\ \A r \in Request :
        /\ h[r].pc \in Running => h[r].user \in User
        /\ h[r].pc \in {"rotate", "reissue", "forget"} => h[r].token \in Token
        /\ h[r].pc = "granted" => h[r].out \in Token
    /\ parent \in [Token -> Token \cup {NoToken}]
    /\ late \subseteq Token
    /\ cut \subseteq User

Init ==
    /\ account = [u \in User |-> IF u \in Admins THEN "active" ELSE "absent"]
    /\ owner = [t \in Token |-> NoUser]
    /\ revoked = {}
    /\ expired = {}
    /\ signedIn = {}
    /\ h = [r \in Request |-> Idle]
    /\ parent = [t \in Token |-> NoToken]
    /\ late = {}
    /\ cut = {}

Exists(t) == owner[t] # NoUser

(* A token row that POST /auth/refresh still accepts, owner aside. *)
Live(t) == Exists(t) /\ t \notin revoked /\ t \notin expired

-----------------------------------------------------------------------------
(* POST /auth/login *)

\* The select: an unknown or deactivated account is refused before bcrypt runs.
MayLogin(u) == account[u] = "active"

LoginSelect(r, u) ==
    /\ h[r].pc = "idle"
    /\ h' = [h EXCEPT ![r] = IF MayLogin(u) THEN Enter("verify", u, NoToken)
                                            ELSE Answer("denied")]
    /\ UNCHANGED <<tables, signedIn, history>>

LoginVerify(r) ==
    /\ h[r].pc = "verify"
    /\ \/ h' = [h EXCEPT ![r].pc = "issue"]
       \/ h' = [h EXCEPT ![r] = Answer("denied")]
    /\ UNCHANGED <<tables, signedIn, history>>

(* insert into refresh_tokens: a row for u, obtained in exchange for "from". *)
InsertToken(t, u, from) ==
    /\ ~Exists(t)
    /\ owner' = [owner EXCEPT ![t] = u]
    /\ parent' = [parent EXCEPT ![t] = from]
    /\ late' = IF account[u] = "active" THEN late ELSE late \cup {t}

\* Mutation of Grant: the new refresh token is not put in the answer.
GrantAccessOnly(r, t) ==
    /\ h' = [h EXCEPT ![r].pc = "granted"]
    /\ signedIn' = signedIn \cup {h[r].user}

(* The answer carries the new refresh token and a signed access JWT. *)
Grant(r, t) ==
    /\ h' = [h EXCEPT ![r].pc = "granted", ![r].out = t]
    /\ signedIn' = signedIn \cup {h[r].user}

LoginInsert(r, t) ==
    /\ h[r].pc = "issue"
    /\ InsertToken(t, h[r].user, NoToken)
    /\ Grant(r, t)
    /\ UNCHANGED <<account, revoked, expired, cut>>

-----------------------------------------------------------------------------
(* POST /auth/refresh *)

\* Mutation of MayRefresh: the is_active column of the join is not tested.
MayRefreshAnyAccount(t) == Live(t)

MayRefresh(t) == Live(t) /\ account[owner[t]] = "active"

RefreshSelect(r, t) ==
    /\ h[r].pc = "idle"
    /\ h' = [h EXCEPT ![r] = IF MayRefresh(t) THEN Enter("rotate", owner[t], t)
                                              ELSE Answer("denied")]
    /\ UNCHANGED <<tables, signedIn, history>>

\* Mutation of RefreshRevoke: the update that revokes the old token is lost.
RefreshRevokeLost(r) ==
    /\ h[r].pc = "rotate"
    /\ h' = [h EXCEPT ![r].pc = "reissue"]
    /\ UNCHANGED <<tables, signedIn, history>>

RefreshRevoke(r) ==
    /\ h[r].pc = "rotate"
    /\ revoked' = revoked \cup {h[r].token}
    /\ h' = [h EXCEPT ![r].pc = "reissue"]
    /\ UNCHANGED <<account, owner, expired, signedIn, history>>

RefreshInsert(r, t) ==
    /\ h[r].pc = "reissue"
    /\ InsertToken(t, h[r].user, h[r].token)
    /\ Grant(r, t)
    /\ UNCHANGED <<account, revoked, expired, cut>>

-----------------------------------------------------------------------------
(* Requests behind authenticate: an unexpired JWT for u, and one fresh read  *)
(* of u's row.  A failed read is answered 401 as well, like a denial.        *)

Authenticate(r, u, next) ==
    /\ h[r].pc = "idle"
    /\ u \in signedIn
    /\ h' = [h EXCEPT ![r] = IF account[u] = "active" THEN next
                                                      ELSE Answer("denied")]
    /\ UNCHANGED <<tables, signedIn, history>>

Me(r, u) == Authenticate(r, u, Answer("ok"))

(* POST /auth/logout with the refresh token t in the body; without one the   *)
(* handler only answers, as Me does.                                         *)
LogoutAuth(r, u, t) == Exists(t) /\ Authenticate(r, u, Enter("forget", u, t))

LogoutRevoke(r) ==
    /\ h[r].pc = "forget"
    /\ revoked' = revoked \cup {h[r].token}
    /\ h' = [h EXCEPT ![r] = Answer("ok")]
    /\ UNCHANGED <<account, owner, expired, signedIn, history>>

(* The admin surface: requireRole('admin') follows authenticate. *)
AdminAuth(r, a, next) ==
    Authenticate(r, a, IF a \in Admins THEN next ELSE Answer("denied"))

(* POST /admin/users: the row is new, its account active. *)
CreateAuth(r, a, u) ==
    account[u] = "absent" /\ AdminAuth(r, a, Enter("create", u, NoToken))

CreateInsert(r) ==
    LET u == h[r].user IN
    /\ h[r].pc = "create"
    /\ IF account[u] = "absent"
       THEN /\ account' = [account EXCEPT ![u] = "active"]
            /\ h' = [h EXCEPT ![r] = Answer("ok")]
       ELSE /\ h' = [h EXCEPT ![r] = Answer("error")]  \* username is taken
            /\ UNCHANGED account
    /\ UNCHANGED <<owner, revoked, expired, signedIn, history>>

(* DELETE /admin/users/:id: clear the flag, then revoke what is still live. *)
DeactivateAuth(r, a, u) ==
    account[u] # "absent" /\ AdminAuth(r, a, Enter("flag", u, NoToken))

ClearFlag(r) ==
    /\ h[r].pc = "flag"
    /\ account' = [account EXCEPT ![h[r].user] = "inactive"]
    /\ h' = [h EXCEPT ![r].pc = "sweep"]
    /\ UNCHANGED <<owner, revoked, expired, signedIn, history>>

\* Mutation of OwnedBy: only the tokens that login issued are revoked.
LoginTokensOf(u) == {t \in Token : owner[t] = u /\ parent[t] = NoToken}

OwnedBy(u) == {t \in Token : owner[t] = u}

RevokeAll(r) ==
    LET u == h[r].user IN
    /\ h[r].pc = "sweep"
    /\ revoked' = revoked \cup OwnedBy(u)
    /\ cut' = cut \cup {u}
    /\ h' = [h EXCEPT ![r] = Answer("ok")]
    /\ UNCHANGED <<account, owner, expired, signedIn, parent, late>>

-----------------------------------------------------------------------------
(* The error middleware of index.js, the end of a request, and the clock. *)

Fail(r) ==
    /\ h[r].pc \in Running
    /\ h' = [h EXCEPT ![r] = Answer("error")]
    /\ UNCHANGED <<tables, signedIn, history>>

Respond(r) ==
    /\ h[r].pc \in Answered
    /\ h' = [h EXCEPT ![r] = Idle]
    /\ UNCHANGED <<tables, signedIn, history>>

ExpireToken(t) ==
    /\ Exists(t) /\ t \notin expired
    /\ expired' = expired \cup {t}
    /\ UNCHANGED <<account, owner, revoked, signedIn, h, history>>

ExpireAccess(u) ==
    /\ u \in signedIn
    /\ signedIn' = signedIn \ {u}
    /\ UNCHANGED <<tables, h, history>>

Next ==
    \/ \E r \in Request :
        \/ \E u \in User : LoginSelect(r, u) \/ Me(r, u)
        \/ \E t \in Token : LoginInsert(r, t) \/ RefreshSelect(r, t)
                            \/ RefreshInsert(r, t)
        \/ \E u \in User, t \in Token : LogoutAuth(r, u, t)
        \/ \E a \in User, u \in User : CreateAuth(r, a, u) \/ DeactivateAuth(r, a, u)
        \/ LoginVerify(r) \/ RefreshRevoke(r) \/ LogoutRevoke(r)
        \/ CreateInsert(r) \/ ClearFlag(r) \/ RevokeAll(r)
        \/ Fail(r) \/ Respond(r)
    \/ \E t \in Token : ExpireToken(t)
    \/ \E u \in User : ExpireAccess(u)

Spec == Init /\ [][Next]_vars

-----------------------------------------------------------------------------
(* What the server guarantees. *)

(* Rotation: once a refresh token has a successor it is revoked for good,  *)
(* and the successor belongs to the same account.  So one sign-in leaves   *)
(* a chain of tokens of which the exchanged ones are all dead, whatever    *)
(* else interleaves with the two statements of /auth/refresh.              *)
RotatedOut ==
    \A t \in Token : parent[t] # NoToken =>
        parent[t] \in revoked /\ owner[parent[t]] = owner[t]

(* Once DELETE /users/:id has answered, any token of the account that is   *)
(* still live was inserted after the flag was cleared, by a login or a     *)
(* refresh that had read is_active before.  Clearing the flag before the   *)
(* sweep is what makes this true.                                          *)
OnlyLateSurvive ==
    \A t \in Token : (Live(t) /\ owner[t] \in cut) => t \in late

(* Such a late token is barren: it is never exchanged for another one, nor *)
(* is any handler about to, because /auth/refresh reads is_active.         *)
LateIsBarren ==
    /\ \A t \in Token : parent[t] \notin late
    /\ \A r \in Request : h[r].pc \in {"rotate", "reissue"} => h[r].token \notin late

(* A handler that has read u as active and may still insert a token for u. *)
Approved(r, u) ==
    h[r].user = u /\ h[r].pc \in {"verify", "issue", "rotate", "reissue"}

(* The account is dead: deactivated, no live token, no approved handler.   *)
Dead(u) ==
    /\ account[u] = "inactive"
    /\ \A t \in Token : owner[t] = u => ~Live(t)
    /\ \A r \in Request : ~Approved(r, u)

(* Dead is for ever: no route reactivates an account, and a dead one never *)
(* obtains a token or an approval again.                                   *)
DeadStaysDead == [][\A u \in User : Dead(u) => Dead(u)']_vars

-----------------------------------------------------------------------------
(* Sessions implements SessionLife. *)

standing == [u \in User |->
    IF account[u] = "absent" THEN "absent"
    ELSE IF account[u] = "active" THEN "open"
    ELSE IF Dead(u) THEN "closed" ELSE "closing"]

state == [t \in Token |->
    IF owner[t] = NoUser THEN "unborn"
    ELSE IF t \in revoked \/ t \in expired
    THEN IF t \in late THEN "void" ELSE "spent"
    ELSE IF t \in late THEN "late" ELSE "live"]

Life == INSTANCE SessionLife WITH holder <- owner, origin <- parent

(* Whatever requests interleave, fail or race with a deactivation, each step *)
(* is one of SessionLife: a token of a closing account is never exchanged, a *)
(* closed account has none that works and never opens again.                 *)
KeepsLife == Life!Spec

-----------------------------------------------------------------------------
(* What the comments and documents say and the code does not do. *)

(* docs/SECURITY.md: refresh tokens are "revoked on logout and on account  *)
(* deactivation".  After the DELETE has answered, none should be live.     *)
DeactivationRevokes == \A t \in Token : Live(t) => owner[t] \notin cut
=============================================================================
