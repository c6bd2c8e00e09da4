---------------------------- MODULE SessionsProofs ----------------------------
(***************************************************************************)
(* Sessions is correct for any number of accounts, tokens and requests.    *)
(*                                                                         *)
(* RotatedOut, OnlyLateSurvive and LateIsBarren speak of the tables, but   *)
(* what keeps them true is what every handler still remembers from its     *)
(* first select while the tables move on: HandlerInv says how much of that *)
(* memory stays true.  IInv is the inductive invariant.                    *)
(***************************************************************************)
EXTENDS Sessions, TLAPS

(* A row's history: an unused token has none; a predecessor is a revoked   *)
(* row of the same account and was not issued late; late rows belong to    *)
(* deactivated accounts.                                                   *)
TokenInv ==
    /\ \A t \in Token : ~Exists(t) => parent[t] = NoToken /\ t \notin late
    /\ \A t \in Token : parent[t] # NoToken =>
           /\ parent[t] \in revoked
           /\ parent[t] \notin late
           /\ Exists(parent[t])
           /\ owner[parent[t]] = owner[t]
    /\ \A t \in late : account[owner[t]] = "inactive"

(* What a handler read before its last await and may still rely on. *)
HandlerInv ==
    \A r \in Request :
        /\ h[r].pc \in {"verify", "issue", "rotate", "reissue", "flag"} =>
               account[h[r].user] # "absent"
        /\ h[r].pc = "sweep" => account[h[r].user] = "inactive"
        /\ h[r].pc \in {"rotate", "reissue"} =>
               /\ Exists(h[r].token)
               /\ owner[h[r].token] = h[r].user
               /\ h[r].token \notin late
        /\ h[r].pc = "reissue" => h[r].token \in revoked

(* After the DELETE: the flag stays down, and what lives was issued late.  *)
CutInv ==
    /\ \A u \in cut : account[u] = "inactive"
    /\ OnlyLateSurvive

IInv == TypeOK /\ TokenInv /\ HandlerInv /\ CutInv

-----------------------------------------------------------------------------

USE SessionsAssumption

LEMMA InitIInv == Init => IInv
  BY DEF Init, IInv, TypeOK, TokenInv, HandlerInv, CutInv, OnlyLateSurvive,
         Exists, Live, Idle, Handler, Running, Answered

(* The actions that only move a handler to a statement that relies on      *)
(* nothing, or to an answer, are treated together.                         *)
LEMMA HandlerOnly ==
  ASSUME IInv, NEW r \in Request, NEW x \in Handler,
         h' = [h EXCEPT ![r] = x],
         UNCHANGED <<tables, history>>, signedIn' \subseteq User,
         x.pc \in Running => x.user \in User,
         x.pc \in {"rotate", "reissue", "forget"} => x.token \in Token,
         x.pc = "granted" => x.out \in Token,
         x.pc \in {"verify", "issue", "rotate", "reissue", "flag"} =>
             account[x.user] # "absent",
         x.pc # "sweep",
         x.pc \in {"rotate", "reissue"} =>
             Exists(x.token) /\ owner[x.token] = x.user /\ x.token \notin late,
         x.pc = "reissue" => x.token \in revoked
  PROVE  IInv'
<1>1. TypeOK'
  BY DEF IInv, TypeOK, tables, history
<1>2. TokenInv'
  BY DEF IInv, TokenInv, Exists, tables, history
<1>3. HandlerInv'
  BY DEF IInv, TypeOK, HandlerInv, Exists, tables, history
<1>4. CutInv'
  BY DEF IInv, CutInv, OnlyLateSurvive, Live, Exists, tables, history
<1> QED  BY <1>1, <1>2, <1>3, <1>4 DEF IInv

(* In particular the actions that only answer: a refusal, an error, "ok".  *)
LEMMA AnswerOnly ==
  ASSUME IInv, NEW r \in Request, NEW a \in {"ok", "denied", "error"},
         h' = [h EXCEPT ![r] = Answer(a)],
         UNCHANGED <<tables, signedIn, history>>
  PROVE  IInv'
<1> DEFINE x == Answer(a)
<1>1. x \in Handler /\ x.pc = a
  BY DEF Answer, Idle, Handler, Answered
<1>2. h' = [h EXCEPT ![r] = x] /\ signedIn' \subseteq User
  BY DEF IInv, TypeOK
<1> HIDE DEF x
<1> QED  BY <1>1, <1>2, HandlerOnly DEF Running

(* Inserting a token for an account some handler had approved. *)
LEMMA InsertKeepsIInv ==
  ASSUME IInv, NEW r \in Request, NEW t \in Token, NEW from \in Token \cup {NoToken},
         h[r].pc \in {"issue", "reissue"},
         from # NoToken => h[r].pc = "reissue" /\ from = h[r].token,
         InsertToken(t, h[r].user, from), Grant(r, t),
         UNCHANGED <<account, revoked, expired, cut>>
  PROVE  IInv'
<1> DEFINE u == h[r].user
<1>1. u \in User /\ account[u] \in {"active", "inactive"}
  BY DEF IInv, TypeOK, HandlerInv, Running
<1>2. TypeOK'
  <2> DEFINE x == [h[r] EXCEPT !.pc = "granted", !.out = t]
  <2>1. h[r] \in Handler
    BY DEF IInv, TypeOK
  <2>2. x \in Handler /\ x.pc = "granted" /\ x.out = t
    BY <2>1 DEF Handler, Answered
  <2>3. h' = [h EXCEPT ![r] = x]
    BY <2>1 DEF Grant, IInv, TypeOK
  <2> HIDE DEF x
  <2>4. /\ h' \in [Request -> Handler]
        /\ \A q \in Request : h'[q] = IF q = r THEN x ELSE h[q]
    BY <2>2, <2>3 DEF IInv, TypeOK
  <2>5. /\ owner' \in [Token -> User \cup {NoUser}]
        /\ parent' \in [Token -> Token \cup {NoToken}]
        /\ late' \subseteq Token
        /\ signedIn' \subseteq User
    BY <1>1 DEF IInv, TypeOK, InsertToken, Grant
  <2> QED  BY <1>1, <2>2, <2>4, <2>5 DEF IInv, TypeOK, Running
<1>3. TokenInv'
  BY <1>1 DEF IInv, TypeOK, TokenInv, HandlerInv, InsertToken, Exists
<1>4. HandlerInv'
  BY <1>1 DEF IInv, TypeOK, HandlerInv, InsertToken, Grant, Exists
<1>5. CutInv'
  BY <1>1 DEF IInv, TypeOK, CutInv, OnlyLateSurvive, InsertToken, Live, Exists
<1> QED  BY <1>2, <1>3, <1>4, <1>5 DEF IInv

LEMMA RevokeKeepsIInv ==
  ASSUME IInv, NEW r \in Request,
         RefreshRevoke(r) \/ LogoutRevoke(r) \/ RevokeAll(r)
  PROVE  IInv'
<1> USE DEF RefreshRevoke, LogoutRevoke, RevokeAll
<1>1. TypeOK'
  <2>1. CASE RefreshRevoke(r)
    <3> DEFINE x == [h[r] EXCEPT !.pc = "reissue"]
    <3>1. x \in Handler /\ x.pc = "reissue" /\ x.user = h[r].user /\ x.token = h[r].token
      BY DEF IInv, TypeOK, Handler, Running
    <3>2. h' = [h EXCEPT ![r] = x]
      BY <2>1
    <3> HIDE DEF x
    <3> QED  BY <2>1, <3>1, <3>2 DEF IInv, TypeOK, Running, history
  <2>2. CASE LogoutRevoke(r)
    BY <2>2 DEF IInv, TypeOK, Answer, Idle, Handler, Running, Answered, history
  <2>3. CASE RevokeAll(r)
    BY <2>3 DEF IInv, TypeOK, OwnedBy, Answer, Idle, Handler, Running, Answered, history
  <2> QED  BY <2>1, <2>2, <2>3
<1>2. TokenInv'
  BY DEF IInv, TypeOK, TokenInv, Exists, history
<1>3. HandlerInv'
  BY DEF IInv, TypeOK, HandlerInv, Handler, Running, Exists, Answer, Idle, history
<1>4. CutInv'
  BY DEF IInv, TypeOK, HandlerInv, CutInv, OnlyLateSurvive, OwnedBy, Live, Exists, history
<1> QED  BY <1>1, <1>2, <1>3, <1>4 DEF IInv

LEMMA AccountKeepsIInv ==
  ASSUME IInv, NEW r \in Request, ClearFlag(r) \/ CreateInsert(r)
  PROVE  IInv'
<1> DEFINE u == h[r].user
<1> USE DEF ClearFlag, CreateInsert
<1>0. u \in User
  BY DEF IInv, TypeOK, Running
<1>1. TypeOK'
  <2>1. CASE ClearFlag(r)
    <3> DEFINE x == [h[r] EXCEPT !.pc = "sweep"]
    <3>1. x \in Handler /\ x.pc = "sweep" /\ x.user = u
      BY DEF IInv, TypeOK, Handler, Running
    <3>2. h' = [h EXCEPT ![r] = x]
      BY <2>1
    <3> HIDE DEF x
    <3> QED  BY <1>0, <2>1, <3>1, <3>2 DEF IInv, TypeOK, Running, history
  <2>2. CASE CreateInsert(r)
    BY <1>0, <2>2 DEF IInv, TypeOK, Answer, Idle, Handler, Running, Answered, history
  <2> QED  BY <2>1, <2>2
<1>2. TokenInv'
  BY <1>0 DEF IInv, TypeOK, TokenInv, Exists, history
<1>3. HandlerInv'
  BY <1>0 DEF IInv, TypeOK, HandlerInv, Handler, Running, Exists, Answer, Idle, history
<1>4. CutInv'
  BY <1>0 DEF IInv, TypeOK, CutInv, OnlyLateSurvive, Live, Exists, history
<1> QED  BY <1>1, <1>2, <1>3, <1>4 DEF IInv

LEMMA ClockKeepsIInv ==
  ASSUME IInv,
         \/ \E t \in Token : ExpireToken(t)
         \/ \E u \in User : ExpireAccess(u)
         \/ UNCHANGED vars
  PROVE  IInv'
<1> USE DEF ExpireToken, ExpireAccess, vars, tables, history
<1>1. TypeOK'  BY DEF IInv, TypeOK
<1>2. TokenInv'  BY DEF IInv, TokenInv, Exists
<1>3. HandlerInv'  BY DEF IInv, TypeOK, HandlerInv, Exists
<1>4. CutInv'  BY DEF IInv, CutInv, OnlyLateSurvive, Live, Exists
<1> QED  BY <1>1, <1>2, <1>3, <1>4 DEF IInv

LEMMA StepIInv == IInv /\ [Next]_vars => IInv'
<1> SUFFICES ASSUME IInv, [Next]_vars
             PROVE  IInv'
  OBVIOUS
<1> USE DEF Handler, Running, Answered, Answer, Idle, Enter
<1>1. ASSUME NEW r \in Request, NEW u \in User, LoginSelect(r, u)
      PROVE  IInv'
  <2> DEFINE x == IF MayLogin(u) THEN Enter("verify", u, NoToken) ELSE Answer("denied")
  <2>1. x \in Handler /\ (x.pc = "verify" => x.user = u /\ account[u] # "absent")
        /\ x.pc \in {"verify", "denied"}
    BY DEF MayLogin
  <2> QED  BY <1>1, <2>1, HandlerOnly DEF LoginSelect, IInv, TypeOK
<1>2. ASSUME NEW r \in Request, LoginVerify(r)
      PROVE  IInv'
  <2>1. CASE h' = [h EXCEPT ![r].pc = "issue"]
    <3> DEFINE x == [h[r] EXCEPT !.pc = "issue"]
    <3>1. x \in Handler /\ x.pc = "issue" /\ x.user = h[r].user /\ h' = [h EXCEPT ![r] = x]
      BY <2>1 DEF IInv, TypeOK
    <3>2. h[r].user \in User /\ account[h[r].user] # "absent"
      BY <1>2 DEF LoginVerify, IInv, TypeOK, HandlerInv
    <3> HIDE DEF x
    <3> QED  BY <1>2, <3>1, <3>2, HandlerOnly DEF LoginVerify, IInv, TypeOK
  <2>2. CASE h' = [h EXCEPT ![r] = Answer("denied")]
    BY <1>2, <2>2, AnswerOnly DEF LoginVerify
  <2> QED  BY <1>2, <2>1, <2>2 DEF LoginVerify
<1>3. ASSUME NEW r \in Request, NEW t \in Token, RefreshSelect(r, t)
      PROVE  IInv'
  <2>1. CASE MayRefresh(t)
    <3>1. owner[t] \in User /\ account[owner[t]] = "active" /\ t \notin late /\ Exists(t)
      BY <2>1 DEF MayRefresh, Live, Exists, IInv, TypeOK, TokenInv
    <3> DEFINE x == Enter("rotate", owner[t], t)
    <3>2. x \in Handler /\ x.pc = "rotate" /\ x.user = owner[t] /\ x.token = t
      BY <3>1
    <3> QED  BY <1>3, <2>1, <3>1, <3>2, HandlerOnly DEF RefreshSelect, IInv, TypeOK
  <2>2. CASE ~MayRefresh(t)
    BY <1>3, <2>2, AnswerOnly DEF RefreshSelect
  <2> QED  BY <2>1, <2>2
<1>4. ASSUME NEW r \in Request, NEW t \in Token, LoginInsert(r, t)
      PROVE  IInv'
  BY <1>4, InsertKeepsIInv DEF LoginInsert
<1>5. ASSUME NEW r \in Request, NEW t \in Token, RefreshInsert(r, t)
      PROVE  IInv'
  <2>1. h[r].token \in Token
    BY <1>5 DEF RefreshInsert, IInv, TypeOK
  <2> QED  BY <1>5, <2>1, InsertKeepsIInv DEF RefreshInsert
<1>6. ASSUME NEW r \in Request, NEW u \in User, NEW next \in Handler,
             Authenticate(r, u, next),
             next.pc \in {"ok", "denied", "forget", "create", "flag"},
             next.pc \in Running => next.user \in User,
             next.pc = "forget" => next.token \in Token,
             next.pc = "flag" => account[next.user] # "absent"
      PROVE  IInv'
  <2> DEFINE x == IF account[u] = "active" THEN next ELSE Answer("denied")
  <2>1. /\ x \in Handler
        /\ x = next \/ x = Answer("denied")
    OBVIOUS
  <2>2. h' = [h EXCEPT ![r] = x] /\ UNCHANGED <<tables, signedIn, history>>
    BY <1>6 DEF Authenticate
  <2> HIDE DEF x
  <2> QED  BY <1>6, <2>1, <2>2, HandlerOnly DEF IInv, TypeOK
<1>7. ASSUME NEW r \in Request, NEW u \in User, Me(r, u)
      PROVE  IInv'
  BY <1>7, <1>6 DEF Me
<1>8. ASSUME NEW r \in Request, NEW u \in User, NEW t \in Token, LogoutAuth(r, u, t)
      PROVE  IInv'
  <2>1. Enter("forget", u, t) \in Handler
    OBVIOUS
  <2> QED  BY <1>8, <2>1, <1>6 DEF LogoutAuth
<1>9. ASSUME NEW r \in Request, NEW a \in User, NEW u \in User,
             CreateAuth(r, a, u) \/ DeactivateAuth(r, a, u)
      PROVE  IInv'
  <2>1. CASE a \in Admins /\ CreateAuth(r, a, u)
    BY <2>1, <1>6, Enter("create", u, NoToken) \in Handler DEF CreateAuth, AdminAuth
  <2>2. CASE a \in Admins /\ DeactivateAuth(r, a, u)
    BY <2>2, <1>6, Enter("flag", u, NoToken) \in Handler DEF DeactivateAuth, AdminAuth
  <2>3. CASE a \notin Admins
    BY <1>9, <2>3, <1>6, Answer("denied") \in Handler DEF CreateAuth, DeactivateAuth, AdminAuth
  <2> QED  BY <1>9, <2>1, <2>2, <2>3
<1>10. ASSUME NEW r \in Request,
              RefreshRevoke(r) \/ LogoutRevoke(r) \/ RevokeAll(r)
       PROVE  IInv'
  BY <1>10, RevokeKeepsIInv
<1>11. ASSUME NEW r \in Request, ClearFlag(r) \/ CreateInsert(r)
       PROVE  IInv'
  BY <1>11, AccountKeepsIInv
<1>12. ASSUME NEW r \in Request, Fail(r) \/ Respond(r)
       PROVE  IInv'
  <2>1. Idle \in Handler /\ Answer("error") \in Handler
    OBVIOUS
  <2> QED  BY <1>12, <2>1, HandlerOnly DEF Fail, Respond, IInv, TypeOK
<1> QED
  BY <1>1, <1>2, <1>3, <1>4, <1>5, <1>7, <1>8, <1>9, <1>10, <1>11, <1>12,
     ClockKeepsIInv DEF Next

(* The inductive invariant holds in every reachable state. *)
LEMMA InductiveInvariant == Spec => []IInv
  BY InitIInv, StepIInv, PTL DEF Spec

-----------------------------------------------------------------------------
(* The handlers and the tables keep their types, and a handler holds what  *)
(* its next statement needs.                                               *)
THEOREM TypeCorrect == Spec => []TypeOK
<1>1. IInv => TypeOK
  BY DEF IInv
<1> QED  BY <1>1, InductiveInvariant, PTL

(* POST /auth/refresh: a token that has been exchanged is revoked, and its *)
(* successor belongs to the same account, for every interleaving.          *)
THEOREM RotationCorrect == Spec => []RotatedOut
<1>1. IInv => RotatedOut
  BY DEF IInv, TokenInv, RotatedOut
<1> QED  BY <1>1, InductiveInvariant, PTL

(* DELETE /admin/users/:id: whatever is live after its answer was inserted *)
(* by a handler that had passed the is_active test before the flag fell.   *)
THEOREM SweepCorrect == Spec => []OnlyLateSurvive
<1>1. IInv => OnlyLateSurvive
  BY DEF IInv, CutInv
<1> QED  BY <1>1, InductiveInvariant, PTL

(* Those survivors are never exchanged for another token. *)
THEOREM LateCorrect == Spec => []LateIsBarren
<1>1. IInv => LateIsBarren
  <2> SUFFICES ASSUME IInv PROVE LateIsBarren
    OBVIOUS
  <2>1. ASSUME NEW t \in Token PROVE parent[t] \notin late
    <3>1. CASE parent[t] = NoToken
      BY <3>1 DEF IInv, TypeOK
    <3>2. CASE parent[t] # NoToken
      BY <3>2 DEF IInv, TokenInv
    <3> QED  BY <3>1, <3>2
  <2> QED  BY <2>1 DEF IInv, HandlerInv, LateIsBarren
<1> QED  BY <1>1, InductiveInvariant, PTL

(* A dead account stays dead in every step. *)
LEMMA DeadStep ==
  ASSUME IInv, [Next]_vars, NEW u \in User, Dead(u)
  PROVE  Dead(u)'
<1>1. account'[u] = "inactive"
  BY DEF Next, vars, tables, history, Dead, IInv, TypeOK, LoginSelect,
     LoginVerify, LoginInsert, RefreshSelect, RefreshInsert, Me, LogoutAuth,
     CreateAuth, DeactivateAuth, AdminAuth, Authenticate, RefreshRevoke,
     LogoutRevoke, CreateInsert, ClearFlag, RevokeAll, Fail, Respond,
     ExpireToken, ExpireAccess
<1>2. ASSUME NEW q \in Request PROVE ~Approved(q, u)'
  <2> USE DEF Dead, Approved
  <2>0. ~Approved(q, u) /\ h \in [Request -> Handler]
    BY DEF IInv, TypeOK
  <2>1. ASSUME NEW r \in Request, NEW x \in Handler, h' = [h EXCEPT ![r] = x],
               x.user # u \/ x.pc \notin {"verify", "issue", "rotate", "reissue"}
        PROVE  ~Approved(q, u)'
    BY <2>0, <2>1
  <2>2. ASSUME NEW r \in Request, NEW a \in Answered, h' = [h EXCEPT ![r] = Answer(a)]
        PROVE  ~Approved(q, u)'
    <3>1. Answer(a) \in Handler /\ Answer(a).pc = a
      BY DEF Answer, Idle, Handler
    <3> QED  BY <2>1, <2>2, <3>1 DEF Answered
  <2>3. ASSUME NEW r \in Request, NEW pc \in Running, NEW v \in User,
               NEW t \in Token \cup {NoToken}, h' = [h EXCEPT ![r] = Enter(pc, v, t)],
               v # u \/ pc \notin {"verify", "issue", "rotate", "reissue"}
        PROVE  ~Approved(q, u)'
    <3>1. Enter(pc, v, t) \in Handler /\ Enter(pc, v, t).pc = pc /\ Enter(pc, v, t).user = v
      BY DEF Enter, Handler
    <3> QED  BY <2>1, <2>3, <3>1
  <2>4. ASSUME NEW r \in Request, NEW v \in User, LoginSelect(r, v)
        PROVE  ~Approved(q, u)'
    BY <2>2, <2>3, <2>4 DEF LoginSelect, MayLogin, Running, Answered
  <2>5. ASSUME NEW r \in Request, NEW t \in Token, RefreshSelect(r, t)
        PROVE  ~Approved(q, u)'
    <3>1. MayRefresh(t) => owner[t] \in User /\ owner[t] # u
      BY DEF MayRefresh, Live, Exists, IInv, TypeOK
    <3> QED  BY <2>2, <2>3, <2>5, <3>1 DEF RefreshSelect, Running, Answered
  <2>6. ASSUME NEW r \in Request, NEW v \in User, NEW w \in User,
               NEW pc \in {"forget", "create", "flag"}, NEW t \in Token \cup {NoToken},
               \/ Authenticate(r, v, Enter(pc, w, t))
               \/ Authenticate(r, v, Answer("denied"))
               \/ Authenticate(r, v, Answer("ok"))
        PROVE  ~Approved(q, u)'
    BY <2>2, <2>3, <2>6 DEF Authenticate, Running, Answered
  <2>7. ASSUME NEW r \in Request,
               \/ \E v \in User : Me(r, v)
               \/ \E v \in User, t \in Token : LogoutAuth(r, v, t)
               \/ \E a \in User, v \in User : CreateAuth(r, a, v) \/ DeactivateAuth(r, a, v)
        PROVE  ~Approved(q, u)'
    BY <2>6, <2>7 DEF Me, LogoutAuth, CreateAuth, DeactivateAuth, AdminAuth
  <2>8. ASSUME NEW r \in Request, h[r].user # u \/ h[r].pc \in {"flag", "sweep"},
               NEW pc \in {"issue", "reissue", "granted", "sweep"}, h'[r].pc = pc,
               pc = "sweep" \/ h[r].user # u,
               h'[r].user = h[r].user, \A p \in Request : p # r => h'[p] = h[p]
        PROVE  ~Approved(q, u)'
    BY <2>0, <2>8
  <2>9. ASSUME NEW r \in Request,
               \/ LoginVerify(r) \/ RefreshRevoke(r) \/ ClearFlag(r)
               \/ \E t \in Token : LoginInsert(r, t) \/ RefreshInsert(r, t)
        PROVE  ~Approved(q, u)'
    <3>1. CASE h' = [h EXCEPT ![r] = Answer("denied")]
      BY <2>2, <3>1 DEF Answered
    <3>2. CASE h' # [h EXCEPT ![r] = Answer("denied")]
      BY <2>0, <2>8, <2>9, <3>2 DEF LoginVerify, RefreshRevoke, ClearFlag,
         LoginInsert, RefreshInsert, Grant, Handler
    <3> QED  BY <3>1, <3>2
  <2>10. ASSUME NEW r \in Request,
                LogoutRevoke(r) \/ CreateInsert(r) \/ RevokeAll(r) \/ Fail(r)
         PROVE  ~Approved(q, u)'
    BY <2>2, <2>10 DEF LogoutRevoke, CreateInsert, RevokeAll, Fail, Answered
  <2>11. ASSUME NEW r \in Request, Respond(r)
         PROVE  ~Approved(q, u)'
    BY <2>0, <2>11 DEF Respond, Idle
  <2>12. CASE h' = h
    BY <2>0, <2>12
  <2> QED
    BY <2>4, <2>5, <2>7, <2>9, <2>10, <2>11, <2>12
       DEF Next, vars, ExpireToken, ExpireAccess
<1>3. ASSUME NEW t \in Token, owner'[t] = u PROVE ~Live(t)'
  BY <1>3 DEF Next, vars, tables, history, Dead, Approved, Live, Exists,
     IInv, TypeOK, LoginSelect, LoginVerify, LoginInsert, InsertToken,
     RefreshSelect, RefreshInsert, Me, LogoutAuth, CreateAuth, DeactivateAuth,
     AdminAuth, Authenticate, RefreshRevoke, LogoutRevoke, CreateInsert,
     ClearFlag, RevokeAll, Fail, Respond, ExpireToken, ExpireAccess
<1> QED  BY <1>1, <1>2, <1>3 DEF Dead

(* Once an account is deactivated, none of its tokens is live and no       *)
(* handler that read it as active is left, that stays so for ever.         *)
THEOREM DeadForever == Spec => DeadStaysDead
<1>1. IInv /\ [Next]_vars => [\A u \in User : Dead(u) => Dead(u)']_vars
  BY DeadStep
<1> QED  BY <1>1, InductiveInvariant, PTL DEF Spec, DeadStaysDead

-----------------------------------------------------------------------------
(* Sessions implements SessionLife.  Most steps of the server are a Retire *)
(* of SessionLife, the empty one included: RetireStep says when.  Four     *)
(* statements are not: the two inserts of tokens, the insert of an account *)
(* and the update that clears its flag.                                    *)

USE SessionsAssumption

(* Only rows that exist are revoked or expire, so that a new token works. *)
BornInv ==
    /\ \A t \in revoked \cup expired : Exists(t)
    /\ \A r \in Request : h[r].pc = "forget" => Exists(h[r].token)

LEMMA InitBorn == Init => BornInv
  BY DEF Init, BornInv, Idle

(* A handler moves on, and the tables grow. *)
LEMMA BornMove ==
  ASSUME IInv, BornInv, NEW r \in Request, NEW x,
         h' = [h EXCEPT ![r] = x],
         x.pc # "forget" \/ Exists(x.token),
         \A t \in Token : Exists(t) => Exists(t)',
         x.pc = "forget" => x.token \in Token,
         expired' = expired,
         \A t \in revoked' : t \in revoked \/ (t \in Token /\ Exists(t))
  PROVE  BornInv'
<1>1. \A t \in (revoked \cup expired)' : Exists(t)'
  BY DEF BornInv, IInv, TypeOK
<1>2. ASSUME NEW q \in Request, h'[q].pc = "forget"
      PROVE  Exists(h[q].token)'
  <2>1. h \in [Request -> Handler]
    BY DEF IInv, TypeOK
  <2>2. CASE q = r
    <3>1. h'[q] = x
      BY <2>1, <2>2
    <3> QED  BY <1>2, <3>1 DEF Exists
  <2>3. CASE q # r
    <3>1. h'[q] = h[q] /\ h[q].token \in Token /\ Exists(h[q].token)
      BY <1>2, <2>1, <2>3 DEF BornInv, IInv, TypeOK
    <3> QED  BY <3>1 DEF Exists
  <2> QED  BY <2>2, <2>3
<1> QED  BY <1>1, <1>2 DEF BornInv

(* Requests that answer, or go on to a statement other than "forget". *)
LEMMA BornNext ==
  ASSUME IInv, BornInv, NEW r \in Request, NEW x,
         h' = [h EXCEPT ![r] = x], x.pc # "forget",
         UNCHANGED <<owner, revoked, expired>>
  PROVE  BornInv'
  BY BornMove DEF Exists

LEMMA StepBorn == IInv /\ BornInv /\ [Next]_vars => BornInv'
<1> SUFFICES ASSUME IInv, BornInv, [Next]_vars
             PROVE  BornInv'
  OBVIOUS
<1> USE DEF tables, history, Answer, Idle, Enter
<1>1. ASSUME NEW r \in Request, NEW u \in User, LoginSelect(r, u) \/ Me(r, u)
      PROVE  BornInv'
  BY <1>1, BornNext DEF LoginSelect, Me, Authenticate
<1>2. ASSUME NEW r \in Request, NEW t \in Token, RefreshSelect(r, t)
      PROVE  BornInv'
  <2> DEFINE x == IF MayRefresh(t) THEN Enter("rotate", owner[t], t) ELSE Answer("denied")
  <2>1. h' = [h EXCEPT ![r] = x] /\ UNCHANGED <<owner, revoked, expired>>
    BY <1>2 DEF RefreshSelect
  <2>2. x.pc # "forget"
    OBVIOUS
  <2> HIDE DEF x
  <2> QED  BY <2>1, <2>2, BornNext
<1>3. ASSUME NEW r \in Request, NEW u \in User, NEW t \in Token, LogoutAuth(r, u, t)
      PROVE  BornInv'
  <2>1. PICK x : h' = [h EXCEPT ![r] = x] /\ x \in {Enter("forget", u, t), Answer("denied")}
    BY <1>3 DEF LogoutAuth, Authenticate
  <2>2. Exists(t) /\ UNCHANGED <<owner, revoked, expired>>
    BY <1>3 DEF LogoutAuth, Authenticate
  <2> QED  BY <2>1, <2>2, BornMove DEF Exists
<1>4. ASSUME NEW r \in Request, NEW a \in User, NEW u \in User,
             CreateAuth(r, a, u) \/ DeactivateAuth(r, a, u)
      PROVE  BornInv'
  BY <1>4, BornNext DEF CreateAuth, DeactivateAuth, AdminAuth, Authenticate
<1>5. ASSUME NEW r \in Request, NEW t \in Token, LoginInsert(r, t) \/ RefreshInsert(r, t)
      PROVE  BornInv'
  <2> DEFINE x == [h[r] EXCEPT !.pc = "granted", !.out = t]
  <2>1. h' = [h EXCEPT ![r] = x] /\ x.pc = "granted"
    <3>1. h[r] \in Handler
      BY DEF IInv, TypeOK
    <3>2. x.pc = "granted"
      BY <3>1 DEF Handler
    <3>3. h' = [h EXCEPT ![r].pc = "granted", ![r].out = t]
      BY <1>5 DEF LoginInsert, RefreshInsert, Grant
    <3> QED  BY <3>2, <3>3
  <2>2. h[r].user \in User /\ UNCHANGED <<revoked, expired>>
    BY <1>5 DEF LoginInsert, RefreshInsert, IInv, TypeOK, Running
  <2>3. \A s \in Token : Exists(s) => Exists(s)'
    BY <1>5, <2>2 DEF LoginInsert, RefreshInsert, InsertToken, Exists, IInv, TypeOK
  <2> QED  BY <2>1, <2>2, <2>3, BornMove
<1>6. ASSUME NEW r \in Request, LoginVerify(r) \/ ClearFlag(r) \/ RefreshRevoke(r)
      PROVE  BornInv'
  <2>1. PICK x : h' = [h EXCEPT ![r] = x] /\ x.pc \in {"issue", "denied", "sweep", "reissue"}
    BY <1>6 DEF LoginVerify, ClearFlag, RefreshRevoke, IInv, TypeOK, Handler
  <2>2. UNCHANGED <<owner, expired>>
    BY <1>6 DEF LoginVerify, ClearFlag, RefreshRevoke
  <2>3. revoked' = revoked \/ (revoked' = revoked \cup {h[r].token} /\ h[r].pc = "rotate")
    BY <1>6 DEF LoginVerify, ClearFlag, RefreshRevoke
  <2>4. h[r].pc = "rotate" => h[r].token \in Token /\ Exists(h[r].token)
    BY DEF IInv, TypeOK, HandlerInv
  <2> QED  BY <2>1, <2>2, <2>3, <2>4, BornMove DEF Exists
<1>7. ASSUME NEW r \in Request, LogoutRevoke(r) \/ RevokeAll(r)
      PROVE  BornInv'
  <2> DEFINE x == Answer("ok")
  <2>1. h' = [h EXCEPT ![r] = x] /\ x.pc = "ok"
    BY <1>7 DEF LogoutRevoke, RevokeAll
  <2> HIDE DEF x
  <2>2. UNCHANGED <<owner, expired>>
    BY <1>7 DEF LogoutRevoke, RevokeAll
  <2>3. \A t \in revoked' : t \in revoked \/ (t \in Token /\ Exists(t))
    <3>1. CASE LogoutRevoke(r)
      <4>1. h[r].token \in Token /\ Exists(h[r].token)
        BY <3>1 DEF LogoutRevoke, IInv, TypeOK, BornInv
      <4> QED  BY <3>1, <4>1 DEF LogoutRevoke
    <3>2. CASE RevokeAll(r)
      <4>1. h[r].user \in User
        BY <3>2 DEF RevokeAll, IInv, TypeOK, Running
      <4>2. \A t \in OwnedBy(h[r].user) : t \in Token /\ Exists(t)
        BY <4>1 DEF OwnedBy, Exists
      <4> QED  BY <3>2, <4>2 DEF RevokeAll
    <3> QED  BY <1>7, <3>1, <3>2
  <2> QED  BY <2>1, <2>2, <2>3, BornMove DEF Exists
<1>8. ASSUME NEW r \in Request, CreateInsert(r) \/ Fail(r) \/ Respond(r)
      PROVE  BornInv'
  BY <1>8, BornNext DEF CreateInsert, Fail, Respond
<1>9. CASE \/ \E t \in Token : ExpireToken(t)
           \/ \E u \in User : ExpireAccess(u)
           \/ UNCHANGED vars
  BY <1>9 DEF ExpireToken, ExpireAccess, vars, BornInv, Exists
<1> QED
  BY <1>1, <1>2, <1>3, <1>4, <1>5, <1>6, <1>7, <1>8, <1>9 DEF Next

-----------------------------------------------------------------------------

RInv == IInv /\ BornInv

(* A step that issues no token and changes no account is a Retire. *)
LEMMA RetireStep ==
  ASSUME RInv, IInv', \A u \in User : Dead(u) => Dead(u)',
         UNCHANGED <<account, owner, parent, late>>,
         revoked \subseteq revoked', expired \subseteq expired'
  PROVE  Life!Retire
<1>1. ASSUME NEW t \in Token
      PROVE  /\ state'[t] \in {"unborn", "live", "spent", "late", "void"}
             /\ \/ state'[t] = state[t]
                \/ state[t] = "live" /\ state'[t] = "spent"
                \/ state[t] = "late" /\ state'[t] = "void"
  BY DEF state
<1>2. ASSUME NEW u \in User
      PROVE  /\ standing'[u] \in {"absent", "open", "closing", "closed"}
             /\ \/ standing'[u] = standing[u]
                \/ /\ standing[u] = "closing" /\ standing'[u] = "closed"
                   /\ Life!Usable(u)' = {}
  <2>1. CASE account[u] # "inactive"
    BY <2>1 DEF standing, RInv, IInv, TypeOK
  <2>2. CASE account[u] = "inactive" /\ (Dead(u) \/ ~Dead(u)')
    BY <2>2 DEF standing
  <2>3. CASE account[u] = "inactive" /\ ~Dead(u) /\ Dead(u)'
    <3>1. standing[u] = "closing" /\ standing'[u] = "closed"
      BY <2>3 DEF standing
    <3>2. \A t \in Token : owner'[t] = u => state'[t] \in {"spent", "void"}
      BY <2>3 DEF Dead, Live, Exists, state
    <3> QED  BY <3>1, <3>2 DEF Life!Usable
  <2> QED  BY <2>1, <2>2, <2>3
<1>3. state' \in [Token -> {"unborn", "live", "spent", "late", "void"}]
  BY <1>1 DEF state
<1>4. standing' \in [User -> {"absent", "open", "closing", "closed"}]
  BY <1>2 DEF standing
<1> QED  BY <1>1, <1>2, <1>3, <1>4 DEF Life!Retire

(* The same of one request that only moves on. *)
LEMMA StandingSame ==
  ASSUME NEW u \in User, account'[u] = account[u],
         account[u] \in {"absent", "active", "inactive"},
         account[u] = "inactive" => (Dead(u)' <=> Dead(u))
  PROVE  standing'[u] = standing[u]
  BY DEF standing

(* A token is inserted for an account that its handler found open. *)
LEMMA IssueStep ==
  ASSUME RInv, IInv', NEW r \in Request, NEW t \in Token,
         LoginInsert(r, t) \/ RefreshInsert(r, t)
  PROVE  \E u \in User, from \in Token \cup {NoToken} : Life!Issue(t, u, from)
<1> DEFINE u == h[r].user
           from == IF h[r].pc = "reissue" THEN h[r].token ELSE NoToken
<1> USE DEF RInv
<1>1. /\ u \in User /\ account[u] \in {"active", "inactive"}
      /\ from \in Token \cup {NoToken}
  BY DEF LoginInsert, RefreshInsert, IInv, TypeOK, HandlerInv, Running
<1>2. /\ InsertToken(t, u, from)
      /\ UNCHANGED <<account, revoked, expired>>
      /\ h' = [h EXCEPT ![r].pc = "granted", ![r].out = t]
      /\ h[r].pc \in {"issue", "reissue"}
  BY DEF LoginInsert, RefreshInsert, Grant
<1>3. from # NoToken => state[from] = "spent" /\ owner[from] = u
  <2> HAVE from # NoToken
  <2>1. h[r].pc = "reissue" /\ from = h[r].token /\ from \in Token
    BY <1>1, <1>2
  <2> QED  BY <2>1 DEF IInv, HandlerInv, Exists, state
<1>4. state[t] = "unborn" /\ t \notin revoked /\ t \notin expired /\ t \notin late
  BY <1>2 DEF InsertToken, Exists, state, BornInv, IInv, TokenInv
<1>5. state' = [state EXCEPT ![t] = IF account[u] = "active" THEN "live" ELSE "late"]
  <2>1. owner' = [owner EXCEPT ![t] = u] /\ u # NoUser /\ owner \in [Token -> User \cup {NoUser}]
    BY <1>1, <1>2 DEF InsertToken, IInv, TypeOK
  <2>2. late' = IF account[u] = "active" THEN late ELSE late \cup {t}
    BY <1>2 DEF InsertToken
  <2> QED  BY <1>2, <1>4, <2>1, <2>2 DEF state
<1>6. ASSUME NEW v \in User, account[v] = "inactive"
      PROVE  Dead(v)' <=> Dead(v)
  <2>0. h \in [Request -> Handler] /\ owner \in [Token -> User \cup {NoUser}]
    BY DEF IInv, TypeOK
  <2>1. CASE v = u
    <3>1. ~Dead(v)
      BY <1>2, <2>1 DEF Dead, Approved
    <3>2. owner'[t] = v /\ Live(t)'
      BY <1>1, <1>2, <1>4, <2>0, <2>1 DEF InsertToken, Live, Exists
    <3> QED  BY <3>1, <3>2 DEF Dead
  <2>2. CASE v # u
    <3>1. \A s \in Token : (owner'[s] = v <=> owner[s] = v) /\ (owner[s] = v => (Live(s)' <=> Live(s)))
      BY <1>2, <1>4, <2>0, <2>2 DEF InsertToken, Live, Exists
    <3>2. \A q \in Request : Approved(q, v)' <=> Approved(q, v)
      BY <1>2, <2>0, <2>2 DEF Approved, Handler
    <3> QED  BY <1>2, <3>1, <3>2 DEF Dead
  <2> QED  BY <2>1, <2>2
<1>7. standing' = standing
  <2>1. \A v \in User : standing'[v] = standing[v]
    BY <1>2, <1>6, StandingSame DEF IInv, TypeOK
  <2> QED  BY <2>1 DEF standing
<1>8. standing[u] = IF account[u] = "active" THEN "open" ELSE "closing"
  <2>1. ~Dead(u)
    BY <1>2 DEF Dead, Approved
  <2> QED  BY <1>1, <2>1 DEF standing
<1>9. Life!Issue(t, u, from)
  BY <1>2, <1>3, <1>4, <1>5, <1>7, <1>8, <1>1 DEF Life!Issue, InsertToken
<1> HIDE DEF u, from
<1> QED  BY <1>1, <1>9

(* A handler that approves nobody, before and after, changes no other account. *)
LEMMA DeadSame ==
  ASSUME IInv, NEW r \in Request, NEW x \in Handler, h' = [h EXCEPT ![r] = x],
         h[r].pc \in {"create", "flag"}, x.pc \in {"ok", "sweep"},
         UNCHANGED <<owner, revoked, expired>>,
         NEW v \in User, account'[v] = account[v]
  PROVE  Dead(v)' <=> Dead(v)
<1>1. ASSUME NEW q \in Request
      PROVE  Approved(q, v)' <=> Approved(q, v)
  <2>1. h'[q] = IF q = r THEN x ELSE h[q]
    BY DEF IInv, TypeOK
  <2> QED  BY <2>1 DEF Approved
<1> QED  BY <1>1 DEF Dead, Live, Exists

LEMMA AccountStep ==
  ASSUME RInv, IInv', \A u \in User : Dead(u) => Dead(u)',
         NEW r \in Request, CreateInsert(r) \/ ClearFlag(r)
  PROVE  \/ Life!Retire
         \/ \E u \in User : Life!Register(u) \/ Life!Deactivate(u)
<1> USE DEF RInv
<1>u. PICK u \in User : u = h[r].user
  BY DEF CreateInsert, ClearFlag, IInv, TypeOK, Running
<1>0. /\ account \in [User -> {"absent", "active", "inactive"}]
      /\ h[r] \in Handler
  BY DEF IInv, TypeOK
<1>1. UNCHANGED <<owner, revoked, expired, parent, late>>
  BY DEF CreateInsert, ClearFlag, history
<1>2. state' = state
  BY <1>1 DEF state
<1>3. PICK x \in Handler : h' = [h EXCEPT ![r] = x] /\ x.pc \in {"ok", "error", "sweep"}
  <2>1. CASE ClearFlag(r)
    <3> DEFINE x == [h[r] EXCEPT !.pc = "sweep"]
    <3>1. x \in Handler /\ x.pc = "sweep" /\ h' = [h EXCEPT ![r] = x]
      BY <1>0, <2>1 DEF ClearFlag, Handler, Running
    <3> HIDE DEF x
    <3> QED  BY <3>1
  <2>2. CASE CreateInsert(r)
    <3>1. Answer("ok") \in Handler /\ Answer("error") \in Handler
      BY DEF Answer, Idle, Handler, Answered
    <3>2. Answer("ok").pc = "ok" /\ Answer("error").pc = "error"
      BY DEF Answer, Idle
    <3> QED  BY <2>2, <3>1, <3>2 DEF CreateInsert
  <2> QED  BY <2>1, <2>2
<1>4. CASE account' = account
  BY <1>1, <1>4, RetireStep
<1>5. CASE account' # account
  <2>1. /\ h[r].pc \in {"create", "flag"}
        /\ \/ account[u] = "absent" /\ account' = [account EXCEPT ![u] = "active"]
           \/ account[u] = "active" /\ account' = [account EXCEPT ![u] = "inactive"]
    BY <1>u, <1>0, <1>5 DEF CreateInsert, ClearFlag, IInv, HandlerInv
  <2>2. x.pc \in {"ok", "sweep"}
    <3>1. h'[r] = x
      BY <1>3 DEF IInv, TypeOK
    <3>2. h'[r].pc \in {"ok", "sweep"}
      BY <1>0, <1>5 DEF CreateInsert, ClearFlag, IInv, TypeOK, Handler, Answer, Idle
    <3> QED  BY <3>1, <3>2
  <2>3. \A v \in User : v # u => standing'[v] = standing[v]
    BY <1>0, <1>1, <1>3, <2>1, <2>2, DeadSame, StandingSame
  <2>4. CASE account[u] = "absent"
    <3>1. standing[u] = "absent" /\ standing'[u] = "open"
      BY <1>0, <2>1, <2>4 DEF standing
    <3>2. standing' = [standing EXCEPT ![u] = "open"]
      BY <1>0, <2>3, <3>1 DEF standing
    <3> QED  BY <1>0, <1>1, <1>2, <3>1, <3>2 DEF Life!Register
  <2>5. CASE account[u] = "active"
    <3>1. standing[u] = "open"
      BY <1>0, <2>5 DEF standing
    <3>2. account'[u] = "inactive"
      BY <1>0, <2>1, <2>5
    <3>3. CASE Dead(u)'
      <4>1. standing'[u] = "closed"
        BY <1>0, <3>2, <3>3 DEF standing
      <4>2. standing' = [standing EXCEPT ![u] = "closed"]
        BY <1>0, <2>3, <4>1 DEF standing
      <4>3. Life!Usable(u) = {}
        BY <1>1, <3>3 DEF Dead, Live, Exists, Life!Usable, state
      <4> QED  BY <1>0, <1>1, <1>2, <3>1, <4>2, <4>3 DEF Life!Deactivate
    <3>4. CASE ~Dead(u)'
      <4>1. standing'[u] = "closing"
        BY <1>0, <3>2, <3>4 DEF standing
      <4>2. standing' = [standing EXCEPT ![u] = "closing"]
        BY <1>0, <2>3, <4>1 DEF standing
      <4> QED  BY <1>0, <1>1, <1>2, <3>1, <4>2 DEF Life!Deactivate
    <3> QED  BY <3>3, <3>4
  <2> QED  BY <2>1, <2>4, <2>5
<1> QED  BY <1>4, <1>5

LEMMA LifeStep == RInv /\ IInv' /\ [Next]_vars => [Life!Next]_(Life!vars)
<1> SUFFICES ASSUME RInv, IInv', [Next]_vars
             PROVE  Life!Next
  OBVIOUS
<1> USE DEF tables, history
<1>0. \A u \in User : Dead(u) => Dead(u)'
  BY DeadStep DEF RInv
<1>1. CASE \E r \in Request, t \in Token : LoginInsert(r, t) \/ RefreshInsert(r, t)
  BY <1>1, IssueStep DEF Life!Next
<1>2. CASE \E r \in Request : CreateInsert(r) \/ ClearFlag(r)
  BY <1>0, <1>2, AccountStep DEF Life!Next
<1>3. CASE \/ UNCHANGED vars
           \/ \E u \in User : ExpireAccess(u)
           \/ \E t \in Token : ExpireToken(t)
  BY <1>0, <1>3, RetireStep DEF vars, ExpireAccess, ExpireToken, Life!Next
<1>4. ASSUME NEW r \in Request,
             \/ \E u \in User : LoginSelect(r, u) \/ Me(r, u)
             \/ \E t \in Token : RefreshSelect(r, t)
             \/ \E u \in User, t \in Token : LogoutAuth(r, u, t)
             \/ \E a \in User, u \in User : CreateAuth(r, a, u) \/ DeactivateAuth(r, a, u)
             \/ LoginVerify(r) \/ RefreshRevoke(r) \/ LogoutRevoke(r)
             \/ RevokeAll(r) \/ Fail(r) \/ Respond(r)
      PROVE  Life!Next
  <2>1. /\ UNCHANGED <<account, owner, parent, late>>
        /\ revoked \subseteq revoked' /\ expired \subseteq expired'
    BY <1>4 DEF LoginSelect, Me, RefreshSelect, LogoutAuth, CreateAuth,
       DeactivateAuth, AdminAuth, Authenticate, LoginVerify, RefreshRevoke,
       LogoutRevoke, RevokeAll, Fail, Respond
  <2> QED  BY <1>0, <2>1, RetireStep DEF Life!Next
<1> QED  BY <1>1, <1>2, <1>3, <1>4 DEF Next

(* The server with its requests and statements, which interleave and fail,   *)
(* implements the accounts of SessionLife: a deactivated account can only    *)
(* run out of tokens, and once it has none it never has one again.           *)
THEOREM LifeImplemented == Spec => KeepsLife
<1>1. Init => Life!Init
  <2>1. ASSUME Init PROVE state = [t \in Token |-> "unborn"]
    BY <2>1 DEF Init, state
  <2>2. ASSUME Init PROVE standing \in [User -> {"absent", "open"}]
    BY <2>2 DEF Init, standing
  <2> QED  BY <2>1, <2>2 DEF Init, Life!Init
<1>2. Init => RInv
  BY InitIInv, InitBorn DEF RInv
<1>3. RInv /\ [Next]_vars => RInv'
  BY StepIInv, StepBorn DEF RInv
<1>4. RInv' => IInv'
  BY DEF RInv
<1> QED  BY <1>1, <1>2, <1>3, <1>4, LifeStep, PTL DEF Spec, KeepsLife, Life!Spec
=============================================================================
