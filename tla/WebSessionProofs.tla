--------------------------- MODULE WebSessionProofs ---------------------------
(***************************************************************************)
(* Why nobody is signed out who did not click for it, for any number of    *)
(* pages, requests and pairs of tokens: a pair on its way to a page is     *)
(* known to nobody else, and the pair that an undisturbed exchange gives   *)
(* up is held by its own page alone.                                       *)
(***************************************************************************)
EXTENDS WebSession, TLAPS

USE WebSessionAssumption

PC == {"free", "ask", "ok", "denied", "bad", "refused", "login", "entered"} \cup Exchanging

PageRecord == [shows: {"closed", "form", "app", "leaving"}, pair: Nat]
TaskRecord == [pc: PC, of: {"call", "me"}, page: Page, pair: Nat]

(* A request that was sent with tokens. *)
Sent == PC \ {"free", "login", "entered"}

(* A pair that the server has issued and no page has taken yet. *)
OnItsWay == {"renewed", "entered"}

Typed ==
    /\ page \in [Page -> PageRecord] /\ \A p \in Page : page[p].pair <= issued
    /\ task \in [Task -> TaskRecord] /\ \A t \in Task : task[t].pair <= issued
    /\ store \in 0..issued /\ issued \in Pair
    /\ live \subseteq 1..issued /\ stale \subseteq 1..issued
    /\ moves \in 0..MaxMoves
    /\ smooth \in BOOLEAN /\ thrown \in BOOLEAN

(* What a page holds, and what the requests of a page rely on. *)
PageInv(p) ==
    /\ page[p].shows = "app" => page[p].pair # 0
    /\ page[p].shows = "closed" => page[p].pair = 0

TaskInv(t) ==
    /\ task[t].pc # "free" => page[task[t].page].shows # "closed"
    /\ task[t].pc \in Sent => page[task[t].page].pair # 0
    /\ task[t].pc \in {"ask"} \cup Exchanging \cup OnItsWay => task[t].pair # 0
    /\ task[t].of = "me" => task[t].pc \in Sent

Fresh(t) ==
    task[t].pc \in OnItsWay =>
        /\ store # task[t].pair
        /\ \A p \in Page : page[p].pair # task[t].pair
        /\ \A u \in Task \ {t} :
              task[u].pc \in {"exchange", "checked"} \cup OnItsWay => task[u].pair # task[t].pair

(* As long as nothing has come between an exchange and its page. *)
NobodyRefused == ~thrown /\ \A t \in Task : task[t].pc \notin {"refused", "bad"}

OneExchange ==
    \A t, u \in Task : (task[t].pc \in Exchanging /\ task[u].pc \in Exchanging) => t = u

TokensLive ==
    (\A t \in Task : task[t].pc # "renewed") =>
        /\ store \in live \cup {0}
        /\ \A p \in Page : page[p].pair \in live \cup {0}

TaskLive(t) ==
    /\ task[t].pc \in Exchanging \cup OnItsWay => task[t].pair \in live
    /\ task[t].pc \in {"exchange", "checked"} =>
           \A p \in Page \ {task[t].page} : page[p].pair # task[t].pair
    /\ task[t].pc = "renewed" =>
           \A p \in Page \ {task[t].page} : page[p].pair \in live \cup {0}

SmoothInv ==
    smooth => NobodyRefused /\ OneExchange /\ TokensLive /\ \A t \in Task : TaskLive(t)

IInv ==
    /\ Typed
    /\ \A p \in Page : PageInv(p)
    /\ \A t \in Task : TaskInv(t) /\ Fresh(t)
    /\ SmoothInv

-----------------------------------------------------------------------------

LEMMA IInvImplies == IInv => TypeOK /\ KeepsSession
<1> SUFFICES ASSUME IInv PROVE TypeOK /\ KeepsSession
  OBVIOUS
<1>1. TypeOK
  <2>1. page \in [Page -> [shows: {"closed", "form", "app", "leaving"}, pair: 0..issued]]
    BY DEF IInv, Typed, PageRecord
  <2>2. task \in [Task -> [pc: PC, of: {"call", "me"}, page: Page, pair: 0..issued]]
    BY DEF IInv, Typed, TaskRecord
  <2> QED  BY <2>1, <2>2 DEF IInv, Typed, TaskInv, TypeOK, PC
<1>2. KeepsSession
  BY DEF IInv, SmoothInv, NobodyRefused, TokensLive, PageInv, KeepsSession,
         ExchangeUnderWay, Exchanging
<1> QED  BY <1>1, <1>2

LEMMA FreeFacts ==
  ASSUME NEW p \in Page
  PROVE  /\ Free \in TaskRecord /\ Free.pc = "free" /\ Free.of = "call" /\ Free.pair = 0
BY DEF Free, TaskRecord, PC

LEMMA InitIInv == Init => IInv
<1> SUFFICES ASSUME Init PROVE IInv
  OBVIOUS
<1>1. PICK p \in Page :
        page = [q \in Page |-> IF q = p THEN [shows |-> "app", pair |-> 1]
                               ELSE [shows |-> "closed", pair |-> 0]]
  BY DEF Init
<1>2. \A t \in Task : task[t] = Free /\ task[t].pc = "free"
  BY <1>1, FreeFacts DEF Init
<1>3. Typed
  <2>1. page \in [Page -> PageRecord] /\ \A q \in Page : page[q].pair <= 1
    BY <1>1 DEF PageRecord
  <2>2. task \in [Task -> TaskRecord] /\ \A t \in Task : task[t].pair <= 1
    BY <1>1, FreeFacts DEF Init
  <2>3. /\ store \in 0..issued /\ issued \in Pair /\ moves \in 0..MaxMoves
        /\ live \subseteq 1..issued /\ stale \subseteq 1..issued
    BY DEF Init, Pair
  <2> QED  BY <2>1, <2>2, <2>3 DEF Init, Typed
<1>4. \A q \in Page : PageInv(q)
  BY <1>1 DEF PageInv
<1>5. \A t \in Task : TaskInv(t) /\ Fresh(t) /\ TaskLive(t)
  BY <1>1, <1>2, FreeFacts DEF TaskInv, Fresh, TaskLive, Sent, Exchanging, OnItsWay
<1>6. NobodyRefused /\ OneExchange
  BY <1>2 DEF Init, NobodyRefused, OneExchange, Exchanging
<1>7. TokensLive
  BY <1>1 DEF Init, TokensLive
<1> QED  BY <1>3, <1>4, <1>5, <1>6, <1>7 DEF IInv, SmoothInv

-----------------------------------------------------------------------------
(* One request moves, and the pages, the storage and the tokens stay. *)

LEMMA TaskMove ==
  ASSUME IInv, NEW t \in Task, NEW x \in TaskRecord, x.pair <= issued,
         task' = [task EXCEPT ![t] = x],
         page' = page, store' = store, issued' = issued, live' = live, stale' = stale,
         thrown' = thrown, moves' \in 0..MaxMoves, smooth' \in BOOLEAN,
         x.pc # "free" => page[x.page].shows # "closed",
         x.pc \in Sent => page[x.page].pair # 0,
         x.pc \in {"ask", "exchange", "checked"} => x.pair # 0,
         x.pc \notin OnItsWay,
         x.of = "me" => x.pc \in Sent,
         x.pc \in {"exchange", "checked"} =>
             \A u \in Task : task[u].pc \in OnItsWay => task[u].pair # x.pair,
         smooth' => smooth /\ x.pc \notin {"refused", "bad"} /\ task[t].pc # "renewed",
         (smooth' /\ x.pc \in {"exchange", "checked"}) =>
             /\ x.pair \in live
             /\ \A p \in Page \ {x.page} : page[p].pair # x.pair
             /\ \A u \in Task \ {t} : task[u].pc \notin Exchanging
  PROVE  IInv'
<1>1. /\ task \in [Task -> TaskRecord] /\ task' \in [Task -> TaskRecord] /\ task'[t] = x
      /\ \A u \in Task \ {t} : task'[u] = task[u]
  BY DEF IInv, Typed
<1>2. Typed'
  BY <1>1 DEF IInv, Typed, Pair
<1>3. \A p \in Page : PageInv(p)'
  BY DEF IInv, PageInv
<1>4. ASSUME NEW u \in Task PROVE TaskInv(u)'
  <2>1. CASE u = t
    BY <1>1, <2>1 DEF TaskInv, Exchanging, OnItsWay
  <2>2. CASE u # t
    BY <1>1, <2>2 DEF IInv, TaskInv
  <2> QED  BY <2>1, <2>2
<1>5. ASSUME NEW u \in Task PROVE Fresh(u)'
  <2>1. CASE u = t
    BY <1>1, <2>1 DEF Fresh
  <2>2. CASE u # t
    <3>1. task'[u] = task[u] /\ Fresh(u)
      BY <1>1, <2>2 DEF IInv
    <3>2. ASSUME task[u].pc \in OnItsWay, NEW v \in Task \ {u},
                 task'[v].pc \in {"exchange", "checked"} \cup OnItsWay
          PROVE  task'[v].pair # task[u].pair
      BY <1>1, <3>1, <3>2 DEF Fresh
    <3> QED  BY <3>1, <3>2 DEF Fresh
  <2> QED  BY <2>1, <2>2
<1>6. ASSUME smooth' PROVE (NobodyRefused /\ OneExchange /\ TokensLive)'
  <2>1. smooth /\ NobodyRefused /\ OneExchange /\ TokensLive
    BY <1>6 DEF IInv, SmoothInv
  <2>2. NobodyRefused'
    BY <1>1, <1>6, <2>1 DEF NobodyRefused
  <2>3. OneExchange'
    BY <1>1, <1>6, <2>1 DEF OneExchange, Exchanging, OnItsWay
  <2>4. TokensLive'
    BY <1>1, <1>6, <2>1 DEF TokensLive
  <2> QED  BY <2>2, <2>3, <2>4
<1>7. ASSUME smooth', NEW u \in Task PROVE TaskLive(u)'
  <2>1. CASE u = t
    BY <1>1, <1>7, <2>1 DEF TaskLive, Exchanging, OnItsWay
  <2>2. CASE u # t
    BY <1>1, <1>7, <2>2 DEF IInv, SmoothInv, TaskLive
  <2> QED  BY <2>1, <2>2
<1> QED  BY <1>2, <1>3, <1>4, <1>5, <1>6, <1>7 DEF IInv, SmoothInv

LEMMA AskKeepsIInv ==
  ASSUME IInv, NEW t \in Task, NEW p \in Page, Call(t, p) \/ Login(t, p)
  PROVE  IInv'
<1>1. moves' \in 0..MaxMoves
  BY DEF Call, Login, Move, IInv, Typed
<1>2. page[p] \in PageRecord /\ page[p].pair <= issued /\ PageInv(p)
  BY DEF IInv, Typed
<1>3. CASE Call(t, p)
  <2>1. PICK x : x = [pc |-> "ask", of |-> "call", page |-> p, pair |-> page[p].pair]
    OBVIOUS
  <2>2. x \in TaskRecord /\ x.pc = "ask" /\ x.page = p /\ x.pair = page[p].pair /\ x.of = "call"
    BY <1>2, <2>1 DEF TaskRecord, PC, PageRecord
  <2>3. page[p].pair # 0 /\ page[p].shows = "app" /\ task[t].pc = "free"
    BY <1>2, <1>3 DEF Call, PageInv
  <2> QED  BY <1>1, <1>2, <1>3, <2>1, <2>2, <2>3, TaskMove
           DEF Call, server, history, OnItsWay, IInv, Typed
<1>4. CASE Login(t, p)
  <2>1. PICK x : x = [Free EXCEPT !.pc = "login", !.page = p]
    OBVIOUS
  <2>2. x \in TaskRecord /\ x.pc = "login" /\ x.page = p /\ x.pair = 0 /\ x.of = "call"
    BY <2>1, FreeFacts DEF TaskRecord, PC
  <2>3. page[p].shows = "form" /\ task[t].pc = "free"
    BY <1>4 DEF Login
  <2>4. x.pair <= issued /\ x.pc \notin Sent /\ x.pc \notin OnItsWay
    BY <2>2 DEF Sent, OnItsWay, IInv, Typed, Pair
  <2>5. /\ task' = [task EXCEPT ![t] = x] /\ smooth' \in BOOLEAN
        /\ UNCHANGED <<page, store, server, history>>
    BY <1>4, <2>1 DEF Login, history, IInv, Typed
  <2> QED  BY <1>1, <2>2, <2>3, <2>4, <2>5, TaskMove DEF server, history
<1> QED  BY <1>3, <1>4

(* What a request that goes on with its pair holds. *)
LEMMA GoFacts ==
  ASSUME IInv, NEW t \in Task, NEW pc \in PC
  PROVE  LET x == [task[t] EXCEPT !.pc = pc]
         IN  /\ x \in TaskRecord /\ x.pc = pc /\ x.pair = task[t].pair
             /\ x.page = task[t].page /\ x.of = task[t].of /\ x.pair <= issued
             /\ TaskInv(t) /\ Fresh(t)
BY DEF IInv, Typed, TaskRecord

LEMMA ServeKeepsIInv ==
  ASSUME IInv, NEW t \in Task, ServeAsk(t) \/ ServeCheck(t)
  PROVE  IInv'
<1>0. /\ UNCHANGED <<page, store, server, moves, history>> /\ moves \in 0..MaxMoves
      /\ smooth \in BOOLEAN
  BY DEF ServeAsk, ServeCheck, IInv, Typed
<1>1. CASE ServeAsk(t)
  <2>1. PICK pc \in {"denied", "ok"} : Go(t, pc)
    BY <1>1 DEF ServeAsk
  <2>2. PICK x : x = [task[t] EXCEPT !.pc = pc]
    OBVIOUS
  <2>3. /\ x \in TaskRecord /\ x.pc = pc /\ x.page = task[t].page /\ x.of = task[t].of
        /\ x.pair <= issued /\ TaskInv(t)
    BY <2>2, GoFacts DEF PC
  <2>4. task[t].pc = "ask" /\ task' = [task EXCEPT ![t] = x]
    BY <1>1, <2>1, <2>2 DEF ServeAsk, Go, IInv, Typed
  <2>5. page[x.page].shows # "closed" /\ page[x.page].pair # 0 /\ x.pc \in Sent
    BY <2>3, <2>4 DEF TaskInv, Sent, PC
  <2> QED  BY <1>0, <2>3, <2>4, <2>5, TaskMove DEF server, history, OnItsWay
<1>2. CASE ServeCheck(t)
  <2>1. PICK pc \in {"checked", "refused"} :
            Go(t, pc) /\ (pc = "checked" <=> task[t].pair \in live)
    BY <1>2 DEF ServeCheck
  <2>2. PICK x : x = [task[t] EXCEPT !.pc = pc]
    OBVIOUS
  <2>3. /\ x \in TaskRecord /\ x.pc = pc /\ x.page = task[t].page /\ x.of = task[t].of
        /\ x.pair = task[t].pair /\ x.pair <= issued /\ TaskInv(t)
    BY <2>2, GoFacts DEF PC, Exchanging
  <2>4. task[t].pc = "exchange" /\ task' = [task EXCEPT ![t] = x]
    BY <1>2, <2>1, <2>2 DEF ServeCheck, Go, IInv, Typed
  <2>5. /\ page[x.page].shows # "closed" /\ page[x.page].pair # 0 /\ x.pc \in Sent
        /\ x.pair # 0
    BY <2>3, <2>4 DEF TaskInv, Sent, PC, Exchanging
  <2>6. \A u \in Task : task[u].pc \in OnItsWay => task[u].pair # x.pair
    BY <2>3, <2>4 DEF IInv, Fresh, OnItsWay
  <2>7. ASSUME smooth
        PROVE  /\ x.pc = "checked" /\ x.pair \in live
               /\ \A p \in Page \ {x.page} : page[p].pair # x.pair
               /\ \A u \in Task \ {t} : task[u].pc \notin Exchanging
    BY <2>1, <2>3, <2>4, <2>7 DEF IInv, SmoothInv, TaskLive, OneExchange, Exchanging
  <2> QED  BY <1>0, <2>3, <2>4, <2>5, <2>6, <2>7, TaskMove DEF server, history, OnItsWay
<1> QED  BY <1>1, <1>2

LEMMA DeniedKeepsIInv ==
  ASSUME IInv, NEW t \in Task, Denied(t)
  PROVE  IInv'
<1> DEFINE p == task[t].page
<1>1. PICK x : x = [task[t] EXCEPT !.pc = "exchange", !.pair = page[p].pair]
  OBVIOUS
<1>2. /\ task[t] \in TaskRecord /\ p \in Page /\ page[p] \in PageRecord
      /\ page[p].pair <= issued /\ TaskInv(t) /\ task[t].pc = "denied"
  BY DEF IInv, Typed, TaskRecord, Denied
<1>3. /\ x \in TaskRecord /\ x.pc = "exchange" /\ x.page = p /\ x.of = task[t].of
      /\ x.pair = page[p].pair
  BY <1>1, <1>2 DEF TaskRecord, PC, Exchanging, PageRecord
<1>4. /\ task' = [task EXCEPT ![t] = x]
      /\ smooth' = (smooth /\ ~ExchangeUnderWay /\ ~Others(p))
      /\ UNCHANGED <<page, store, server, moves, thrown>>
  BY <1>1 DEF Denied, IInv, Typed
<1>5. page[p].shows # "closed" /\ page[p].pair # 0
  BY <1>2 DEF TaskInv, Sent, PC
<1>6. \A u \in Task : task[u].pc \in OnItsWay => task[u].pair # x.pair
  BY <1>2, <1>3 DEF IInv, Fresh
<1>7. ASSUME smooth'
      PROVE  /\ smooth /\ x.pair \in live
             /\ \A q \in Page \ {p} : page[q].pair # x.pair
             /\ \A u \in Task : task[u].pc \notin Exchanging
  <2>1. smooth /\ ~ExchangeUnderWay /\ ~Others(p)
    BY <1>4, <1>7
  <2>2. x.pair \in live
    BY <1>2, <1>3, <1>5, <2>1
       DEF IInv, SmoothInv, TokensLive, ExchangeUnderWay, Exchanging
  <2>3. ASSUME NEW q \in Page \ {p} PROVE page[q].pair # x.pair
    BY <1>3, <1>5, <2>1 DEF Others, IInv, PageInv
  <2> QED  BY <2>1, <2>2, <2>3 DEF ExchangeUnderWay
<1>8. moves' \in 0..MaxMoves /\ smooth' \in BOOLEAN /\ x.pc \in Sent
  BY <1>3, <1>4 DEF IInv, Typed, Sent, PC, Exchanging
<1> QED  BY <1>2, <1>3, <1>4, <1>5, <1>6, <1>7, <1>8, TaskMove
         DEF server, OnItsWay, Exchanging

(* A request ends with nothing. *)
LEMMA DoneMove ==
  ASSUME IInv, NEW t \in Task, Done(t),
         UNCHANGED <<page, store, issued, live, stale, thrown>>,
         moves' \in 0..MaxMoves, smooth' \in BOOLEAN,
         smooth' => smooth /\ task[t].pc # "renewed"
  PROVE  IInv'
<1>1. task[t].page \in Page /\ issued \in Nat
  BY DEF IInv, Typed, TaskRecord, Pair
<1>2. PICK x : x = Free
  OBVIOUS
<1>3. x \in TaskRecord /\ x.pc = "free" /\ x.of = "call" /\ x.pair = 0
  BY <1>1, <1>2, FreeFacts
<1>4. x.pair <= issued /\ x.pc \notin Sent /\ x.pc \notin OnItsWay
  BY <1>1, <1>3 DEF Sent, OnItsWay
<1>5. task' = [task EXCEPT ![t] = x]
  BY <1>2 DEF Done
<1> QED  BY <1>3, <1>4, <1>5, TaskMove

LEMMA FailKeepsIInv ==
  ASSUME IInv, NEW t \in Task, Fail(t) \/ Lose(t)
  PROVE  IInv'
<1>1. moves' \in 0..MaxMoves /\ smooth' = FALSE
  BY DEF Fail, Lose, Move, IInv, Typed
<1>2. CASE Lose(t)
  BY <1>1, <1>2, DoneMove DEF Lose, server
<1>3. CASE Fail(t)
  <2>1. PICK pc \in {"bad", "denied", "refused"} :
            Go(t, pc) /\ task[t].pc \in {"ask", "exchange", "checked"}
    BY <1>3 DEF Fail
  <2>2. PICK x : x = [task[t] EXCEPT !.pc = pc]
    OBVIOUS
  <2>3. /\ x \in TaskRecord /\ x.pc = pc /\ x.page = task[t].page /\ x.of = task[t].of
        /\ x.pair <= issued /\ TaskInv(t)
    BY <2>2, GoFacts DEF PC
  <2>4. task' = [task EXCEPT ![t] = x]
    BY <2>1, <2>2 DEF Go, IInv, Typed
  <2>5. page[x.page].shows # "closed" /\ page[x.page].pair # 0 /\ x.pc \in Sent
    BY <2>1, <2>3 DEF TaskInv, Sent, PC, Exchanging
  <2> QED  BY <1>1, <1>3, <2>3, <2>4, <2>5, TaskMove DEF Fail, server, OnItsWay
<1> QED  BY <1>2, <1>3

-----------------------------------------------------------------------------
(* The server issues a pair. *)

LEMMA IssueFacts ==
  ASSUME IInv, Issue
  PROVE  /\ issued \in Nat /\ issued' = issued + 1 /\ issued' \in Pair /\ issued' # 0
         /\ \A p \in Page : page[p].pair # issued'
         /\ \A u \in Task : task[u].pair # issued'
         /\ store # issued'
<1>1. issued \in 0..MaxIssued /\ issued < MaxIssued /\ issued' = issued + 1 /\ store \in 0..issued
  BY DEF Issue, IInv, Typed, Pair
<1>2. ASSUME NEW p \in Page PROVE page[p].pair \in Nat /\ page[p].pair <= issued
  BY DEF IInv, Typed, PageRecord
<1>3. ASSUME NEW u \in Task PROVE task[u].pair \in Nat /\ task[u].pair <= issued
  BY DEF IInv, Typed, TaskRecord
<1> QED  BY <1>1, <1>2, <1>3 DEF Pair

LEMMA ServeExchangeKeepsIInv ==
  ASSUME IInv, NEW t \in Task, ServeExchange(t)
  PROVE  IInv'
<1> DEFINE k == task[t].pair
           n == issued'
           p == task[t].page
<1>1. PICK x : x = [task[t] EXCEPT !.pc = "renewed", !.pair = n]
  OBVIOUS
<1>2. /\ task[t] \in TaskRecord /\ task[t].pc = "checked" /\ TaskInv(t)
      /\ task \in [Task -> TaskRecord]
  BY DEF ServeExchange, IInv, Typed
<1>3. Issue /\ issued \in Nat /\ n = issued + 1 /\ n \in Pair /\ n \in Nat
  BY IssueFacts DEF ServeExchange
<1>4. /\ x \in TaskRecord /\ x.pc = "renewed" /\ x.pair = n /\ x.page = p
      /\ x.of = task[t].of
  BY <1>1, <1>2, <1>3 DEF TaskRecord, PC, Exchanging
<1>5. /\ task' = [task EXCEPT ![t] = x] /\ live' = (live \ {k}) \cup {n}
      /\ UNCHANGED <<page, store, stale, moves, history>>
  BY <1>1, <1>3 DEF ServeExchange
<1>6. task'[t] = x /\ \A u \in Task \ {t} : task'[u] = task[u]
  BY <1>2, <1>5
<1>7. Typed'
  <2>1. \A q \in Page : page[q].pair <= n
    BY <1>3 DEF IInv, Typed, PageRecord
  <2>2. task' \in [Task -> TaskRecord] /\ \A u \in Task : task'[u].pair <= n
    BY <1>2, <1>3, <1>4, <1>5, <1>6 DEF IInv, Typed, TaskRecord
  <2>3. live' \subseteq 1..n /\ stale \subseteq 1..n /\ store \in 0..n
    <3>1. /\ live \subseteq 1..issued /\ stale \subseteq 1..issued /\ store \in 0..issued
          /\ \A i \in 0..issued : i \in 0..n
          /\ \A i \in 1..issued : i \in 1..n
          /\ n \in 1..n
      BY <1>3 DEF IInv, Typed
    <3> QED  BY <1>5, <3>1
  <2> QED  BY <1>3, <1>5, <2>1, <2>2, <2>3 DEF IInv, Typed, history
<1>8. \A q \in Page : PageInv(q)'
  BY <1>5 DEF IInv, PageInv
<1>9. ASSUME NEW u \in Task PROVE TaskInv(u)' /\ Fresh(u)'
  <2>1. CASE u = t
    <3>1. TaskInv(t)'
      BY <1>2, <1>3, <1>4, <1>5, <1>6, IssueFacts DEF TaskInv, Sent, PC, Exchanging
    <3>2. Fresh(t)'
      BY <1>3, <1>4, <1>5, <1>6, IssueFacts DEF Fresh
    <3> QED  BY <2>1, <3>1, <3>2
  <2>2. CASE u # t
    <3>1. TaskInv(u)'
      BY <1>5, <1>6, <2>2 DEF IInv, TaskInv
    <3>2. Fresh(u)'
      BY <1>2, <1>3, <1>4, <1>5, <1>6, <2>2, IssueFacts DEF IInv, Fresh
    <3> QED  BY <3>1, <3>2
  <2> QED  BY <2>1, <2>2
<1>10. ASSUME smooth' PROVE (NobodyRefused /\ OneExchange /\ TokensLive)'
  <2>1. NobodyRefused /\ OneExchange /\ smooth
    BY <1>5, <1>10 DEF IInv, SmoothInv, history
  <2> QED  BY <1>2, <1>4, <1>5, <1>6, <2>1
           DEF NobodyRefused, OneExchange, TokensLive, Exchanging, history
<1>11. ASSUME smooth', NEW u \in Task PROVE TaskLive(u)'
  <2>1. smooth /\ OneExchange /\ TokensLive /\ TaskLive(t) /\ TaskLive(u)
    BY <1>5, <1>11 DEF IInv, SmoothInv, history
  <2>2. CASE u = t
    <3>1. \A v \in Task : task[v].pc # "renewed"
      BY <1>2, <2>1 DEF OneExchange, Exchanging
    <3>2. \A q \in Page \ {p} : page[q].pair \in live \cup {0} /\ page[q].pair # k
      BY <1>2, <2>1, <3>1 DEF TokensLive, TaskLive
    <3> QED  BY <1>4, <1>5, <1>6, <2>2, <3>2 DEF TaskLive, Exchanging, OnItsWay
  <2>3. CASE u # t
    <3>1. task[u].pc \notin Exchanging
      BY <1>2, <2>1, <2>3 DEF OneExchange, Exchanging
    <3>2. task[u].pc \in OnItsWay => task[u].pair \in live /\ task[u].pair # k
      BY <1>2, <2>1, <2>3 DEF IInv, Fresh, TaskLive
    <3> QED  BY <1>5, <1>6, <2>3, <3>1, <3>2 DEF TaskLive, Exchanging
  <2> QED  BY <2>2, <2>3
<1> QED  BY <1>7, <1>8, <1>9, <1>10, <1>11 DEF IInv, SmoothInv

LEMMA ServeLoginKeepsIInv ==
  ASSUME IInv, NEW t \in Task, ServeLogin(t)
  PROVE  IInv'
<1> DEFINE n == issued'
<1>1. /\ task[t] \in TaskRecord /\ task[t].pc = "login" /\ TaskInv(t)
      /\ task \in [Task -> TaskRecord] /\ moves \in 0..MaxMoves /\ smooth \in BOOLEAN
  BY DEF ServeLogin, IInv, Typed
<1>2. CASE Done(t) /\ UNCHANGED <<issued, live>>
  BY <1>1, <1>2, DoneMove DEF ServeLogin, history
<1>3. CASE /\ Issue /\ live' = live \cup {issued + 1}
           /\ task' = [task EXCEPT ![t].pc = "entered", ![t].pair = issued + 1]
  <2>1. PICK x : x = [task[t] EXCEPT !.pc = "entered", !.pair = n]
    OBVIOUS
  <2>2. /\ issued \in Nat /\ n = issued + 1 /\ n \in Pair /\ n \in Nat
        /\ \A u \in Task : task[u].pair # n
    BY <1>3, IssueFacts
  <2>3. /\ x \in TaskRecord /\ x.pc = "entered" /\ x.pair = n /\ x.page = task[t].page
        /\ x.of = task[t].of
    BY <1>1, <2>1, <2>2 DEF TaskRecord, PC
  <2>4. /\ task' = [task EXCEPT ![t] = x] /\ live' = live \cup {n}
        /\ UNCHANGED <<page, store, stale, moves, history>>
    BY <1>3, <2>1, <2>2 DEF ServeLogin
  <2>5. task'[t] = x /\ \A u \in Task \ {t} : task'[u] = task[u]
    BY <1>1, <2>4
  <2>6. Typed'
    <3>1. \A q \in Page : page[q].pair <= n
      BY <2>2 DEF IInv, Typed, PageRecord
    <3>2. task' \in [Task -> TaskRecord] /\ \A u \in Task : task'[u].pair <= n
      BY <1>1, <2>2, <2>3, <2>4, <2>5 DEF IInv, Typed, TaskRecord
    <3>3. live' \subseteq 1..n /\ stale \subseteq 1..n /\ store \in 0..n
      BY <2>2, <2>4 DEF IInv, Typed
    <3> QED  BY <2>2, <2>4, <3>1, <3>2, <3>3 DEF IInv, Typed, history
  <2>7. \A q \in Page : PageInv(q)'
    BY <2>4 DEF IInv, PageInv
  <2>8. ASSUME NEW u \in Task PROVE TaskInv(u)' /\ Fresh(u)'
    <3>1. CASE u = t
      <4>1. TaskInv(t)'
        BY <1>1, <1>3, <2>2, <2>3, <2>4, <2>5, IssueFacts DEF TaskInv, Sent, PC
      <4>2. Fresh(t)'
        BY <1>3, <2>3, <2>4, <2>5, IssueFacts DEF Fresh
      <4> QED  BY <3>1, <4>1, <4>2
    <3>2. CASE u # t
      <4>1. TaskInv(u)'
        BY <2>4, <2>5, <3>2 DEF IInv, TaskInv
      <4>2. Fresh(u)'
        BY <2>2, <2>3, <2>4, <2>5, <3>2 DEF IInv, Fresh
      <4> QED  BY <4>1, <4>2
    <3> QED  BY <3>1, <3>2
  <2>9. ASSUME smooth' PROVE (NobodyRefused /\ OneExchange /\ TokensLive)'
    <3>1. NobodyRefused /\ OneExchange /\ TokensLive /\ smooth
      BY <2>4, <2>9 DEF IInv, SmoothInv, history
    <3>2. (NobodyRefused /\ OneExchange)'
      BY <2>3, <2>4, <2>5, <3>1 DEF NobodyRefused, OneExchange, Exchanging, history
    <3>3. TokensLive'
      BY <1>1, <2>3, <2>4, <2>5, <3>1 DEF TokensLive
    <3> QED  BY <3>2, <3>3
  <2>10. ASSUME smooth', NEW u \in Task PROVE TaskLive(u)'
    <3>1. smooth /\ TaskLive(u)
      BY <2>4, <2>10 DEF IInv, SmoothInv, history
    <3> QED  BY <2>3, <2>4, <2>5, <3>1 DEF TaskLive, Exchanging, OnItsWay
  <2> QED  BY <2>6, <2>7, <2>8, <2>9, <2>10 DEF IInv, SmoothInv
<1> QED  BY <1>2, <1>3 DEF ServeLogin

-----------------------------------------------------------------------------
(* A page takes a pair that was on its way. *)

LEMMA KeepMove ==
  ASSUME IInv, NEW t \in Task, task[t].pc \in OnItsWay,
         NEW y \in PageRecord, y.pair = task[t].pair, y.shows # "closed",
         page' = [page EXCEPT ![task[t].page] = y], store' = task[t].pair,
         NEW x \in TaskRecord, task' = [task EXCEPT ![t] = x], x.pair <= issued,
         x.pc \in {"free", "ask"}, x.of = "me" => x.pc = "ask",
         x.pc = "ask" => x.page = task[t].page /\ x.pair = task[t].pair,
         UNCHANGED <<server, moves, history>>
  PROVE  IInv'
<1> DEFINE p == task[t].page
           n == task[t].pair
<1>1. /\ task \in [Task -> TaskRecord] /\ page \in [Page -> PageRecord]
      /\ p \in Page /\ TaskInv(t) /\ Fresh(t)
      /\ task'[t] = x /\ \A u \in Task \ {t} : task'[u] = task[u]
      /\ page'[p] = y /\ \A q \in Page \ {p} : page'[q] = page[q]
      /\ n # 0 /\ n <= issued /\ n \in Nat
  BY DEF IInv, Typed, TaskRecord, TaskInv
<1>2. Typed'
  BY <1>1 DEF IInv, Typed, server, history, Pair
<1>3. \A q \in Page : PageInv(q)'
  BY <1>1 DEF IInv, PageInv
<1>4. ASSUME NEW u \in Task PROVE TaskInv(u)' /\ Fresh(u)'
  <2>1. CASE u = t
    BY <1>1, <2>1 DEF TaskInv, Fresh, Sent, PC, OnItsWay, Exchanging
  <2>2. CASE u # t
    <3>1. task'[u] = task[u] /\ TaskInv(u) /\ Fresh(u)
      BY <1>1, <2>2 DEF IInv
    <3>2. TaskInv(u)'
      BY <1>1, <3>1 DEF TaskInv
    <3>3. task[u].pc \in OnItsWay => task[u].pair # n
      BY <2>2, <3>1 DEF Fresh
    <3>4. Fresh(u)'
      BY <1>1, <3>1, <3>3 DEF Fresh, OnItsWay
    <3> QED  BY <3>2, <3>4
  <2> QED  BY <2>1, <2>2
<1>5. ASSUME smooth' PROVE (NobodyRefused /\ OneExchange /\ TokensLive)'
  <2>1. /\ NobodyRefused /\ OneExchange /\ TokensLive /\ TaskLive(t) /\ smooth
        /\ live' = live /\ thrown' = thrown
    BY <1>5 DEF IInv, SmoothInv, history, server
  <2>2. (NobodyRefused /\ OneExchange)'
    BY <1>1, <2>1 DEF NobodyRefused, OneExchange, Exchanging
  <2>3. ASSUME \A u \in Task : task'[u].pc # "renewed"
        PROVE  n \in live /\ \A q \in Page \ {p} : page[q].pair \in live \cup {0}
    <3>1. CASE task[t].pc = "renewed"
      BY <2>1, <3>1 DEF TaskLive, Exchanging, OnItsWay
    <3>2. CASE task[t].pc # "renewed"
      BY <1>1, <2>1, <2>3, <3>2 DEF TaskLive, TokensLive, OnItsWay
    <3> QED  BY <3>1, <3>2
  <2>4. TokensLive'
    BY <1>1, <2>1, <2>3 DEF TokensLive
  <2> QED  BY <2>2, <2>4
<1>6. ASSUME smooth', NEW u \in Task PROVE TaskLive(u)'
  <2>1. smooth /\ TaskLive(t) /\ TaskLive(u) /\ live' = live
    BY <1>6 DEF IInv, SmoothInv, history, server
  <2>2. CASE u = t
    BY <1>1, <2>2 DEF TaskLive, Exchanging, OnItsWay
  <2>3. CASE u # t
    <3>1. task'[u] = task[u] /\ n \in live
      BY <1>1, <2>1, <2>3 DEF TaskLive
    <3>2. task[u].pc \in {"exchange", "checked"} => task[u].pair # n
      BY <1>1, <2>3 DEF Fresh
    <3> QED  BY <1>1, <2>1, <3>1, <3>2 DEF TaskLive
  <2> QED  BY <2>2, <2>3
<1> QED  BY <1>2, <1>3, <1>4, <1>5, <1>6 DEF IInv, SmoothInv

LEMMA RenewedKeepsIInv ==
  ASSUME IInv, NEW t \in Task, Renewed(t)
  PROVE  IInv'
<1> DEFINE p == task[t].page
<1>1. /\ task[t] \in TaskRecord /\ task[t].pc = "renewed" /\ TaskInv(t) /\ p \in Page
      /\ page[p] \in PageRecord /\ task[t].pair \in Nat
  BY DEF Renewed, IInv, Typed, TaskRecord
<1>2. PICK x : x = [task[t] EXCEPT !.pc = "ask"]
  OBVIOUS
<1>3. /\ x \in TaskRecord /\ x.pc = "ask" /\ x.page = p /\ x.pair = task[t].pair
      /\ x.pair <= issued
  BY <1>2, GoFacts DEF PC
<1>4. PICK y : y = [page[p] EXCEPT !.pair = task[t].pair]
  OBVIOUS
<1>5. y \in PageRecord /\ y.pair = task[t].pair /\ y.shows # "closed"
  BY <1>1, <1>4 DEF PageRecord, TaskInv
<1>6. /\ task' = [task EXCEPT ![t] = x] /\ page' = [page EXCEPT ![p] = y]
      /\ store' = task[t].pair /\ UNCHANGED <<server, moves, history>>
  BY <1>2, <1>4 DEF Renewed, Go, Keep, IInv, Typed
<1> QED  BY <1>1, <1>3, <1>5, <1>6, KeepMove DEF OnItsWay

LEMMA EnteredKeepsIInv ==
  ASSUME IInv, NEW t \in Task, Entered(t)
  PROVE  IInv'
<1> DEFINE p == task[t].page
<1>1. /\ task[t] \in TaskRecord /\ task[t].pc = "entered" /\ p \in Page
      /\ task[t].pair \in Nat /\ issued \in Nat
  BY DEF Entered, IInv, Typed, TaskRecord, Pair
<1>2. PICK x : x = Free
  OBVIOUS
<1>3. /\ x \in TaskRecord /\ x.pc = "free" /\ x.of = "call" /\ x.pair <= issued
  BY <1>1, <1>2, FreeFacts
<1>4. PICK y : y = [shows |-> Started(p), pair |-> task[t].pair]
  OBVIOUS
<1>5. y \in PageRecord /\ y.pair = task[t].pair /\ y.shows # "closed"
  BY <1>1, <1>4 DEF PageRecord, Started
<1>6. /\ task' = [task EXCEPT ![t] = x] /\ page' = [page EXCEPT ![p] = y]
      /\ store' = task[t].pair /\ UNCHANGED <<server, moves, history>>
  BY <1>2, <1>4 DEF Entered, Done
<1> QED  BY <1>1, <1>3, <1>5, <1>6, KeepMove DEF OnItsWay

-----------------------------------------------------------------------------
(* A page shows something else and keeps its pair. *)

LEMMA HoldMove ==
  ASSUME IInv, NEW p \in Page, NEW y \in PageRecord, page' = [page EXCEPT ![p] = y],
         y.pair = page[p].pair, y.shows # "closed", y.shows = "app" => y.pair # 0,
         store' \in {0, page[p].pair},
         task' \in [Task -> TaskRecord],
         \A u \in Task : \/ task'[u] = task[u]
                         \/ task'[u] = Free /\ task[u].pc # "renewed",
         UNCHANGED server, moves' \in 0..MaxMoves, smooth' = smooth,
         thrown' \in BOOLEAN, smooth => thrown' = thrown
  PROVE  IInv'
<1>1. /\ page \in [Page -> PageRecord] /\ page'[p] = y
      /\ \A q \in Page : page'[q].pair = page[q].pair /\ page[q].pair \in Nat
      /\ \A q \in Page \ {p} : page'[q] = page[q]
  BY DEF IInv, Typed, PageRecord
<1>2. \A u \in Task : task[u].page \in Page
  BY DEF IInv, Typed, TaskRecord
<1>3. \A u \in Task : task'[u] = task[u] \/
                      (task'[u].pc = "free" /\ task'[u].of = "call" /\ task'[u].pair = 0)
  BY FreeFacts
<1>4. Typed'
  <2>1. page' \in [Page -> PageRecord] /\ \A q \in Page : page'[q].pair <= issued
    BY <1>1 DEF IInv, Typed
  <2>2. \A u \in Task : task'[u].pair <= issued
    BY <1>3 DEF IInv, Typed, Pair
  <2>3. store' \in 0..issued
    BY <1>1 DEF IInv, Typed, Pair
  <2> QED  BY <2>1, <2>2, <2>3 DEF IInv, Typed, server
<1>5. ASSUME NEW q \in Page PROVE PageInv(q)'
  BY <1>1 DEF IInv, PageInv
<1>6. ASSUME NEW u \in Task PROVE TaskInv(u)' /\ Fresh(u)'
  <2>1. CASE task'[u] = task[u]
    <3>1. TaskInv(u)'
      BY <1>1, <1>2, <2>1 DEF IInv, TaskInv
    <3>2. ASSUME task[u].pc \in OnItsWay PROVE store' # task[u].pair
      BY <1>1, <3>2 DEF IInv, TaskInv, Fresh
    <3>3. Fresh(u)'
      BY <1>1, <1>3, <2>1, <3>2 DEF IInv, Fresh, OnItsWay
    <3> QED  BY <3>1, <3>3
  <2>2. CASE task'[u] # task[u]
    BY <1>3, <2>2 DEF TaskInv, Fresh, Sent, OnItsWay, Exchanging
  <2> QED  BY <2>1, <2>2
<1>7. ASSUME smooth' PROVE (NobodyRefused /\ OneExchange /\ TokensLive)'
  <2>1. /\ smooth /\ NobodyRefused /\ OneExchange /\ TokensLive
        /\ live' = live /\ thrown' = thrown
    BY <1>7 DEF IInv, SmoothInv, server
  <2>2. (NobodyRefused /\ OneExchange)'
    BY <1>3, <2>1 DEF NobodyRefused, OneExchange, Exchanging
  <2>3. (\A u \in Task : task'[u].pc # "renewed") => \A u \in Task : task[u].pc # "renewed"
    OBVIOUS
  <2>4. TokensLive'
    BY <1>1, <2>1, <2>3 DEF TokensLive
  <2> QED  BY <2>2, <2>4
<1>8. ASSUME smooth', NEW u \in Task PROVE TaskLive(u)'
  <2>1. TaskLive(u) /\ live' = live
    BY <1>8 DEF IInv, SmoothInv, server
  <2> QED  BY <1>1, <1>3, <2>1 DEF TaskLive, Exchanging, OnItsWay
<1> QED  BY <1>4, <1>5, <1>6, <1>7, <1>8 DEF IInv, SmoothInv

LEMMA ClickLogoutKeepsIInv ==
  ASSUME IInv, NEW p \in Page, ClickLogout(p)
  PROVE  IInv'
<1>1. page \in [Page -> PageRecord] /\ task \in [Task -> TaskRecord] /\ thrown \in BOOLEAN
  BY DEF IInv, Typed
<1>2. PICK y : y = [page[p] EXCEPT !.shows = "leaving"]
  OBVIOUS
<1>3. y \in PageRecord /\ y.pair = page[p].pair /\ y.shows = "leaving"
  BY <1>1, <1>2 DEF PageRecord
<1>4. page' = [page EXCEPT ![p] = y] /\ store' = 0
  BY <1>1, <1>2 DEF ClickLogout, Logout
<1>5. moves' \in 0..MaxMoves
  BY DEF ClickLogout, Move, IInv, Typed
<1> QED  BY <1>1, <1>3, <1>4, <1>5, HoldMove DEF ClickLogout, history

LEMMA AnsweredKeepsIInv ==
  ASSUME IInv, NEW t \in Task, Refused(t) \/ Answered(t)
  PROVE  IInv'
<1> DEFINE p == task[t].page
<1>1. /\ page \in [Page -> PageRecord] /\ task \in [Task -> TaskRecord]
      /\ p \in Page /\ task[t] \in TaskRecord
      /\ thrown \in BOOLEAN /\ smooth \in BOOLEAN /\ moves \in 0..MaxMoves
  BY DEF IInv, Typed, TaskRecord
<1>2. /\ task[t].pc \in {"refused", "ok", "bad"} /\ Done(t)
      /\ UNCHANGED <<server, moves, smooth>>
  BY DEF Refused, Answered
<1>3. /\ task' \in [Task -> TaskRecord]
      /\ \A u \in Task : \/ task'[u] = task[u]
                         \/ task'[u] = Free /\ task[u].pc # "renewed"
  BY <1>1, <1>2, FreeFacts DEF Done
<1>4. page[p].pair # 0
  BY <1>2 DEF IInv, TaskInv, Sent, PC
<1>5. ASSUME Logout(p), thrown' = TRUE, task[t].pc \in {"refused", "bad"}
      PROVE  IInv'
  <2>1. PICK y : y = [page[p] EXCEPT !.shows = "leaving"]
    OBVIOUS
  <2>2. y \in PageRecord /\ y.pair = page[p].pair /\ y.shows = "leaving"
    BY <1>1, <2>1 DEF PageRecord
  <2>3. page' = [page EXCEPT ![p] = y] /\ store' = 0
    BY <1>1, <1>5, <2>1 DEF Logout
  <2>4. ~smooth
    BY <1>5 DEF IInv, SmoothInv, NobodyRefused
  <2> QED  BY <1>1, <1>2, <1>3, <1>5, <2>2, <2>3, <2>4, HoldMove
<1>6. ASSUME store' = page[p].pair, page' = [page EXCEPT ![p].shows = Started(p)],
             thrown' = thrown
      PROVE  IInv'
  <2>1. PICK y : y = [page[p] EXCEPT !.shows = Started(p)]
    OBVIOUS
  <2>2. y \in PageRecord /\ y.pair = page[p].pair /\ y.shows # "closed"
    BY <1>1, <2>1 DEF PageRecord, Started
  <2>3. page' = [page EXCEPT ![p] = y]
    BY <1>1, <1>6, <2>1
  <2> QED  BY <1>1, <1>2, <1>3, <1>4, <1>6, <2>2, <2>3, HoldMove
<1>7. CASE Refused(t)
  BY <1>5, <1>7 DEF Refused
<1>8. CASE Answered(t)
  <2>1. CASE task[t].of = "call"
    BY <1>1, <1>2, <1>8, <2>1, DoneMove DEF Answered, server
  <2>2. CASE task[t].of = "me" /\ task[t].pc = "ok"
    BY <1>6, <1>8, <2>2 DEF Answered
  <2>3. CASE task[t].of # "call" /\ ~(task[t].of = "me" /\ task[t].pc = "ok")
    <3>1. task[t].of = "me" /\ task[t].pc = "bad"
      BY <1>1, <1>8, <2>3 DEF Answered, TaskRecord
    <3> QED  BY <1>5, <1>8, <2>3, <3>1 DEF Answered
  <2> QED  BY <2>1, <2>2, <2>3
<1> QED  BY <1>7, <1>8

-----------------------------------------------------------------------------
(* A document goes, with all that it had under way. *)

LEMMA GoneMove ==
  ASSUME IInv, NEW p \in Page, NEW y \in PageRecord, page' = [page EXCEPT ![p] = y],
         y.pair \in {0, store}, y.shows # "app", y.shows = "closed" => y.pair = 0,
         task' \in [Task -> TaskRecord],
         \A u \in Task :
            \/ task'[u] = Gone(p)[u]
            \/ /\ task'[u].pc = "ask" /\ task'[u].page = p /\ task'[u].pair = store
               /\ Gone(p)[u].pc = "free" /\ store # 0
               /\ y.pair = store /\ y.shows = "form",
         Interrupts, moves' \in 0..MaxMoves, UNCHANGED <<store, server, thrown>>
  PROVE  IInv'
<1>1. /\ page \in [Page -> PageRecord] /\ task \in [Task -> TaskRecord]
      /\ page'[p] = y /\ store \in 0..issued /\ issued \in Nat
      /\ \A q \in Page \ {p} : page'[q] = page[q]
  BY DEF IInv, Typed, Pair
<1>2. ASSUME NEW u \in Task
      PROVE  \/ task'[u] = task[u] /\ task[u].page \in Page \ {p}
             \/ task'[u].pc = "free" /\ task'[u].of = "call" /\ task'[u].pair = 0
             \/ /\ task'[u].pc = "ask" /\ task'[u].page = p /\ task'[u].pair = store
                /\ store # 0 /\ y.pair = store /\ y.shows = "form"
  BY <1>1, FreeFacts DEF Gone, TaskRecord
<1>3. Typed'
  <2>1. page' \in [Page -> PageRecord] /\ \A q \in Page : page'[q].pair <= issued
    BY <1>1 DEF IInv, Typed
  <2>2. \A u \in Task : task'[u].pair <= issued
    BY <1>1, <1>2 DEF IInv, Typed
  <2>3. smooth' \in BOOLEAN
    BY DEF Interrupts
  <2> QED  BY <2>1, <2>2, <2>3 DEF IInv, Typed, server
<1>4. ASSUME NEW q \in Page PROVE PageInv(q)'
  BY <1>1 DEF IInv, PageInv
<1>5. ASSUME NEW u \in Task PROVE TaskInv(u)'
  <2>1. CASE task'[u] = task[u] /\ task[u].page \in Page \ {p}
    BY <1>1, <2>1 DEF IInv, TaskInv
  <2>2. CASE task'[u].pc = "free" /\ task'[u].of = "call"
    BY <2>2 DEF TaskInv, Sent, OnItsWay, Exchanging
  <2>3. CASE /\ task'[u].pc = "ask" /\ task'[u].page = p /\ task'[u].pair = store
             /\ store # 0 /\ y.pair = store /\ y.shows = "form"
    BY <1>1, <2>3 DEF TaskInv, Sent, PC
  <2> QED  BY <1>2, <2>1, <2>2, <2>3
<1>6. ASSUME NEW u \in Task PROVE Fresh(u)'
  <2>1. ASSUME task'[u].pc \in OnItsWay
        PROVE  task'[u] = task[u] /\ task[u].pair # 0 /\ Fresh(u)
    BY <1>2, <2>1 DEF IInv, TaskInv, OnItsWay
  <2>2. ASSUME NEW v \in Task, task'[v].pc \in {"exchange", "checked"} \cup OnItsWay
        PROVE  task'[v] = task[v]
    BY <1>2, <2>2 DEF OnItsWay
  <2> QED  BY <1>1, <2>1, <2>2 DEF Fresh
<1>7. ASSUME smooth' PROVE (NobodyRefused /\ OneExchange /\ TokensLive)'
  <2>1. /\ smooth /\ NobodyRefused /\ OneExchange /\ TokensLive /\ live' = live
        /\ \A u \in Task : task[u].pc \notin Exchanging
    BY <1>7 DEF IInv, SmoothInv, server, Interrupts, ExchangeUnderWay
  <2>2. NobodyRefused' /\ \A u \in Task : task'[u].pc \notin Exchanging
    BY <1>2, <2>1 DEF NobodyRefused, Exchanging
  <2>3. TokensLive'
    BY <1>1, <2>1 DEF TokensLive, Exchanging
  <2> QED  BY <2>2, <2>3 DEF OneExchange
<1>8. ASSUME smooth', NEW u \in Task PROVE TaskLive(u)'
  <2>1. /\ TaskLive(u) /\ live' = live /\ \A v \in Task : task[v].pc \notin Exchanging
    BY <1>8 DEF IInv, SmoothInv, server, Interrupts, ExchangeUnderWay
  <2> QED  BY <1>2, <2>1 DEF TaskLive, Exchanging, OnItsWay
<1> QED  BY <1>3, <1>4, <1>5, <1>6, <1>7, <1>8 DEF IInv, SmoothInv

LEMMA GoneTyped ==
  ASSUME IInv, NEW p \in Page
  PROVE  Gone(p) \in [Task -> TaskRecord]
BY FreeFacts DEF Gone, IInv, Typed

LEMMA StartKeepsIInv ==
  ASSUME IInv, NEW p \in Page, Start(p), moves' \in 0..MaxMoves
  PROVE  IInv'
<1>1. PICK y : y = [shows |-> "form", pair |-> store]
  OBVIOUS
<1>2. /\ y \in PageRecord /\ y.pair = store /\ y.shows = "form"
      /\ page' = [page EXCEPT ![p] = y] /\ Interrupts /\ UNCHANGED <<store, server, thrown>>
  BY <1>1 DEF Start, IInv, Typed, PageRecord, Pair
<1>3. CASE store = 0
  <2>1. task' = Gone(p)
    BY <1>3 DEF Start
  <2> QED  BY <1>2, <2>1, GoneTyped, GoneMove
<1>4. CASE store # 0
  <2>1. PICK t \in Task : /\ Gone(p)[t].pc = "free"
                          /\ task' = [Gone(p) EXCEPT ![t] =
                                [pc |-> "ask", of |-> "me", page |-> p, pair |-> store]]
    BY <1>4 DEF Start
  <2>2. [pc |-> "ask", of |-> "me", page |-> p, pair |-> store] \in TaskRecord
    BY DEF IInv, Typed, TaskRecord, PC, Pair
  <2>3. /\ task' \in [Task -> TaskRecord]
        /\ task'[t] = [pc |-> "ask", of |-> "me", page |-> p, pair |-> store]
        /\ \A u \in Task \ {t} : task'[u] = Gone(p)[u]
    BY <2>1, <2>2, GoneTyped
  <2> QED  BY <1>2, <1>4, <2>1, <2>3, GoneMove
<1> QED  BY <1>3, <1>4

LEMMA CloseKeepsIInv ==
  ASSUME IInv, NEW p \in Page, Close(p)
  PROVE  IInv'
<1>1. PICK y : y = [shows |-> "closed", pair |-> 0]
  OBVIOUS
<1>2. y \in PageRecord /\ y.pair = 0 /\ y.shows = "closed" /\ page' = [page EXCEPT ![p] = y]
  BY <1>1 DEF Close, PageRecord
<1>3. moves' \in 0..MaxMoves
  BY DEF Close, Move, IInv, Typed
<1> QED  BY <1>2, <1>3, GoneTyped, GoneMove DEF Close

-----------------------------------------------------------------------------

LEMMA StandKeepsIInv ==
  ASSUME IInv, UNCHANGED <<page, store, task, issued, live, history>>,
         moves' \in 0..MaxMoves, stale' \subseteq 1..issued
  PROVE  IInv'
BY DEF IInv, Typed, PageInv, TaskInv, Fresh, SmoothInv, NobodyRefused, OneExchange,
       TokensLive, TaskLive, history

LEMMA LapseKeepsIInv ==
  ASSUME IInv, NEW gone \in SUBSET (1..issued), Lapse(gone)
  PROVE  IInv'
<1>1. moves' \in 0..MaxMoves /\ live' \subseteq 1..issued /\ stale' \subseteq 1..issued
  BY DEF Lapse, Move, IInv, Typed
<1>2. ~smooth' /\ smooth' \in BOOLEAN /\ UNCHANGED <<page, store, task, issued, thrown>>
  BY DEF Lapse
<1> QED  BY <1>1, <1>2 DEF IInv, Typed, PageInv, TaskInv, Fresh, SmoothInv

LEMMA NextKeepsIInv == IInv /\ [Next]_vars => IInv'
<1> SUFFICES ASSUME IInv, [Next]_vars PROVE IInv'
  OBVIOUS
<1>1. ASSUME NEW p \in Page, NEW t \in Task, Call(t, p) \/ Login(t, p) PROVE IInv'
  BY <1>1, AskKeepsIInv
<1>2. ASSUME NEW p \in Page, ClickLogout(p) \/ Close(p) PROVE IInv'
  BY <1>2, ClickLogoutKeepsIInv, CloseKeepsIInv
<1>3. ASSUME NEW p \in Page, Unload(p) \/ OpenOrReload(p) PROVE IInv'
  <2>1. Start(p) /\ moves' \in 0..MaxMoves
    BY <1>3 DEF Unload, OpenOrReload, Move, IInv, Typed
  <2> QED  BY <2>1, StartKeepsIInv
<1>4. ASSUME NEW t \in Task, Progress(t) PROVE IInv'
  BY <1>4, ServeKeepsIInv, ServeExchangeKeepsIInv, ServeLoginKeepsIInv, DeniedKeepsIInv,
     RenewedKeepsIInv, AnsweredKeepsIInv, EnteredKeepsIInv DEF Progress
<1>5. ASSUME NEW t \in Task, Fail(t) \/ Lose(t) PROVE IInv'
  BY <1>5, FailKeepsIInv
<1>6. ASSUME NEW k \in 1..issued, Expire(k) PROVE IInv'
  <2>1. moves' \in 0..MaxMoves /\ stale' \subseteq 1..issued
    BY <1>6 DEF Expire, Move, IInv, Typed
  <2> QED  BY <1>6, <2>1, StandKeepsIInv DEF Expire
<1>7. ASSUME NEW gone \in SUBSET (1..issued), Lapse(gone) PROVE IInv'
  BY <1>7, LapseKeepsIInv
<1>8. CASE UNCHANGED vars
  BY <1>8, StandKeepsIInv DEF vars, IInv, Typed, history
<1> QED  BY <1>1, <1>2, <1>3, <1>4, <1>5, <1>6, <1>7, <1>8 DEF Next

LEMMA Invariance == Spec => []IInv
BY InitIInv, NextKeepsIInv, PTL DEF Spec

(* A request is only sent, and a page only shows the application, with a     *)
(* pair of tokens that the server has issued.                                *)
THEOREM WebTypeCorrect == Spec => []TypeOK
BY Invariance, IInvImplies, PTL

(* app.js: nobody is signed out by the page itself as long as nothing comes  *)
(* between an exchange of the refresh token and the page that asked for it,  *)
(* and the server ends no refresh token of its own accord.                   *)
THEOREM SessionKept == Spec => []KeepsSession
BY Invariance, IInvImplies, PTL

=============================================================================
