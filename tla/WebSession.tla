------------------------------ MODULE WebSession ------------------------------
(***************************************************************************)
(* The session of the pages of one browser (web/app.js): each page has its *)
(* own copy of the tokens, local storage one for all of them.  A call that *)
(* is answered 401 exchanges the refresh token and starts again; an        *)
(* exchange that fails signs the page out.                                 *)
(*                                                                         *)
(* An access token and the refresh token issued with it are a pair, named  *)
(* by its number: the page and the storage always take both together.      *)
(***************************************************************************)
EXTENDS Naturals, FiniteSets

CONSTANTS
    Page,       \* the pages of the browser
    Task,       \* slots for the calls and the log-ins under way
    MaxIssued,  \* bound: pairs of tokens
    MaxMoves    \* bound: clicks, expiries and failures

ASSUME WebSessionAssumption == MaxIssued \in Nat \ {0} /\ MaxMoves \in Nat

VARIABLES
    page,       \* each page: what it shows, and api.token with api.refresh
    store,      \* kb_tok in local storage; 0: none
    task,       \* the requests under way
    issued,     \* how many pairs the server has issued
    live,       \* the refresh tokens that are neither revoked nor expired
    stale,      \* the access tokens that have expired
    moves,
    smooth,     \* history: nothing has come between an exchange and its page,
                \* and the server has ended no refresh token of itself
    thrown      \* history: a page was signed out by itself

vars == <<page, store, task, issued, live, stale, moves, smooth, thrown>>
server == <<issued, live, stale>>
history == <<smooth, thrown>>

Pair == 0..MaxIssued
Free == [pc |-> "free", of |-> "call", page |-> CHOOSE p \in Page : TRUE, pair |-> 0]
Exchanging == {"exchange", "checked", "renewed"}

TypeOK ==
    /\ page \in [Page -> [shows: {"closed", "form", "app", "leaving"}, pair: 0..issued]]
    /\ store \in 0..issued
    /\ task \in [Task -> [pc: {"free", "ask", "ok", "denied", "bad", "refused", "login",
                               "entered"} \cup Exchanging,
                          of: {"call", "me"}, page: Page, pair: 0..issued]]
    /\ \A t \in Task : task[t].pc = "ask" => task[t].pair # 0
    /\ issued \in Pair
    /\ live \subseteq 1..issued /\ stale \subseteq 1..issued
    /\ moves \in 0..MaxMoves
    /\ {smooth, thrown} \subseteq BOOLEAN

(* One page that has been signed in for a while. *)
Init ==
    /\ \E p \in Page :
          page = [q \in Page |-> IF q = p THEN [shows |-> "app", pair |-> 1]
                                 ELSE [shows |-> "closed", pair |-> 0]]
    /\ store = 1 /\ issued = 1 /\ live = {1} /\ stale = {}
    /\ task = [t \in Task |-> Free]
    /\ moves = 0 /\ smooth = TRUE /\ thrown = FALSE

-----------------------------------------------------------------------------

Move == moves < MaxMoves /\ moves' = moves + 1

Go(t, pc) == task' = [task EXCEPT ![t].pc = pc]
Done(t) == task' = [task EXCEPT ![t] = Free]
OfPage(t) == page[task[t].page]

(* The page takes a pair and saves it. *)
Keep(p, k) == page' = [page EXCEPT ![p].pair = k] /\ store' = k

(* logout: the storage is emptied; the page is still there until it reloads, *)
(* and so is what it has under way.                                          *)
Logout(p) == store' = 0 /\ page' = [page EXCEPT ![p].shows = "leaving"]

(* Another page holds tokens. *)
Others(p) == \E q \in Page \ {p} : page[q].shows # "closed" /\ page[q].pair # 0

ExchangeUnderWay == \E t \in Task : task[t].pc \in Exchanging

(* Any button that calls the server. *)
Call(t, p) ==
    /\ task[t].pc = "free" /\ page[p].shows = "app" /\ Move
    /\ task' = [task EXCEPT ![t] = [pc |-> "ask", of |-> "call", page |-> p,
                                    pair |-> page[p].pair]]
    /\ UNCHANGED <<page, store, server, history>>

(* The form is shown until start() runs, also while a stored session is tried. *)
Login(t, p) ==
    /\ task[t].pc = "free" /\ page[p].shows = "form" /\ Move
    /\ task' = [task EXCEPT ![t] = [Free EXCEPT !.pc = "login", !.page = p]]
    /\ UNCHANGED <<page, store, server, history>>

ClickLogout(p) ==
    /\ page[p].shows = "app" /\ Move
    /\ Logout(p)
    /\ UNCHANGED <<task, server, history>>

(* The document goes, with all that it had under way. *)
Gone(p) == [t \in Task |-> IF task[t].page = p THEN Free ELSE task[t]]

Interrupts == smooth' = (smooth /\ ~ExchangeUnderWay)

(* The script starts: load(), and /auth/me when there is a token. *)
Start(p) ==
    /\ page' = [page EXCEPT ![p] = [shows |-> "form", pair |-> store]]
    /\ IF store = 0 THEN task' = Gone(p)
       ELSE \E t \in Task :
              /\ Gone(p)[t].pc = "free"
              /\ task' = [Gone(p) EXCEPT ![t] = [pc |-> "ask", of |-> "me", page |-> p,
                                                 pair |-> store]]
    /\ Interrupts
    /\ UNCHANGED <<store, server, thrown>>

Unload(p) == page[p].shows = "leaving" /\ Start(p) /\ UNCHANGED moves

OpenOrReload(p) == Move /\ Start(p)

Close(p) ==
    /\ page[p].shows # "closed" /\ Move
    /\ page' = [page EXCEPT ![p] = [shows |-> "closed", pair |-> 0]]
    /\ task' = Gone(p)
    /\ Interrupts
    /\ UNCHANGED <<store, server, thrown>>

-----------------------------------------------------------------------------
(* The server. *)

Expire(k) ==
    /\ k \notin stale /\ Move
    /\ stale' = stale \cup {k}
    /\ UNCHANGED <<page, store, task, issued, live, history>>

(* Refresh tokens end: the time of one is over, or all of an account with it *)
(* when it is deactivated, and then its access tokens are refused as well.   *)
(* What an exchange under way still gives such an account ends by itself.    *)
Lapse(gone) ==
    /\ gone \cap live # {} /\ Move
    /\ live' = live \ gone
    /\ stale' \in {stale, stale \cup gone}
    /\ smooth' = FALSE
    /\ UNCHANGED <<page, store, task, issued, thrown>>

ServeAsk(t) ==
    /\ task[t].pc = "ask"
    /\ Go(t, IF task[t].pair \in stale THEN "denied" ELSE "ok")
    /\ UNCHANGED <<page, store, server, moves, history>>

(* The select of /auth/refresh, and the rest of it: two that pass the select *)
(* together are both given a pair.                                           *)
ServeCheck(t) ==
    /\ task[t].pc = "exchange"
    /\ Go(t, IF task[t].pair \in live THEN "checked" ELSE "refused")
    /\ UNCHANGED <<page, store, server, moves, history>>

Issue == issued < MaxIssued /\ issued' = issued + 1

ServeExchange(t) ==
    /\ task[t].pc = "checked" /\ Issue
    /\ live' = (live \ {task[t].pair}) \cup {issued + 1}
    /\ task' = [task EXCEPT ![t].pc = "renewed", ![t].pair = issued + 1]
    /\ UNCHANGED <<page, store, stale, moves, history>>

ServeLogin(t) ==
    /\ task[t].pc = "login"
    /\ \/ /\ Issue
          /\ live' = live \cup {issued + 1}
          /\ task' = [task EXCEPT ![t].pc = "entered", ![t].pair = issued + 1]
       \/ Done(t) /\ UNCHANGED <<issued, live>>
    /\ UNCHANGED <<page, store, stale, moves, history>>

(* A call is answered with an error, or with 401 by an authenticate whose    *)
(* query fails; an exchange with an error.                                   *)
Fail(t) ==
    /\ Move
    /\ \/ task[t].pc = "ask" /\ \E pc \in {"bad", "denied"} : Go(t, pc)
       \/ task[t].pc \in {"exchange", "checked"} /\ Go(t, "refused")
    /\ smooth' = FALSE
    /\ UNCHANGED <<page, store, server, thrown>>

(* The connection breaks: fetch throws, whatever the server has done. *)
Lose(t) ==
    /\ task[t].pc # "free" /\ Move
    /\ Done(t)
    /\ smooth' = FALSE
    /\ UNCHANGED <<page, store, server, thrown>>

-----------------------------------------------------------------------------
(* Behind the awaits of the page. *)

(* api.call: 401 starts an exchange of the refresh token the page has by now. *)
Denied(t) ==
    LET p == task[t].page
    IN  /\ task[t].pc = "denied"
        /\ task' = [task EXCEPT ![t].pc = "exchange", ![t].pair = page[p].pair]
        /\ smooth' = (smooth /\ ~ExchangeUnderWay /\ ~Others(p))
        /\ UNCHANGED <<page, store, server, moves, thrown>>

\* Mutation of Renewed: doRefresh does not save.
RenewedUnsaved(t) ==
    /\ task[t].pc = "renewed"
    /\ page' = [page EXCEPT ![task[t].page].pair = task[t].pair]
    /\ Go(t, "ask")
    /\ UNCHANGED <<store, server, moves, history>>

(* doRefresh succeeds: the call is sent again with the new token. *)
Renewed(t) ==
    /\ task[t].pc = "renewed"
    /\ Keep(task[t].page, task[t].pair)
    /\ Go(t, "ask")
    /\ UNCHANGED <<server, moves, history>>

\* Mutation of Refused: doRefresh reports success all the same.
RefusedRetries(t) ==
    /\ task[t].pc = "refused"
    /\ Logout(task[t].page)
    /\ thrown' = TRUE
    /\ Go(t, "ask")
    /\ UNCHANGED <<server, moves, smooth>>

\* Mutation of Refused: doRefresh takes the body of any answer.
RefusedBlindly(t) ==
    /\ task[t].pc = "refused"
    /\ Keep(task[t].page, 0)
    /\ task' = [task EXCEPT ![t].pc = "ask", ![t].pair = 0]
    /\ UNCHANGED <<server, moves, history>>

(* doRefresh fails. *)
Refused(t) ==
    /\ task[t].pc = "refused"
    /\ Logout(task[t].page)
    /\ thrown' = TRUE
    /\ Done(t)
    /\ UNCHANGED <<server, moves, smooth>>

(* start() stops no reload. *)
Started(p) == IF page[p].shows = "leaving" THEN "leaving" ELSE "app"

(* A call has its answer; that of /auth/me decides whether the page starts.  *)
Answered(t) ==
    LET p == task[t].page
    IN  /\ task[t].pc \in {"ok", "bad"}
        /\ Done(t)
        /\ CASE task[t].of = "call" -> UNCHANGED <<page, store, thrown>>
             [] task[t].of = "me" /\ task[t].pc = "ok" ->
                  /\ store' = page[p].pair
                  /\ page' = [page EXCEPT ![p].shows = Started(p)]
                  /\ UNCHANGED thrown
             [] OTHER -> Logout(p) /\ thrown' = TRUE
        /\ UNCHANGED <<server, moves, smooth>>

Entered(t) ==
    LET p == task[t].page
    IN  /\ task[t].pc = "entered"
        /\ page' = [page EXCEPT ![p] = [shows |-> Started(p), pair |-> task[t].pair]]
        /\ store' = task[t].pair
        /\ Done(t)
        /\ UNCHANGED <<server, moves, history>>

Progress(t) ==
    \/ ServeAsk(t) \/ ServeCheck(t) \/ ServeExchange(t) \/ ServeLogin(t)
    \/ Denied(t) \/ Renewed(t) \/ Refused(t) \/ Answered(t) \/ Entered(t)

Next ==
    \/ \E p \in Page :
        \/ \E t \in Task : Call(t, p) \/ Login(t, p)
        \/ ClickLogout(p) \/ Unload(p) \/ OpenOrReload(p) \/ Close(p)
    \/ \E t \in Task : Progress(t) \/ Fail(t) \/ Lose(t)
    \/ \E k \in 1..issued : Expire(k)
    \/ \E gone \in SUBSET (1..issued) : Lapse(gone)

Spec == Init /\ [][Next]_vars

(* Every request is answered, and the code behind it runs. *)
FairSpec == Spec /\ \A t \in Task : WF_vars(Progress(t))

-----------------------------------------------------------------------------

(* Nobody is signed out who did not click for it: with one page at a time,   *)
(* one call at a time in an exchange, no failure, no reload in the middle of *)
(* an exchange and no refresh token ended by the server, the page and the    *)
(* storage hold tokens that still work, across any number of expiries of     *)
(* access tokens, reloads and pages opened one by one.                       *)
KeepsSession ==
    smooth =>
        /\ ~thrown
        /\ ~ExchangeUnderWay =>
              /\ store \in live \cup {0}
              /\ \A p \in Page : page[p].shows = "app" => page[p].pair \in live

(* A call ends, however often its token has expired meanwhile. *)
CallEnds == \A t \in Task : task[t].pc # "free" ~> task[t].pc = "free"
=============================================================================
