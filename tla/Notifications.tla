---------------------------- MODULE Notifications ----------------------------
(***************************************************************************)
(* The notifier (services/notify.js), the announcement loop of the admin   *)
(* routes, the routes of notifications.routes.js, and the page that uses   *)
(* them: its badge, its bell and its do-not-disturb switch (web/app.js).   *)
(* One page of one user, Me, is modelled; its HTTP requests may be served  *)
(* and answered in any order, may fail, and may lose their connection.     *)
(***************************************************************************)
EXTENDS Naturals, Sequences, FiniteSets

CONSTANTS
    User,
    Me,         \* the user of the page
    Call,       \* notify() calls and announcements; each happens once
    Ask,        \* slots for the requests of the page under way
    Latest,     \* GET /notifications returns so many rows (100)
    MaxMoves,   \* bound: calls of the notifier and clicks, here and elsewhere
    Nobody

ASSUME NotificationsAssumption ==
    /\ Me \in User
    /\ Nobody \notin User \cup Call
    /\ Latest \in Nat
    /\ MaxMoves \in Nat

VARIABLES
    notifs,     \* the notifications table, in the order of created_at
    prefs,      \* notification_prefs of Me; no row is the same as two falses
    call,       \* the calls of the notifier
    online,     \* the server has a socket of Me in its map
    wire,       \* notification events on the way to the page
    badge,      \* the page: the number shown, 0 if hidden
    dnd,        \* the page: the position of the switch
    ask,        \* the page: its requests under way
    moves,
    exact,      \* history: the badge shows the answer to the last question,
                \* and nothing has changed behind the back of the page since
    synced      \* history: the same of the switch

server == <<notifs, prefs, call, online, wire>>
page   == <<badge, dnd, ask, exact, synced>>
vars   == <<server, page, moves>>

Type == {"message", "incoming_call", "announcement"}

Row == [user: User, type: Type, from: Call \cup {Nobody}, read: BOOLEAN]

CallState ==
    [pc: {"new", "prefs", "insert", "emit", "done", "failed"},
     type: Type,
     user: User \cup {Nobody},      \* the recipient being notified
     todo: SUBSET User,             \* the recipients after that one
     all: SUBSET User,              \* history: the recipients selected
     muted: BOOLEAN,                \* mute_messages decided against an event
     quiet: BOOLEAN]                \* history: an incoming call, and dnd has been on
                                    \* ever since it began to be notified

(* boot: the count of start(), after which it asks for the preferences.      *)
AskState ==
    [pc: {"free", "asked", "answered"},
     kind: {"boot", "count", "list", "readall", "get", "put"},
     count: Nat,
     list: SUBSET Nat,              \* the rows the bell has fetched
     on: BOOLEAN,                   \* the value of dnd to set, or answered
     sure: BOOLEAN]                 \* history: no error, no later question, no
                                    \* later change behind the back of the page

Counts == {"boot", "count"}
Prefs  == {"get", "put"}

Free == [pc |-> "free", kind |-> "count", count |-> 0, list |-> {}, on |-> FALSE,
         sure |-> FALSE]

TypeOK ==
    /\ notifs \in Seq(Row)
    /\ prefs \in [dnd: BOOLEAN, mute: BOOLEAN]
    /\ call \in [Call -> CallState]
    /\ \A c \in Call :
        /\ call[c].pc \in {"prefs", "insert", "emit"} => call[c].user \in User
        /\ call[c].muted => call[c].type = "message"
    /\ online \in BOOLEAN
    /\ wire \subseteq DOMAIN notifs
    /\ badge \in Nat
    /\ dnd \in BOOLEAN
    /\ ask \in [Ask -> AskState]
    /\ \A a \in Ask : ask[a].list \subseteq DOMAIN notifs
    /\ moves \in 0..MaxMoves
    /\ exact \in BOOLEAN
    /\ synced \in BOOLEAN

(* A page is being loaded; what earlier sessions left is in the tables.      *)
Init ==
    /\ \E old \in {0, 1} :
        notifs = [n \in 1..old |->
                    [user |-> Me, type |-> "message", from |-> Nobody, read |-> FALSE]]
    /\ prefs \in [dnd: BOOLEAN, mute: BOOLEAN]
    /\ call = [c \in Call |-> [pc |-> "new", type |-> "message", user |-> Nobody,
                               todo |-> {}, all |-> {}, muted |-> FALSE, quiet |-> FALSE]]
    /\ online = FALSE
    /\ wire = {}
    /\ badge = 0
    /\ dnd = FALSE
    /\ \E a \in Ask :
        ask = [b \in Ask |-> IF b # a THEN Free
                ELSE [Free EXCEPT !.pc = "asked", !.kind = "boot", !.sure = TRUE]]
    /\ moves = 0
    /\ exact = FALSE
    /\ synced = FALSE

Mine(n) == notifs[n].user = Me

Unread == {n \in DOMAIN notifs : Mine(n) /\ ~notifs[n].read}

Move == moves < MaxMoves /\ moves' = moves + 1

(* Something changes that the page is not told of: answers already given are *)
(* out of date.                                                              *)
Voided(kinds) ==
    [a \in Ask |-> [ask[a] EXCEPT
        !.sure = @ /\ ~(ask[a].pc = "answered" /\ ask[a].kind \in kinds)]]

Behind == ask' = Voided(Counts) /\ exact' = FALSE /\ UNCHANGED <<badge, dnd, synced>>

-----------------------------------------------------------------------------
(* The notifier. *)

Begin(c, u, t, rest) ==
    call' = [call EXCEPT ![c] =
        [pc |-> "prefs", type |-> t, user |-> u, todo |-> rest, all |-> rest \cup {u},
         muted |-> FALSE, quiet |-> t = "incoming_call" /\ prefs.dnd]]

(* A message or a call: the socket server notifies one user.  What others    *)
(* are notified of is not seen by the page.                                  *)
Notify(c) ==
    /\ call[c].pc = "new"
    /\ Move
    /\ \E t \in Type \ {"announcement"} : Begin(c, Me, t, {})
    /\ UNCHANGED <<notifs, prefs, online, wire, page>>

(* POST /admin/announce: the recipients are selected, then notified one by   *)
(* one, in the order of a select without order by.                           *)
Announce(c) ==
    /\ call[c].pc = "new"
    /\ Move
    /\ \E u \in User, to \in SUBSET User : Begin(c, u, "announcement", to \ {u})
    /\ UNCHANGED <<notifs, prefs, online, wire, page>>

(* The call for one recipient returns; an announcement goes on to the next.  *)
Return(c) ==
    IF call[c].todo = {}
    THEN call' = [call EXCEPT ![c].pc = "done", ![c].muted = FALSE]
    ELSE \E u \in call[c].todo :
            call' = [call EXCEPT ![c].pc = "prefs", ![c].user = u, ![c].todo = @ \ {u}]

(* Nobody but Me has set any preferences. *)
PrefsOf(u) == IF u = Me THEN prefs ELSE [dnd |-> FALSE, mute |-> FALSE]

\* Mutations of Silenced: the wrong preference; every type.
SilencedByMute(p, t) == t = "incoming_call" /\ p.mute
SilencedAll(p, t) == p.dnd

Silenced(p, t) == t = "incoming_call" /\ p.dnd

\* Mutation of Muted: the test of the type is dropped.
MutedAll(p, t) == p.mute

Muted(p, t) == t = "message" /\ p.mute

(* The preference gate. *)
Gate(c) ==
    LET p == PrefsOf(call[c].user) IN
    /\ call[c].pc = "prefs"
    /\ IF Silenced(p, call[c].type) THEN Return(c)
       ELSE call' = [call EXCEPT ![c].pc = "insert", ![c].muted = Muted(p, call[c].type)]
    /\ UNCHANGED <<notifs, prefs, online, wire, page, moves>>

Insert(c) ==
    /\ call[c].pc = "insert"
    /\ notifs' = Append(notifs, [user |-> call[c].user, type |-> call[c].type,
                                 from |-> c, read |-> FALSE])
    /\ call' = [call EXCEPT ![c].pc = "emit"]
    /\ UNCHANGED <<prefs, online, wire, page, moves>>

\* Mutation of Reaches: under do-not-disturb nothing is emitted at all.
ReachesUnlessDnd(c) == ~call[c].muted /\ online /\ ~prefs.dnd

(* Whether a row for Me that has just been inserted is emitted to the page.  *)
Reaches(c) == ~call[c].muted /\ online

(* The insert has returned the row: it goes to the sockets in the map.       *)
Emit(c) ==
    LET told == Reaches(c) IN
    /\ call[c].pc = "emit"
    /\ Return(c)
    /\ IF call[c].user # Me THEN UNCHANGED <<wire, page>>
       ELSE \E n \in DOMAIN notifs :
            /\ notifs[n].from = c /\ Mine(n)
            /\ wire' = IF told THEN wire \cup {n} ELSE wire
            /\ IF call[c].muted \/ ~online THEN Behind ELSE UNCHANGED page
    /\ UNCHANGED <<notifs, prefs, online, moves>>

FailCall(c) ==
    /\ call[c].pc \in {"prefs", "insert"}
    /\ call' = [call EXCEPT ![c].pc = "failed", ![c].todo = {}, ![c].muted = FALSE]
    /\ UNCHANGED <<notifs, prefs, online, wire, page, moves>>

-----------------------------------------------------------------------------
(* The page asks.  A new request is sure of its answer, and the earlier ones *)
(* of its kinds are overtaken; two requests about the switch that overlap    *)
(* may be served in either order, and neither is sure.                       *)

Asked(a, kinds, new) ==
    LET before == {b \in Ask \ {a} : ask[b].pc # "free" /\ ask[b].kind \in kinds} IN
    [b \in Ask |->
        IF b = a THEN [new EXCEPT !.pc = "asked",
                                  !.sure = new.kind \in Prefs => before = {}]
        ELSE [ask[b] EXCEPT !.sure = @ /\ b \notin before]]

(* Events on a connection that breaks are lost. *)
Connect ==
    /\ ~online /\ online' = TRUE
    /\ UNCHANGED <<notifs, prefs, call, wire, page, moves>>

Disconnect ==
    /\ online /\ online' = FALSE
    /\ wire' = {}
    /\ IF wire # {} THEN Behind ELSE UNCHANGED page
    /\ UNCHANGED <<notifs, prefs, call, moves>>

(* socket.on('notification'): refreshBadge *)
Deliver(a) ==
    /\ ask[a].pc = "free"
    /\ \E n \in wire : wire' = wire \ {n}
    /\ ask' = Asked(a, Counts, Free)
    /\ UNCHANGED <<notifs, prefs, call, online, badge, dnd, exact, synced, moves>>

(* A click on the bell. *)
Bell(a) ==
    /\ ask[a].pc = "free"
    /\ Move
    /\ ask' = Asked(a, {"list"}, [Free EXCEPT !.kind = "list"])
    /\ UNCHANGED <<server, badge, dnd, exact, synced>>

(* A click on the switch, which moves at once. *)
Toggle(a) ==
    /\ ask[a].pc = "free"
    /\ Move
    /\ dnd' = ~dnd
    /\ ask' = Asked(a, Prefs, [Free EXCEPT !.kind = "put", !.on = ~dnd])
    /\ UNCHANGED <<server, badge, exact, synced>>

-----------------------------------------------------------------------------
(* The server answers.  Authentication and the one statement of a route are  *)
(* one step: nothing the statement reads is read before it.                  *)

(* order by created_at desc limit 100 *)
Newest == {n \in DOMAIN notifs :
             Mine(n) /\ Cardinality({k \in n..Len(notifs) : Mine(k)}) <= Latest}

\* Mutation of ReadAll: the oldest row only.
ReadOne == [n \in DOMAIN notifs |->
              [notifs[n] EXCEPT !.read = @ \/ (Mine(n) /\ \A k \in Unread : k >= n)]]

ReadAll == [n \in DOMAIN notifs |-> [notifs[n] EXCEPT !.read = @ \/ Mine(n)]]

\* Mutation of SetDnd: an or in the place of coalesce, which never sets false.
SetDndOr(on) ==
    /\ prefs' = [prefs EXCEPT !.dnd = @ \/ on]
    /\ call' = [c \in Call |-> [call[c] EXCEPT !.quiet = @ /\ on]]

SetDnd(on) ==
    /\ prefs' = [prefs EXCEPT !.dnd = on]
    /\ call' = [c \in Call |-> [call[c] EXCEPT !.quiet = @ /\ on]]

Answered(a) == [ask[a] EXCEPT !.pc = "answered"]

Serve(a) ==
    /\ ask[a].pc = "asked"
    /\ \/ /\ ask[a].kind \in Counts
          /\ ask' = [ask EXCEPT ![a] = [Answered(a) EXCEPT !.count = Cardinality(Unread)]]
          /\ UNCHANGED <<notifs, prefs, call>>
       \/ /\ ask[a].kind = "list"
          /\ ask' = [ask EXCEPT ![a] = [Answered(a) EXCEPT !.list = Newest]]
          /\ UNCHANGED <<notifs, prefs, call>>
       \/ /\ ask[a].kind = "readall"
          /\ notifs' = ReadAll
          /\ ask' = [ask EXCEPT ![a] = Answered(a)]
          /\ UNCHANGED <<prefs, call>>
       \/ /\ ask[a].kind = "get"
          /\ ask' = [ask EXCEPT ![a] = [Answered(a) EXCEPT !.on = prefs.dnd]]
          /\ UNCHANGED <<notifs, prefs, call>>
       \/ /\ ask[a].kind = "put"
          /\ SetDnd(ask[a].on)
          /\ ask' = [ask EXCEPT ![a] = Answered(a)]
          /\ UNCHANGED notifs
    /\ UNCHANGED <<online, wire, badge, dnd, exact, synced, moves>>

(* A 500: its body has no count, which hides the badge, no list, which leaves *)
(* the panel empty, and no preference, which moves the switch to off.         *)
ServeError(a) ==
    /\ ask[a].pc = "asked"
    /\ ask' = [ask EXCEPT ![a] = [Answered(a) EXCEPT !.sure = FALSE, !.list = {},
                                    !.on = ask[a].on /\ ask[a].kind = "put"]]
    /\ UNCHANGED <<server, badge, dnd, exact, synced, moves>>

-----------------------------------------------------------------------------
(* The answers reach the page. *)

Apply(a) ==
    /\ ask[a].pc = "answered"
    /\ \/ /\ ask[a].kind \in Counts
          /\ badge' = ask[a].count
          /\ exact' = ask[a].sure
          /\ ask' = IF ask[a].kind = "count" THEN [ask EXCEPT ![a] = Free]
                    ELSE Asked(a, Prefs, [Free EXCEPT !.kind = "get"])
          /\ UNCHANGED <<dnd, synced>>
       \/ /\ ask[a].kind = "list"          \* fetched: now mark everything read
          /\ ask' = Asked(a, {}, [ask[a] EXCEPT !.kind = "readall"])
          /\ UNCHANGED <<badge, dnd, exact, synced>>
       \/ /\ ask[a].kind = "readall"       \* refreshBadge, and draw the list
          /\ ask' = Asked(a, Counts, Free)
          /\ UNCHANGED <<badge, dnd, exact, synced>>
       \/ /\ ask[a].kind \in Prefs
          /\ dnd' = IF ask[a].kind = "get" THEN ask[a].on ELSE dnd
          /\ synced' = ask[a].sure
          /\ ask' = [ask EXCEPT ![a] = Free]
          /\ UNCHANGED <<badge, exact>>
    /\ UNCHANGED <<server, moves>>

(* The connection of a request breaks, before or after it was served: what   *)
(* waits for the answer never goes on.                                       *)
Lose(a) ==
    /\ ask[a].pc # "free"
    /\ ask' = [(IF ask[a].kind = "readall" THEN Voided(Counts) ELSE ask) EXCEPT ![a] = Free]
    /\ exact' = (exact /\ ask[a].kind \notin Counts \cup {"readall"})
    /\ synced' = (synced /\ ask[a].kind \notin Prefs)
    /\ UNCHANGED <<server, badge, dnd, moves>>

(* Other pages and clients of the same account: POST /:id/read, PUT /prefs.  *)
ReadElsewhere ==
    /\ Move
    /\ \E n \in Unread : notifs' = [notifs EXCEPT ![n].read = TRUE]
    /\ Behind
    /\ UNCHANGED <<prefs, call, online, wire>>

DndElsewhere ==
    /\ Move
    /\ SetDnd(~prefs.dnd)
    /\ ask' = Voided(Prefs)
    /\ synced' = FALSE
    /\ UNCHANGED <<notifs, online, wire, badge, dnd, exact>>

MuteElsewhere ==
    /\ Move
    /\ prefs' = [prefs EXCEPT !.mute = ~@]
    /\ UNCHANGED <<notifs, call, online, wire, page>>

Next ==
    \/ \E c \in Call :
        Notify(c) \/ Announce(c) \/ Gate(c) \/ Insert(c) \/ Emit(c) \/ FailCall(c)
    \/ \E a \in Ask :
        \/ Deliver(a) \/ Bell(a) \/ Toggle(a)
        \/ Serve(a) \/ ServeError(a) \/ Apply(a) \/ Lose(a)
    \/ Connect \/ Disconnect
    \/ ReadElsewhere \/ DndElsewhere \/ MuteElsewhere

Spec == Init /\ [][Next]_vars

-----------------------------------------------------------------------------
(* What the page and the notifier promise. *)

Asking(kinds) == \E a \in Ask : ask[a].pc # "free" /\ ask[a].kind \in kinds

(* The badge is the number of unread rows whenever nothing is under way, if  *)
(* the last question was the last to be answered and nothing happened behind *)
(* the back of the page: a muted message, another page, a broken connection. *)
BadgeCurrent ==
    (/\ exact
     /\ wire = {}
     /\ ~Asking(Counts \cup {"readall"})
     /\ \A c \in Call : call[c].pc = "emit" => call[c].user # Me)
    => badge = Cardinality(Unread)

(* The switch shows what the notifier will go by, unless two requests about  *)
(* it overlapped, one failed, or another page moved it.                      *)
SwitchCurrent == (synced /\ ~Asking(Prefs)) => dnd = prefs.dnd

(* What the panel is about to show is read: the list was fetched before the  *)
(* rows were marked, so the badge counts no row that is shown.               *)
BellReads ==
    \A a \in Ask :
        (ask[a].kind = "readall" /\ ask[a].pc = "answered")
        => ask[a].list \cap Unread = {}

(* docs/API.md: "DND silences call alerts".  No call notified while dnd was  *)
(* on from the beginning has left a row, whatever else was set meanwhile.    *)
NoCallUnderDnd ==
    \A n \in DOMAIN notifs :
        notifs[n].type = "incoming_call" => ~call[notifs[n].from].quiet

(* An announcement that was answered with a number has one row for each of   *)
(* so many recipients, whatever their preferences; one that failed has at    *)
(* most one for each.                                                        *)
AnnouncedOnce ==
    \A c \in Call, u \in User :
        LET rows == {n \in DOMAIN notifs : notifs[n].from = c /\ notifs[n].user = u} IN
        /\ Cardinality(rows) <= 1
        /\ (call[c].type = "announcement" /\ call[c].pc = "done" /\ u \in call[c].all)
           => rows # {}
=============================================================================
