-------------------------- MODULE NotificationsProofs --------------------------
(***************************************************************************)
(* What the notifier and its page promise, for any users, notifier calls   *)
(* and requests.  Three invariants are proved one on top of the other: the *)
(* types, what the calls of the notifier have left in the table, and what  *)
(* the page may conclude from the answers it gets, in whatever order.      *)
(***************************************************************************)
EXTENDS Notifications, FiniteSetTheorems, SequenceTheorems, TLAPS

USE NotificationsAssumption

-----------------------------------------------------------------------------
(* The table is a sequence that grows at its end. *)

LEMMA Table ==
  ASSUME NEW s \in Seq(Row)
  PROVE  Len(s) \in Nat /\ DOMAIN s = 1..Len(s) /\ s \in [1..Len(s) -> Row]
BY LenProperties

LEMMA TableOf ==
  ASSUME NEW n \in Nat, NEW s \in [1..n -> Row]
  PROVE  s \in Seq(Row) /\ Len(s) = n
BY SeqDef

LEMMA UnreadFinite ==
  ASSUME notifs \in Seq(Row)
  PROVE  Cardinality(Unread) \in Nat
<1>1. IsFiniteSet(1..Len(notifs)) /\ Unread \subseteq 1..Len(notifs)
  <2>1. Len(notifs) \in Nat /\ DOMAIN notifs = 1..Len(notifs)
    BY Table
  <2>2. IsFiniteSet(1..Len(notifs))
    BY <2>1, FS_Interval
  <2> QED  BY <2>1, <2>2 DEF Unread
<1>2. IsFiniteSet(Unread)
  BY <1>1, FS_Subset
<1> QED  BY <1>2, FS_CardinalityType

LEMMA Appended ==
  ASSUME notifs \in Seq(Row), NEW row \in Row, notifs' = Append(notifs, row)
  PROVE  /\ notifs' \in Seq(Row) /\ Len(notifs) \in Nat
         /\ DOMAIN notifs = 1..Len(notifs)
         /\ DOMAIN notifs' = DOMAIN notifs \cup {Len(notifs) + 1}
         /\ Len(notifs) + 1 \notin DOMAIN notifs
         /\ \A n \in DOMAIN notifs : notifs'[n] = notifs[n]
         /\ notifs'[Len(notifs) + 1] = row
<1>1. /\ notifs' \in Seq(Row) /\ Len(notifs') = Len(notifs) + 1
      /\ \A i \in 1..Len(notifs) : notifs'[i] = notifs[i]
      /\ notifs'[Len(notifs) + 1] = row
  BY AppendProperties
<1>2. /\ Len(notifs) \in Nat /\ DOMAIN notifs = 1..Len(notifs)
      /\ DOMAIN notifs' = 1..(Len(notifs) + 1)
  BY <1>1, Table
<1> QED  BY <1>1, <1>2

(* Rows are only marked. *)
Marked ==
    /\ DOMAIN notifs' = DOMAIN notifs
    /\ \A n \in DOMAIN notifs :
          /\ notifs'[n].user = notifs[n].user /\ notifs'[n].type = notifs[n].type
          /\ notifs'[n].from = notifs[n].from
          /\ notifs[n].read => notifs'[n].read

LEMMA ReadAllMarks ==
  ASSUME notifs \in Seq(Row), notifs' = ReadAll
  PROVE  notifs' \in Seq(Row) /\ Marked /\ Unread' = {}
<1>1. /\ Len(notifs) \in Nat /\ DOMAIN notifs = 1..Len(notifs)
      /\ \A n \in DOMAIN notifs : notifs[n] \in Row
  BY Table
<1>2. ASSUME NEW n \in DOMAIN notifs
      PROVE  /\ notifs'[n] \in Row
             /\ notifs'[n].user = notifs[n].user /\ notifs'[n].type = notifs[n].type
             /\ notifs'[n].from = notifs[n].from
             /\ notifs[n].read => notifs'[n].read
             /\ notifs[n].user = Me => notifs'[n].read
  <2>1. PICK read \in BOOLEAN : read = (notifs[n].read \/ Mine(n))
    BY <1>1 DEF Row, Mine
  <2>2. notifs'[n] = [notifs[n] EXCEPT !.read = read]
    BY <2>1 DEF ReadAll
  <2> QED  BY <1>1, <2>1, <2>2 DEF Row, Mine
<1>3. DOMAIN notifs' = DOMAIN notifs /\ notifs' \in [1..Len(notifs) -> Row]
  BY <1>1, <1>2 DEF ReadAll
<1> QED  BY <1>1, <1>2, <1>3, TableOf DEF Marked, Unread, Mine

LEMMA ReadOneMarks ==
  ASSUME notifs \in Seq(Row), NEW n \in DOMAIN notifs,
         notifs' = [notifs EXCEPT ![n].read = TRUE]
  PROVE  notifs' \in Seq(Row) /\ Marked
<1>1. /\ Len(notifs) \in Nat /\ DOMAIN notifs = 1..Len(notifs)
      /\ \A m \in DOMAIN notifs : notifs[m] \in Row
  BY Table
<1>2. /\ notifs'[n] \in Row /\ notifs'[n].user = notifs[n].user
      /\ notifs'[n].type = notifs[n].type /\ notifs'[n].from = notifs[n].from
      /\ notifs'[n].read
  BY <1>1 DEF Row
<1>3. DOMAIN notifs' = DOMAIN notifs /\ \A m \in DOMAIN notifs \ {n} : notifs'[m] = notifs[m]
  BY <1>1
<1>4. notifs' \in [1..Len(notifs) -> Row]
  BY <1>1, <1>2, <1>3, Table
<1> QED  BY <1>1, <1>2, <1>3, <1>4, TableOf DEF Marked

-----------------------------------------------------------------------------
(* What becomes of the requests of the page. *)

(* A request is as it was, but perhaps less sure. *)
Kept(x, y) ==
    /\ y.pc = x.pc /\ y.kind = x.kind /\ y.count = x.count /\ y.list = x.list /\ y.on = x.on
    /\ y.sure => x.sure

LEMMA AskedFacts ==
  ASSUME ask \in [Ask -> AskState], NEW a \in Ask, NEW kinds, NEW new \in AskState
  PROVE  /\ Asked(a, kinds, new) \in [Ask -> AskState]
         /\ Asked(a, kinds, new)[a].pc = "asked" /\ Asked(a, kinds, new)[a].kind = new.kind
         /\ Asked(a, kinds, new)[a].list = new.list /\ Asked(a, kinds, new)[a].on = new.on
         /\ (Asked(a, kinds, new)[a].sure /\ new.kind \in Prefs) =>
                \A d \in Ask \ {a} : ask[d].pc = "free" \/ ask[d].kind \notin kinds
         /\ \A b \in Ask \ {a} :
               /\ Kept(ask[b], Asked(a, kinds, new)[b])
               /\ Asked(a, kinds, new)[b].sure => ask[b].pc = "free" \/ ask[b].kind \notin kinds
<1> DEFINE before == {b \in Ask \ {a} : ask[b].pc # "free" /\ ask[b].kind \in kinds}
           after == Asked(a, kinds, new)
<1>1. /\ after[a] \in AskState
      /\ after[a].pc = "asked" /\ after[a].kind = new.kind
      /\ after[a].list = new.list /\ after[a].on = new.on
      /\ (after[a].sure /\ new.kind \in Prefs) => before = {}
  <2>1. PICK sure \in BOOLEAN : sure = (new.kind \in Prefs => before = {})
    OBVIOUS
  <2>2. after[a] = [new EXCEPT !.pc = "asked", !.sure = sure]
    BY <2>1 DEF Asked
  <2> HIDE DEF after, before
  <2> QED  BY <2>1, <2>2 DEF AskState
<1>2. ASSUME NEW b \in Ask \ {a}
      PROVE  after[b] \in AskState /\ Kept(ask[b], after[b]) /\ (after[b].sure => b \notin before)
  <2>1. ask[b] \in AskState
    OBVIOUS
  <2>2. PICK sure \in BOOLEAN : sure = (ask[b].sure /\ b \notin before)
    BY <2>1 DEF AskState
  <2>3. after[b] = [ask[b] EXCEPT !.sure = sure]
    BY <2>2 DEF Asked
  <2> HIDE DEF after, before
  <2> QED  BY <2>1, <2>2, <2>3 DEF AskState, Kept
<1>3. after \in [Ask -> AskState]
  <2>1. \A b \in Ask : after[b] \in AskState
    BY <1>1, <1>2
  <2> QED  BY <2>1 DEF Asked
<1> QED  BY <1>1, <1>2, <1>3

LEMMA VoidedFacts ==
  ASSUME ask \in [Ask -> AskState], NEW kinds
  PROVE  /\ Voided(kinds) \in [Ask -> AskState]
         /\ \A b \in Ask :
               /\ Kept(ask[b], Voided(kinds)[b])
               /\ Voided(kinds)[b].sure => ask[b].pc # "answered" \/ ask[b].kind \notin kinds
<1>1. ASSUME NEW b \in Ask
      PROVE  /\ Voided(kinds)[b] \in AskState /\ Kept(ask[b], Voided(kinds)[b])
             /\ Voided(kinds)[b].sure => ask[b].pc # "answered" \/ ask[b].kind \notin kinds
  <2>1. ask[b] \in AskState
    OBVIOUS
  <2>2. PICK sure \in BOOLEAN :
            sure = (ask[b].sure /\ ~(ask[b].pc = "answered" /\ ask[b].kind \in kinds))
    BY <2>1 DEF AskState
  <2>3. Voided(kinds)[b] = [ask[b] EXCEPT !.sure = sure]
    BY <2>2 DEF Voided
  <2> QED  BY <2>1, <2>2, <2>3 DEF AskState, Kept
<1>2. Voided(kinds) \in [Ask -> AskState]
  BY <1>1 DEF Voided
<1> QED  BY <1>1, <1>2

LEMMA FreeFacts ==
  /\ Free \in AskState /\ Free.pc = "free" /\ Free.kind = "count" /\ Free.list = {}
  /\ Free.on = FALSE
BY DEF Free, AskState

-----------------------------------------------------------------------------
(* The types. *)

CallTyped(x) ==
    /\ x \in CallState
    /\ x.pc \in {"prefs", "insert", "emit"} => x.user \in User
    /\ x.muted => x.type = "message"

LEMMA BeginFacts ==
  ASSUME TypeOK, NEW c \in Call, NEW u \in User, NEW t \in Type, NEW rest \in SUBSET User,
         Begin(c, u, t, rest)
  PROVE  /\ call' \in [Call -> CallState] /\ CallTyped(call'[c])
         /\ call'[c].pc = "prefs" /\ call'[c].type = t /\ call'[c].user = u
         /\ call'[c].todo = rest /\ call'[c].all = rest \cup {u}
         /\ call'[c].quiet => t = "incoming_call" /\ prefs.dnd
         /\ \A d \in Call \ {c} : call'[d] = call[d]
<1>1. PICK quiet \in BOOLEAN : quiet = (t = "incoming_call" /\ prefs.dnd)
  BY DEF TypeOK
<1>2. PICK x : x = [pc |-> "prefs", type |-> t, user |-> u, todo |-> rest,
                    all |-> rest \cup {u}, muted |-> FALSE, quiet |-> quiet]
  OBVIOUS
<1>3. x \in CallState /\ CallTyped(x)
  BY <1>1, <1>2 DEF CallState, CallTyped
<1>4. call' = [call EXCEPT ![c] = x]
  BY <1>1, <1>2 DEF Begin
<1> QED  BY <1>1, <1>2, <1>3, <1>4 DEF TypeOK

LEMMA ReturnFacts ==
  ASSUME TypeOK, NEW c \in Call, Return(c)
  PROVE  /\ call' \in [Call -> CallState] /\ CallTyped(call'[c])
         /\ call'[c].type = call[c].type /\ call'[c].all = call[c].all
         /\ call'[c].quiet = call[c].quiet
         /\ \/ call[c].todo = {} /\ call'[c].pc = "done" /\ call'[c].todo = {}
            \/ /\ call'[c].pc = "prefs" /\ call'[c].user \in call[c].todo
               /\ call'[c].todo = call[c].todo \ {call'[c].user}
         /\ \A d \in Call \ {c} : call'[d] = call[d]
<1>1. call \in [Call -> CallState] /\ call[c] \in CallState /\ CallTyped(call[c])
  BY DEF TypeOK, CallTyped
<1>2. CASE call[c].todo = {}
  <2>1. PICK x : x = [call[c] EXCEPT !.pc = "done", !.muted = FALSE]
    OBVIOUS
  <2>2. /\ x \in CallState /\ x.pc = "done" /\ ~x.muted /\ x.todo = {}
        /\ x.type = call[c].type /\ x.all = call[c].all /\ x.quiet = call[c].quiet
    BY <1>1, <1>2, <2>1 DEF CallState
  <2>3. call' = [call EXCEPT ![c] = x]
    BY <1>1, <1>2, <2>1 DEF Return
  <2> QED  BY <1>1, <1>2, <2>2, <2>3 DEF CallTyped
<1>3. CASE call[c].todo # {}
  <2>1. PICK u \in call[c].todo :
          call' = [call EXCEPT ![c].pc = "prefs", ![c].user = u, ![c].todo = @ \ {u}]
    BY <1>3 DEF Return
  <2>2. PICK x : x = [call[c] EXCEPT !.pc = "prefs", !.user = u, !.todo = @ \ {u}]
    OBVIOUS
  <2>3. u \in User
    BY <1>1 DEF CallState
  <2>4. /\ x \in CallState /\ x.pc = "prefs" /\ x.user = u /\ x.todo = call[c].todo \ {u}
        /\ x.type = call[c].type /\ x.all = call[c].all /\ x.quiet = call[c].quiet
        /\ x.muted = call[c].muted
    BY <1>1, <2>2, <2>3 DEF CallState
  <2>5. call' = [call EXCEPT ![c] = x]
    BY <1>1, <2>1, <2>2
  <2> QED  BY <1>1, <2>3, <2>4, <2>5 DEF CallTyped
<1> QED  BY <1>2, <1>3

(* One call goes on to its next statement for the same recipient, or fails.  *)
LEMMA GoFacts ==
  ASSUME TypeOK, NEW c \in Call, NEW x, NEW pc \in {"insert", "emit", "failed"},
         NEW todo \in SUBSET User, NEW muted \in BOOLEAN, muted => call[c].type = "message",
         call[c].pc \in {"prefs", "insert"},
         x = [call[c] EXCEPT !.pc = pc, !.todo = todo, !.muted = muted],
         call' = [call EXCEPT ![c] = x]
  PROVE  /\ call' \in [Call -> CallState] /\ CallTyped(call'[c])
         /\ call'[c].pc = pc /\ call'[c].user = call[c].user /\ call'[c].todo = todo
         /\ call'[c].type = call[c].type /\ call'[c].all = call[c].all
         /\ call'[c].quiet = call[c].quiet
         /\ \A d \in Call \ {c} : call'[d] = call[d]
<1>1. call \in [Call -> CallState] /\ call[c] \in CallState /\ CallTyped(call[c])
  BY DEF TypeOK, CallTyped
<1>2. /\ x \in CallState /\ x.pc = pc /\ x.user = call[c].user /\ x.todo = todo
      /\ x.type = call[c].type /\ x.all = call[c].all /\ x.quiet = call[c].quiet
      /\ x.muted = muted
  BY <1>1 DEF CallState
<1> QED  BY <1>1, <1>2 DEF CallTyped

LEMMA QuietFacts ==
  ASSUME TypeOK, NEW on \in BOOLEAN, SetDnd(on)
  PROVE  /\ prefs' \in [dnd: BOOLEAN, mute: BOOLEAN] /\ prefs'.dnd = on
         /\ prefs'.mute = prefs.mute
         /\ call' \in [Call -> CallState]
         /\ \A c \in Call :
               /\ CallTyped(call'[c])
               /\ call'[c].pc = call[c].pc /\ call'[c].type = call[c].type
               /\ call'[c].user = call[c].user /\ call'[c].todo = call[c].todo
               /\ call'[c].all = call[c].all
               /\ call'[c].quiet => call[c].quiet /\ on
<1>1. prefs \in [dnd: BOOLEAN, mute: BOOLEAN] /\ prefs' = [prefs EXCEPT !.dnd = on]
  BY DEF SetDnd, TypeOK
<1>2. ASSUME NEW c \in Call
      PROVE  /\ call'[c] \in CallState /\ CallTyped(call'[c])
             /\ call'[c].pc = call[c].pc /\ call'[c].type = call[c].type
             /\ call'[c].user = call[c].user /\ call'[c].todo = call[c].todo
             /\ call'[c].all = call[c].all
             /\ call'[c].quiet => call[c].quiet /\ on
  <2>1. call[c] \in CallState /\ CallTyped(call[c])
    BY DEF TypeOK, CallTyped
  <2>2. PICK quiet \in BOOLEAN : quiet = (call[c].quiet /\ on)
    BY <2>1 DEF CallState
  <2>3. call'[c] = [call[c] EXCEPT !.quiet = quiet]
    BY <2>2 DEF SetDnd
  <2> QED  BY <2>1, <2>2, <2>3 DEF CallState, CallTyped
<1>3. call' \in [Call -> CallState]
  BY <1>2 DEF SetDnd
<1> QED  BY <1>1, <1>2, <1>3

LEMMA InitTypeOK == Init => TypeOK
<1> SUFFICES ASSUME Init PROVE TypeOK
  OBVIOUS
<1>1. notifs \in Seq(Row)
  <2>1. PICK old \in {0, 1} :
          notifs = [n \in 1..old |->
                      [user |-> Me, type |-> "message", from |-> Nobody, read |-> FALSE]]
    BY DEF Init
  <2>2. notifs \in [1..old -> Row]
    BY <2>1 DEF Row, Type
  <2> QED  BY <2>2, TableOf
<1>2. call \in [Call -> CallState] /\ \A c \in Call : CallTyped(call[c])
  <2>1. PICK x : x = [pc |-> "new", type |-> "message", user |-> Nobody, todo |-> {},
                      all |-> {}, muted |-> FALSE, quiet |-> FALSE]
    OBVIOUS
  <2>2. x \in CallState /\ CallTyped(x)
    BY <2>1 DEF CallState, CallTyped, Type
  <2> QED  BY <2>1, <2>2 DEF Init
<1>3. ask \in [Ask -> AskState] /\ \A b \in Ask : ask[b].list = {}
  <2>1. PICK a \in Ask :
          ask = [b \in Ask |-> IF b # a THEN Free
                   ELSE [Free EXCEPT !.pc = "asked", !.kind = "boot", !.sure = TRUE]]
    BY DEF Init
  <2>2. PICK x : x = [Free EXCEPT !.pc = "asked", !.kind = "boot", !.sure = TRUE]
    OBVIOUS
  <2>3. x \in AskState /\ x.list = {}
    BY <2>2, FreeFacts DEF AskState
  <2> QED  BY <2>1, <2>2, <2>3, FreeFacts
<1>4. /\ prefs \in [dnd: BOOLEAN, mute: BOOLEAN] /\ online = FALSE /\ wire = {}
      /\ badge = 0 /\ dnd = FALSE /\ moves = 0 /\ exact = FALSE /\ synced = FALSE
  BY DEF Init
<1>5. \A c \in Call :
        /\ call[c].pc \in {"prefs", "insert", "emit"} => call[c].user \in User
        /\ call[c].muted => call[c].type = "message"
  BY <1>2 DEF CallTyped
<1>6. \A b \in Ask : ask[b].list \subseteq DOMAIN notifs
  BY <1>3
<1>7. /\ online \in BOOLEAN /\ wire \subseteq DOMAIN notifs /\ badge \in Nat /\ dnd \in BOOLEAN
      /\ exact \in BOOLEAN /\ synced \in BOOLEAN
  BY <1>4
<1>8. moves \in 0..MaxMoves
  BY <1>4
<1> QED  BY <1>1, <1>2, <1>3, <1>4, <1>5, <1>6, <1>7, <1>8 DEF TypeOK

-----------------------------------------------------------------------------
(* What the calls of the notifier leave in the table. *)

Told(c, u) == \E n \in DOMAIN notifs : notifs[n].from = c /\ notifs[n].user = u

CallInv(c) ==
    /\ call[c].pc = "new" => ~call[c].quiet
    /\ call[c].pc = "done" => call[c].todo = {}
    /\ call[c].pc \in {"prefs", "insert", "emit"} => call[c].user \notin call[c].todo
    /\ (call[c].type = "incoming_call" /\ call[c].pc \in {"prefs", "insert", "emit"}) =>
           call[c].user = Me /\ call[c].todo = {}
    /\ (call[c].type = "incoming_call" /\ call[c].pc = "insert") => ~call[c].quiet
    /\ call[c].quiet => prefs.dnd
    /\ (call[c].type = "announcement" /\ call[c].pc \in {"prefs", "insert", "emit", "done"}) =>
           \A u \in call[c].all : \/ u \in call[c].todo
                                  \/ u = call[c].user /\ call[c].pc \in {"prefs", "insert"}
                                  \/ Told(c, u)

RowInv(n) ==
    /\ notifs[n].type = "incoming_call" =>
           notifs[n].from \in Call /\ ~call[notifs[n].from].quiet
    /\ notifs[n].from \in Call =>
           LET x == call[notifs[n].from] IN
           /\ x.pc # "new" /\ notifs[n].user \notin x.todo
           /\ x.pc \in {"prefs", "insert"} => x.user # notifs[n].user
           /\ \A m \in DOMAIN notifs :
                 (notifs[m].from = notifs[n].from /\ notifs[m].user = notifs[n].user) => m = n

NotifierInv == (\A c \in Call : CallInv(c)) /\ (\A n \in DOMAIN notifs : RowInv(n))

(* What the page may conclude.  Nothing is on the way to the badge, and no   *)
(* marking has been done that the page has not heard of.                     *)
Calm ==
    /\ wire = {}
    /\ \A c \in Call : call[c].pc = "emit" => call[c].user # Me
    /\ \A b \in Ask : ~(ask[b].pc = "answered" /\ ask[b].kind = "readall")

BellOf(b) ==
    (ask[b].pc = "answered" /\ ask[b].kind = "readall") => ask[b].list \cap Unread = {}

CountOf(b) ==
    (Calm /\ ask[b].pc = "answered" /\ ask[b].kind \in Counts /\ ask[b].sure) =>
        ask[b].count = Cardinality(Unread)

SwitchOf(b) ==
    (ask[b].pc # "free" /\ ask[b].kind \in Prefs /\ ask[b].sure) =>
        /\ \A d \in Ask \ {b} : ask[d].pc = "free" \/ ask[d].kind \notin Prefs
        /\ ask[b].kind = "put" => dnd = ask[b].on
        /\ ask[b].pc = "answered" => prefs.dnd = ask[b].on

BadgeKnown == (exact /\ Calm /\ ~Asking(Counts)) => badge = Cardinality(Unread)

PageInv ==
    /\ \A b \in Ask : BellOf(b) /\ CountOf(b) /\ SwitchOf(b)
    /\ BadgeKnown /\ SwitchCurrent

IInv == TypeOK /\ NotifierInv /\ PageInv

-----------------------------------------------------------------------------

LEMMA IInvImplies ==
  IInv => TypeOK /\ BadgeCurrent /\ SwitchCurrent /\ BellReads /\ NoCallUnderDnd /\ AnnouncedOnce
<1> SUFFICES ASSUME IInv
             PROVE  /\ TypeOK /\ BadgeCurrent /\ SwitchCurrent /\ BellReads /\ NoCallUnderDnd
                    /\ AnnouncedOnce
  OBVIOUS
<1>1. BadgeCurrent
  BY DEF IInv, PageInv, BadgeKnown, Calm, Asking, Counts, BadgeCurrent
<1>2. BellReads
  BY DEF IInv, PageInv, BellOf, BellReads
<1>3. NoCallUnderDnd
  BY DEF IInv, NotifierInv, RowInv, NoCallUnderDnd
<1>4. AnnouncedOnce
  <2> SUFFICES ASSUME NEW c \in Call, NEW u \in User
               PROVE  LET rows == {n \in DOMAIN notifs : notifs[n].from = c /\ notifs[n].user = u}
                      IN  /\ Cardinality(rows) <= 1
                          /\ (call[c].type = "announcement" /\ call[c].pc = "done"
                              /\ u \in call[c].all) => rows # {}
    BY DEF AnnouncedOnce
  <2> DEFINE rows == {n \in DOMAIN notifs : notifs[n].from = c /\ notifs[n].user = u}
  <2>1. \A m, n \in rows : m = n
    BY DEF IInv, NotifierInv, RowInv
  <2> HIDE DEF rows
  <2>2. Cardinality(rows) <= 1
    <3>1. CASE rows = {}
      BY <3>1, FS_EmptySet
    <3>2. CASE rows # {}
      <4>1. PICK n \in rows : rows = {n}
        BY <2>1, <3>2
      <4>2. Cardinality({n}) = 1
        BY FS_Singleton
      <4> QED  BY <4>1, <4>2
    <3> QED  BY <3>1, <3>2
  <2>3. (call[c].type = "announcement" /\ call[c].pc = "done" /\ u \in call[c].all) => rows # {}
    BY DEF IInv, NotifierInv, CallInv, Told, rows
  <2> QED  BY <2>2, <2>3 DEF rows
<1> QED  BY <1>1, <1>2, <1>3, <1>4 DEF IInv, PageInv

LEMMA InitIInv == Init => IInv
<1> SUFFICES ASSUME Init PROVE IInv
  OBVIOUS
<1>1. TypeOK
  BY InitTypeOK
<1>2. NotifierInv
  <2>1. \A n \in DOMAIN notifs : notifs[n].from = Nobody /\ notifs[n].type = "message"
    BY DEF Init
  <2>2. \A c \in Call : call[c].pc = "new" /\ ~call[c].quiet
    BY DEF Init
  <2> QED  BY <2>1, <2>2 DEF NotifierInv, CallInv, RowInv
<1>3. PageInv
  <2>1. PICK a \in Ask :
          ask = [b \in Ask |-> IF b # a THEN Free
                   ELSE [Free EXCEPT !.pc = "asked", !.kind = "boot", !.sure = TRUE]]
    BY DEF Init
  <2>2. ASSUME NEW b \in Ask
        PROVE  ask[b].pc \in {"free", "asked"} /\ ask[b].kind \in Counts
    BY <2>1, FreeFacts DEF AskState, Counts
  <2>3. ~exact /\ ~synced
    BY DEF Init
  <2> QED  BY <2>2, <2>3
           DEF PageInv, BellOf, CountOf, SwitchOf, BadgeKnown, SwitchCurrent, Counts, Prefs
<1> QED  BY <1>1, <1>2, <1>3 DEF IInv

-----------------------------------------------------------------------------
(* The calls of the notifier. *)

(* A step of a call that neither writes the table nor follows a write of it. *)
LEMMA CallMove ==
  ASSUME IInv, NEW c \in Call, call' \in [Call -> CallState], CallTyped(call'[c]),
         \A d \in Call \ {c} : call'[d] = call[d],
         UNCHANGED <<notifs, prefs, online, wire, page>>, moves' \in 0..MaxMoves,
         call[c].pc # "emit", call'[c].pc # "emit", CallInv(c)',
         \A n \in DOMAIN notifs : notifs[n].from = c => RowInv(n)'
  PROVE  IInv'
<1>1. TypeOK'
  BY DEF IInv, TypeOK, CallTyped, page
<1>2. NotifierInv'
  <2>1. ASSUME NEW d \in Call PROVE CallInv(d)'
    BY DEF IInv, NotifierInv, CallInv, Told
  <2>2. ASSUME NEW n \in DOMAIN notifs PROVE RowInv(n)'
    BY DEF IInv, NotifierInv, RowInv
  <2> QED  BY <2>1, <2>2 DEF NotifierInv
<1>3. PageInv'
  <2>1. Calm' = Calm
    BY DEF Calm, page
  <2> QED  BY <2>1 DEF IInv, PageInv, BellOf, CountOf, SwitchOf, BadgeKnown, SwitchCurrent,
              Asking, Unread, Mine, page
<1> QED  BY <1>1, <1>2, <1>3 DEF IInv

LEMMA BeginKeepsIInv ==
  ASSUME IInv, NEW c \in Call, Notify(c) \/ Announce(c)
  PROVE  IInv'
<1>1. PICK u \in User, t \in Type, rest \in SUBSET User :
        /\ Begin(c, u, t, rest) /\ u \notin rest
        /\ t = "incoming_call" => u = Me /\ rest = {}
  <2>1. CASE Notify(c)
    BY <2>1 DEF Notify
  <2>2. CASE Announce(c)
    <3>1. PICK u \in User, to \in SUBSET User : Begin(c, u, "announcement", to \ {u})
      BY <2>2 DEF Announce
    <3> QED  BY <3>1 DEF Type
  <2> QED  BY <2>1, <2>2
<1>2. /\ call[c].pc = "new" /\ moves' \in 0..MaxMoves
      /\ UNCHANGED <<notifs, prefs, online, wire, page>>
  BY DEF Notify, Announce, Move, IInv, TypeOK
<1>3. /\ call' \in [Call -> CallState] /\ CallTyped(call'[c])
      /\ call'[c].pc = "prefs" /\ call'[c].type = t /\ call'[c].user = u
      /\ call'[c].todo = rest /\ call'[c].all = rest \cup {u}
      /\ call'[c].quiet => t = "incoming_call" /\ prefs.dnd
      /\ \A d \in Call \ {c} : call'[d] = call[d]
  BY <1>1, BeginFacts DEF IInv
<1>4. CallInv(c)'
  BY <1>1, <1>2, <1>3 DEF CallInv
<1>5. \A n \in DOMAIN notifs : notifs[n].from # c
  BY <1>2 DEF IInv, NotifierInv, RowInv
<1> QED  BY <1>2, <1>3, <1>4, <1>5, CallMove

LEMMA GateKeepsIInv ==
  ASSUME IInv, NEW c \in Call, Gate(c)
  PROVE  IInv'
<1> DEFINE p == PrefsOf(call[c].user)
<1>1. /\ call[c] \in CallState /\ CallTyped(call[c]) /\ CallInv(c) /\ call[c].pc = "prefs"
      /\ UNCHANGED <<notifs, prefs, online, wire, page, moves>>
      /\ moves \in 0..MaxMoves /\ prefs \in [dnd: BOOLEAN, mute: BOOLEAN] /\ TypeOK
  BY DEF Gate, IInv, TypeOK, CallTyped, NotifierInv
<1>2. CASE Silenced(p, call[c].type)
  <2>1. Return(c) /\ call[c].type = "incoming_call"
    BY <1>2 DEF Gate, Silenced
  <2>2. /\ call' \in [Call -> CallState] /\ CallTyped(call'[c])
        /\ call'[c].type = call[c].type /\ call'[c].all = call[c].all
        /\ call'[c].quiet = call[c].quiet
        /\ call'[c].pc = "done" /\ call'[c].todo = {}
        /\ \A d \in Call \ {c} : call'[d] = call[d]
    <3>1. call[c].todo = {}
      BY <1>1, <2>1 DEF CallInv
    <3> QED  BY <1>1, <2>1, <3>1, ReturnFacts
  <2>3. CallInv(c)'
    BY <1>1, <2>1, <2>2 DEF CallInv
  <2>4. \A n \in DOMAIN notifs : notifs[n].from = c => RowInv(n)'
    BY <1>1, <2>2 DEF IInv, NotifierInv, RowInv
  <2> QED  BY <1>1, <2>2, <2>3, <2>4, CallMove
<1>3. CASE ~Silenced(p, call[c].type)
  <2>1. PICK muted \in BOOLEAN : muted = Muted(p, call[c].type)
    BY DEF Muted
  <2>2. PICK x : x = [call[c] EXCEPT !.pc = "insert", !.todo = call[c].todo, !.muted = muted]
    OBVIOUS
  <2>3. call' = [call EXCEPT ![c] = x]
    <3>1. x = [call[c] EXCEPT !.pc = "insert", !.muted = muted]
      BY <1>1, <2>2 DEF CallState
    <3> QED  BY <1>3, <2>1, <3>1 DEF Gate, IInv, TypeOK
  <2>4. call[c].todo \in SUBSET User /\ (muted => call[c].type = "message")
    BY <1>1, <2>1 DEF CallState, Muted
  <2>5. /\ call' \in [Call -> CallState] /\ CallTyped(call'[c])
        /\ call'[c].pc = "insert" /\ call'[c].user = call[c].user
        /\ call'[c].todo = call[c].todo /\ call'[c].type = call[c].type
        /\ call'[c].all = call[c].all /\ call'[c].quiet = call[c].quiet
        /\ \A d \in Call \ {c} : call'[d] = call[d]
    BY <1>1, <2>2, <2>3, <2>4, GoFacts
  <2>6. call[c].type = "incoming_call" => ~call[c].quiet
    BY <1>1, <1>3 DEF CallInv, Silenced, PrefsOf
  <2>7. CallInv(c)'
    BY <1>1, <2>5, <2>6 DEF CallInv, Told
  <2>8. \A n \in DOMAIN notifs : notifs[n].from = c => RowInv(n)'
    BY <1>1, <2>5 DEF IInv, NotifierInv, RowInv
  <2> QED  BY <1>1, <2>5, <2>7, <2>8, CallMove
<1> QED  BY <1>2, <1>3

LEMMA FailCallKeepsIInv ==
  ASSUME IInv, NEW c \in Call, FailCall(c)
  PROVE  IInv'
<1>1. /\ call[c] \in CallState /\ CallInv(c) /\ call[c].pc \in {"prefs", "insert"}
      /\ UNCHANGED <<notifs, prefs, online, wire, page, moves>>
      /\ moves \in 0..MaxMoves /\ TypeOK
  BY DEF FailCall, IInv, TypeOK, NotifierInv
<1>2. PICK x : x = [call[c] EXCEPT !.pc = "failed", !.todo = {}, !.muted = FALSE]
  OBVIOUS
<1>3. /\ x \in CallState /\ CallTyped(x) /\ x.pc = "failed" /\ x.todo = {}
      /\ x.quiet = call[c].quiet
  BY <1>1, <1>2 DEF CallState, CallTyped
<1>4. /\ call' \in [Call -> CallState] /\ call'[c] = x
      /\ \A d \in Call \ {c} : call'[d] = call[d]
  <2>1. call' = [call EXCEPT ![c] = x]
    BY <1>2 DEF FailCall, IInv, TypeOK
  <2> QED  BY <1>1, <1>3, <2>1 DEF TypeOK
<1>5. CallInv(c)'
  BY <1>1, <1>3, <1>4 DEF CallInv
<1>6. \A n \in DOMAIN notifs : notifs[n].from = c => RowInv(n)'
  BY <1>1, <1>3, <1>4 DEF IInv, NotifierInv, RowInv
<1> QED  BY <1>1, <1>3, <1>4, <1>5, <1>6, CallMove

(* The page is as it was, and nothing that was calm before is less so.       *)
LEMMA PageStands ==
  ASSUME IInv, UNCHANGED <<page, prefs>>, Unread' = Unread, Calm' => Calm
  PROVE  PageInv'
BY DEF IInv, PageInv, BellOf, CountOf, SwitchOf, BadgeKnown, SwitchCurrent, Asking, page

(* Rows are marked, or an event is lost, behind the back of the page.        *)
LEMMA BehindKeepsPageInv ==
  ASSUME IInv, Behind, UNCHANGED prefs, Unread' \subseteq Unread
  PROVE  PageInv' /\ ask' \in [Ask -> AskState] /\ \A b \in Ask : ask'[b].list = ask[b].list
<1>1. /\ ask' \in [Ask -> AskState]
      /\ \A b \in Ask : /\ Kept(ask[b], ask'[b])
                        /\ ask'[b].sure => ask[b].pc # "answered" \/ ask[b].kind \notin Counts
  BY VoidedFacts DEF Behind, IInv, TypeOK
<1>2. ~exact' /\ UNCHANGED <<badge, dnd, synced>>
  BY DEF Behind
<1>3. ASSUME NEW b \in Ask PROVE (BellOf(b) /\ CountOf(b) /\ SwitchOf(b))'
  BY <1>1, <1>2 DEF IInv, PageInv, BellOf, CountOf, SwitchOf, Kept
<1>4. SwitchCurrent'
  BY <1>1, <1>2 DEF IInv, PageInv, SwitchCurrent, Asking, Kept
<1>5. BadgeKnown'
  BY <1>2 DEF BadgeKnown
<1>6. PageInv'
  BY <1>3, <1>4, <1>5 DEF PageInv
<1> QED  BY <1>1, <1>6 DEF Kept

LEMMA InsertKeepsIInv ==
  ASSUME IInv, NEW c \in Call, Insert(c)
  PROVE  IInv'
<1>0. PICK N : N = Len(notifs) + 1
  OBVIOUS
<1>1. /\ call \in [Call -> CallState] /\ call[c] \in CallState /\ CallInv(c)
      /\ call[c].pc = "insert" /\ call[c].user \in User
      /\ UNCHANGED <<prefs, online, wire, page, moves>> /\ TypeOK /\ notifs \in Seq(Row)
  BY DEF Insert, IInv, TypeOK, NotifierInv
<1>2. PICK row : row = [user |-> call[c].user, type |-> call[c].type, from |-> c, read |-> FALSE]
  OBVIOUS
<1>3. /\ row \in Row /\ row.user = call[c].user /\ row.type = call[c].type /\ row.from = c
      /\ ~row.read
  BY <1>1, <1>2 DEF Row, CallState
<1>4. /\ notifs' \in Seq(Row) /\ DOMAIN notifs' = DOMAIN notifs \cup {N} /\ N \notin DOMAIN notifs
      /\ \A n \in DOMAIN notifs : notifs'[n] = notifs[n]
      /\ notifs'[N] = row
  <2>1. notifs' = Append(notifs, row)
    BY <1>2 DEF Insert
  <2> QED  BY <1>0, <1>1, <1>3, <2>1, Appended
<1>5. PICK x : x = [call[c] EXCEPT !.pc = "emit"]
  OBVIOUS
<1>6. /\ x \in CallState /\ x.pc = "emit" /\ x.user = call[c].user /\ x.todo = call[c].todo
      /\ x.type = call[c].type /\ x.all = call[c].all /\ x.quiet = call[c].quiet
      /\ x.muted = call[c].muted
  BY <1>1, <1>5 DEF CallState
<1>7. /\ call' \in [Call -> CallState] /\ call'[c] = x
      /\ \A d \in Call \ {c} : call'[d] = call[d]
  <2>1. call' = [call EXCEPT ![c] = x]
    BY <1>1, <1>5 DEF Insert
  <2> QED  BY <1>1, <1>6, <2>1
<1>8. TypeOK'
  <2>1. \A d \in Call : /\ call'[d].pc \in {"prefs", "insert", "emit"} => call'[d].user \in User
                        /\ call'[d].muted => call'[d].type = "message"
    BY <1>1, <1>6, <1>7 DEF TypeOK
  <2>2. wire' \subseteq DOMAIN notifs' /\ \A a \in Ask : ask'[a].list \subseteq DOMAIN notifs'
    BY <1>1, <1>4 DEF TypeOK, page
  <2> QED  BY <1>1, <1>4, <1>7, <2>1, <2>2 DEF TypeOK, page
<1>9. NotifierInv'
  <2>1. \A d \in Call, u \in User : Told(d, u) => Told(d, u)'
    BY <1>4 DEF Told
  <2>2. Told(c, call[c].user)'
    BY <1>3, <1>4, <1>6, <1>7 DEF Told
  <2>3. CallInv(c)'
    BY <1>1, <1>6, <1>7, <2>1, <2>2 DEF CallInv, CallState
  <2>4. ASSUME NEW d \in Call, d # c PROVE CallInv(d)'
    <3>1. CallInv(d) /\ call'[d] = call[d] /\ call[d].all \subseteq User
      BY <1>1, <1>7, <2>4 DEF IInv, NotifierInv, CallState
    <3> QED  BY <1>1, <2>1, <3>1 DEF CallInv
  <2>5. ASSUME NEW n \in DOMAIN notifs PROVE RowInv(n)'
    BY <1>1, <1>3, <1>4, <1>6, <1>7 DEF IInv, NotifierInv, RowInv
  <2>6. RowInv(N)'
    BY <1>1, <1>3, <1>4, <1>6, <1>7 DEF IInv, NotifierInv, RowInv, CallInv
  <2> QED  BY <1>4, <2>3, <2>4, <2>5, <2>6 DEF NotifierInv
<1>10. PageInv'
  <2>1. CASE call[c].user = Me
    <3>1. ~Calm'
      BY <1>6, <1>7, <2>1 DEF Calm
    <3>2. Unread' \subseteq Unread \cup {N}
      BY <1>4 DEF Unread, Mine
    <3>3. \A b \in Ask : ask[b].list \subseteq DOMAIN notifs
      BY <1>1 DEF TypeOK
    <3>4. ASSUME NEW b \in Ask PROVE (BellOf(b) /\ CountOf(b) /\ SwitchOf(b))'
      BY <1>1, <1>4, <3>1, <3>2, <3>3 DEF IInv, PageInv, BellOf, CountOf, SwitchOf, page
    <3>5. BadgeKnown' /\ SwitchCurrent'
      BY <1>1, <3>1 DEF IInv, PageInv, BadgeKnown, SwitchCurrent, Asking, page
    <3> QED  BY <3>4, <3>5 DEF PageInv
  <2>2. CASE call[c].user # Me
    <3>1. Unread' = Unread
      BY <1>3, <1>4, <2>2 DEF Unread, Mine
    <3>2. Calm' => Calm
      BY <1>1, <1>6, <1>7 DEF Calm, page
    <3> QED  BY <1>1, <3>1, <3>2, PageStands
  <2> QED  BY <2>1, <2>2
<1> QED  BY <1>8, <1>9, <1>10 DEF IInv

LEMMA EmitKeepsIInv ==
  ASSUME IInv, NEW c \in Call, Emit(c)
  PROVE  IInv'
<1>1. /\ call \in [Call -> CallState] /\ call[c] \in CallState /\ CallInv(c)
      /\ call[c].pc = "emit" /\ UNCHANGED <<notifs, prefs, online, moves>> /\ TypeOK
  BY DEF Emit, IInv, TypeOK, NotifierInv
<1>2. /\ call' \in [Call -> CallState] /\ CallTyped(call'[c])
      /\ call'[c].type = call[c].type /\ call'[c].all = call[c].all
      /\ call'[c].quiet = call[c].quiet
      /\ \/ call[c].todo = {} /\ call'[c].pc = "done" /\ call'[c].todo = {}
         \/ /\ call'[c].pc = "prefs" /\ call'[c].user \in call[c].todo
            /\ call'[c].todo = call[c].todo \ {call'[c].user}
      /\ \A d \in Call \ {c} : call'[d] = call[d]
  <2>1. Return(c)
    BY DEF Emit
  <2> QED  BY <1>1, <2>1, ReturnFacts
<1>3. NotifierInv'
  <2>1. CallInv(c)'
    BY <1>1, <1>2 DEF CallInv, Told
  <2>2. ASSUME NEW d \in Call PROVE CallInv(d)'
    BY <1>1, <1>2, <2>1 DEF IInv, NotifierInv, CallInv, Told
  <2>3. ASSUME NEW n \in DOMAIN notifs PROVE RowInv(n)'
    BY <1>1, <1>2 DEF IInv, NotifierInv, RowInv
  <2> QED  BY <1>1, <2>2, <2>3 DEF NotifierInv
<1>4. Unread' = Unread
  BY <1>1 DEF Unread, Mine
<1>5. /\ \A d \in Call : /\ call'[d].pc \in {"prefs", "insert", "emit"} => call'[d].user \in User
                         /\ call'[d].muted => call'[d].type = "message"
      /\ notifs' \in Seq(Row) /\ prefs' \in [dnd: BOOLEAN, mute: BOOLEAN]
      /\ online' \in BOOLEAN /\ moves' \in 0..MaxMoves
  BY <1>1, <1>2 DEF TypeOK, CallTyped
<1>6. CASE call[c].user # Me
  <2>1. UNCHANGED <<wire, page>>
    BY <1>6 DEF Emit
  <2>2. TypeOK'
    BY <1>1, <1>2, <1>5, <2>1 DEF TypeOK, page
  <2>3. Calm' => Calm
    BY <1>1, <1>2, <1>6, <2>1 DEF Calm, page
  <2>4. PageInv'
    BY <1>1, <1>4, <2>1, <2>3, PageStands
  <2> QED  BY <1>3, <2>2, <2>4 DEF IInv
<1>7. CASE call[c].user = Me /\ Reaches(c)
  <2>1. PICK n \in DOMAIN notifs : wire' = wire \cup {n} /\ UNCHANGED page
    BY <1>7 DEF Emit, Reaches
  <2>2. TypeOK'
    BY <1>1, <1>2, <1>5, <2>1 DEF TypeOK, page
  <2>3. Calm' => Calm
    BY <2>1 DEF Calm
  <2>4. PageInv'
    BY <1>1, <1>4, <2>1, <2>3, PageStands
  <2> QED  BY <1>3, <2>2, <2>4 DEF IInv
<1>8. CASE call[c].user = Me /\ ~Reaches(c)
  <2>1. wire' = wire /\ Behind
    BY <1>8 DEF Emit, Reaches
  <2>2. PageInv' /\ ask' \in [Ask -> AskState] /\ \A b \in Ask : ask'[b].list = ask[b].list
    BY <1>1, <1>4, <2>1, BehindKeepsPageInv
  <2>3. TypeOK'
    BY <1>1, <1>2, <1>5, <2>1, <2>2 DEF TypeOK, Behind
  <2> QED  BY <1>3, <2>2, <2>3 DEF IInv
<1> QED  BY <1>6, <1>7, <1>8

-----------------------------------------------------------------------------
(* The connection, and what happens elsewhere. *)

(* Rows that are only marked are still what the calls have left. *)
LEMMA MarkedKeepsNotifierInv ==
  ASSUME NotifierInv, Marked, UNCHANGED <<call, prefs>>
  PROVE  NotifierInv'
<1>1. \A c, u : Told(c, u)' <=> Told(c, u)
  BY DEF Marked, Told
<1>2. ASSUME NEW c \in Call PROVE CallInv(c)'
  BY <1>1 DEF NotifierInv, CallInv
<1>3. ASSUME NEW n \in DOMAIN notifs PROVE RowInv(n)'
  BY DEF NotifierInv, RowInv, Marked
<1> QED  BY <1>2, <1>3 DEF NotifierInv, Marked

LEMMA OnlineKeepsIInv ==
  ASSUME IInv, Connect \/ Disconnect
  PROVE  IInv'
<1>1. /\ UNCHANGED <<notifs, prefs, call, moves>> /\ online' \in BOOLEAN /\ TypeOK
      /\ wire' \subseteq wire /\ NotifierInv
  BY DEF Connect, Disconnect, IInv
<1>2. NotifierInv' /\ Unread' = Unread
  BY <1>1 DEF NotifierInv, CallInv, RowInv, Told, Unread, Mine
<1>3. CASE UNCHANGED <<wire, page>>
  <2>1. TypeOK'
    BY <1>1, <1>3 DEF TypeOK, page
  <2>2. Calm' => Calm
    BY <1>1, <1>3 DEF Calm, page
  <2>3. PageInv'
    BY <1>1, <1>2, <1>3, <2>2, PageStands
  <2> QED  BY <1>2, <2>1, <2>3 DEF IInv
<1>4. CASE Behind
  <2>1. PageInv' /\ ask' \in [Ask -> AskState] /\ \A b \in Ask : ask'[b].list = ask[b].list
    BY <1>1, <1>2, <1>4, BehindKeepsPageInv
  <2>2. TypeOK'
    BY <1>1, <1>4, <2>1 DEF TypeOK, Behind
  <2> QED  BY <1>2, <2>1, <2>2 DEF IInv
<1> QED  BY <1>3, <1>4 DEF Connect, Disconnect

LEMMA ReadElsewhereKeepsIInv ==
  ASSUME IInv, ReadElsewhere
  PROVE  IInv'
<1>1. /\ UNCHANGED <<prefs, call, online, wire>> /\ Behind /\ TypeOK /\ NotifierInv
      /\ moves' \in 0..MaxMoves /\ notifs \in Seq(Row)
  BY DEF ReadElsewhere, Move, IInv, TypeOK
<1>2. notifs' \in Seq(Row) /\ Marked
  <2>1. PICK n \in DOMAIN notifs : notifs' = [notifs EXCEPT ![n].read = TRUE]
    BY DEF ReadElsewhere, Unread
  <2> QED  BY <1>1, <2>1, ReadOneMarks
<1>3. NotifierInv'
  BY <1>1, <1>2, MarkedKeepsNotifierInv
<1>4. Unread' \subseteq Unread
  BY <1>2 DEF Unread, Mine, Marked
<1>5. PageInv' /\ ask' \in [Ask -> AskState] /\ \A b \in Ask : ask'[b].list = ask[b].list
  BY <1>1, <1>4, BehindKeepsPageInv
<1>6. TypeOK'
  BY <1>1, <1>2, <1>5 DEF TypeOK, Behind, Marked
<1> QED  BY <1>3, <1>5, <1>6 DEF IInv

LEMMA MuteKeepsIInv ==
  ASSUME IInv, MuteElsewhere
  PROVE  IInv'
<1>1. /\ UNCHANGED <<notifs, call, online, wire, page>> /\ TypeOK /\ NotifierInv
      /\ moves' \in 0..MaxMoves /\ PageInv
      /\ prefs' \in [dnd: BOOLEAN, mute: BOOLEAN] /\ prefs'.dnd = prefs.dnd
  <2>1. prefs \in [dnd: BOOLEAN, mute: BOOLEAN]
    BY DEF IInv, TypeOK
  <2>2. PICK mute \in BOOLEAN : mute = ~prefs.mute
    OBVIOUS
  <2>3. prefs' = [prefs EXCEPT !.mute = mute]
    BY <2>2 DEF MuteElsewhere
  <2>4. prefs' \in [dnd: BOOLEAN, mute: BOOLEAN] /\ prefs'.dnd = prefs.dnd
    BY <2>1, <2>2, <2>3
  <2> QED  BY <2>4 DEF MuteElsewhere, Move, IInv, TypeOK
<1>2. TypeOK'
  BY <1>1 DEF TypeOK, page
<1>3. NotifierInv'
  BY <1>1 DEF NotifierInv, CallInv, RowInv, Told
<1>4. PageInv'
  <2>1. Unread' = Unread /\ Calm' = Calm
    BY <1>1 DEF Unread, Mine, Calm, page
  <2> QED  BY <1>1, <2>1 DEF PageInv, BellOf, CountOf, SwitchOf, BadgeKnown, SwitchCurrent,
             Asking, page
<1> QED  BY <1>2, <1>3, <1>4 DEF IInv

LEMMA DndKeepsIInv ==
  ASSUME IInv, DndElsewhere
  PROVE  IInv'
<1>0. PICK on \in BOOLEAN : on = ~prefs.dnd
  OBVIOUS
<1>1. /\ UNCHANGED <<notifs, online, wire, badge, dnd, exact>> /\ TypeOK /\ NotifierInv
      /\ moves' \in 0..MaxMoves /\ PageInv /\ ~synced' /\ SetDnd(on) /\ ask' = Voided(Prefs)
  BY <1>0 DEF DndElsewhere, Move, IInv, TypeOK
<1>2. /\ prefs' \in [dnd: BOOLEAN, mute: BOOLEAN] /\ prefs'.dnd = on
      /\ call' \in [Call -> CallState]
      /\ \A c \in Call :
            /\ CallTyped(call'[c])
            /\ call'[c].pc = call[c].pc /\ call'[c].type = call[c].type
            /\ call'[c].user = call[c].user /\ call'[c].todo = call[c].todo
            /\ call'[c].all = call[c].all
            /\ call'[c].quiet => call[c].quiet /\ on
  BY <1>1, QuietFacts
<1>3. /\ ask' \in [Ask -> AskState]
      /\ \A b \in Ask : /\ Kept(ask[b], ask'[b])
                        /\ ask'[b].sure => ask[b].pc # "answered" \/ ask[b].kind \notin Prefs
  BY <1>1, VoidedFacts DEF TypeOK
<1>4. TypeOK'
  <2>1. \A c \in Call : /\ call'[c].pc \in {"prefs", "insert", "emit"} => call'[c].user \in User
                        /\ call'[c].muted => call'[c].type = "message"
    BY <1>2 DEF CallTyped
  <2>2. wire' \subseteq DOMAIN notifs' /\ \A a \in Ask : ask'[a].list \subseteq DOMAIN notifs'
    BY <1>1, <1>3 DEF TypeOK, Kept
  <2>3. /\ notifs' \in Seq(Row) /\ online' \in BOOLEAN /\ badge' \in Nat /\ dnd' \in BOOLEAN
        /\ exact' \in BOOLEAN /\ synced' \in BOOLEAN
    BY <1>1 DEF TypeOK, DndElsewhere
  <2> QED  BY <1>1, <1>2, <1>3, <2>1, <2>2, <2>3 DEF TypeOK
<1>5. NotifierInv'
  BY <1>1, <1>2 DEF NotifierInv, CallInv, RowInv, Told
<1>6. PageInv'
  <2>1. Unread' = Unread
    BY <1>1 DEF Unread, Mine
  <2>2. Calm' = Calm
    BY <1>1, <1>2, <1>3 DEF Calm, Kept
  <2>3. ASSUME NEW b \in Ask PROVE (BellOf(b) /\ CountOf(b) /\ SwitchOf(b))'
    BY <1>1, <1>3, <2>1, <2>2 DEF PageInv, BellOf, CountOf, SwitchOf, Kept
  <2>4. BadgeKnown'
    BY <1>1, <1>3, <2>1, <2>2 DEF PageInv, BadgeKnown, Asking, Kept
  <2>5. SwitchCurrent'
    BY <1>1 DEF SwitchCurrent
  <2> QED  BY <2>3, <2>4, <2>5 DEF PageInv
<1> QED  BY <1>4, <1>5, <1>6 DEF IInv

-----------------------------------------------------------------------------
(* The server answers a request. *)

LEMMA AnswerKeepsPageInv ==
  ASSUME IInv, NEW a \in Ask, ask[a].pc = "asked",
         NEW y \in AskState, y.pc = "answered", y.kind = ask[a].kind, y.sure => ask[a].sure,
         ask' = [ask EXCEPT ![a] = y],
         UNCHANGED <<wire, badge, dnd, exact, synced>>,
         \A c \in Call : call'[c].pc = call[c].pc /\ call'[c].user = call[c].user,
         Unread' \subseteq Unread,
         y.kind = "readall" => y.list \cap Unread' = {},
         y.kind # "readall" => Unread' = Unread,
         (y.kind \in Counts /\ y.sure) => y.count = Cardinality(Unread),
         (y.kind \in Prefs /\ y.sure) => prefs'.dnd = y.on,
         y.kind = "put" => y.on = ask[a].on,
         y.kind # "put" => prefs' = prefs
  PROVE  PageInv'
<1>1. /\ ask \in [Ask -> AskState] /\ ask'[a] = y /\ \A b \in Ask \ {a} : ask'[b] = ask[b]
      /\ PageInv
  BY DEF IInv, TypeOK
<1>2. /\ Calm' => Calm
      /\ y.kind = "readall" => ~Calm'
  BY <1>1 DEF Calm
<1>3. ASSUME NEW b \in Ask \ {a} PROVE (BellOf(b) /\ CountOf(b) /\ SwitchOf(b))'
  <2>1. BellOf(b)'
    BY <1>1 DEF PageInv, BellOf
  <2>2. CountOf(b)'
    BY <1>1, <1>2 DEF PageInv, CountOf
  <2>3. SwitchOf(b)'
    BY <1>1 DEF PageInv, SwitchOf, Prefs
  <2> QED  BY <2>1, <2>2, <2>3
<1>4. (BellOf(a) /\ CountOf(a) /\ SwitchOf(a))'
  <2>1. BellOf(a)'
    BY <1>1 DEF BellOf
  <2>2. CountOf(a)'
    BY <1>1 DEF CountOf, Counts
  <2>3. SwitchOf(a)'
    BY <1>1 DEF PageInv, SwitchOf
  <2> QED  BY <2>1, <2>2, <2>3
<1>5. BadgeKnown'
  BY <1>1, <1>2 DEF PageInv, BadgeKnown, Asking
<1>6. SwitchCurrent'
  BY <1>1 DEF PageInv, SwitchCurrent, Asking, Prefs
<1> QED  BY <1>3, <1>4, <1>5, <1>6 DEF PageInv

(* The types and the table after a step in which no call moves. *)
LEMMA QuietStep ==
  ASSUME IInv, UNCHANGED <<notifs, prefs, call, online>>, wire' \subseteq wire,
         moves' \in 0..MaxMoves, ask' \in [Ask -> AskState],
         \A b \in Ask : ask'[b].list \subseteq DOMAIN notifs,
         badge' \in Nat, dnd' \in BOOLEAN, exact' \in BOOLEAN, synced' \in BOOLEAN
  PROVE  TypeOK' /\ NotifierInv' /\ Unread' = Unread
<1>1. TypeOK'
  BY DEF IInv, TypeOK
<1>2. NotifierInv'
  BY DEF IInv, NotifierInv, CallInv, RowInv, Told
<1>3. Unread' = Unread
  BY DEF Unread, Mine
<1> QED  BY <1>1, <1>2, <1>3

LEMMA ServeKeepsIInv ==
  ASSUME IInv, NEW a \in Ask, Serve(a) \/ ServeError(a)
  PROVE  IInv'
<1>1. /\ ask[a].pc = "asked" /\ UNCHANGED <<online, wire, badge, dnd, exact, synced, moves>>
      /\ TypeOK /\ NotifierInv /\ notifs \in Seq(Row) /\ ask \in [Ask -> AskState]
      /\ ask[a] \in AskState /\ ask[a].list \subseteq DOMAIN notifs
      /\ Unread \subseteq DOMAIN notifs
  BY DEF Serve, ServeError, server, IInv, TypeOK, Unread
<1>2. badge' \in Nat /\ dnd' \in BOOLEAN /\ exact' \in BOOLEAN /\ synced' \in BOOLEAN
      /\ moves' \in 0..MaxMoves /\ wire' \subseteq wire
  BY <1>1 DEF TypeOK
<1>3. ASSUME UNCHANGED <<notifs, prefs, call>>,
             NEW y \in AskState, y.pc = "answered", y.kind = ask[a].kind,
             y.sure => ask[a].sure, ask' = [ask EXCEPT ![a] = y],
             y.list \subseteq DOMAIN notifs,
             y.kind = "readall" => y.list = {},
             (y.kind \in Counts /\ y.sure) => y.count = Cardinality(Unread),
             (y.kind \in Prefs /\ y.sure) => prefs.dnd = y.on,
             y.kind = "put" => y.on = ask[a].on
      PROVE  IInv'
  <2>1. ask' \in [Ask -> AskState] /\ \A b \in Ask : ask'[b].list \subseteq DOMAIN notifs
    BY <1>1, <1>3 DEF TypeOK
  <2>2. TypeOK' /\ NotifierInv' /\ Unread' = Unread
    BY <1>1, <1>2, <1>3, <2>1, QuietStep
  <2>3. PageInv'
    BY <1>1, <1>3, <2>2, AnswerKeepsPageInv
  <2> QED  BY <2>2, <2>3 DEF IInv
<1>4. CASE Serve(a) /\ ask[a].kind \in Counts
  <2>1. PICK y : y = [ask[a] EXCEPT !.pc = "answered", !.count = Cardinality(Unread)]
    OBVIOUS
  <2>2. /\ y \in AskState /\ y.pc = "answered" /\ y.kind = ask[a].kind /\ y.sure = ask[a].sure
        /\ y.list = ask[a].list /\ y.count = Cardinality(Unread)
    BY <1>1, <2>1, UnreadFinite DEF AskState
  <2>3. ask' = [ask EXCEPT ![a] = y] /\ UNCHANGED <<notifs, prefs, call>>
    BY <1>1, <1>4, <2>1 DEF Serve, Answered, Counts, AskState
  <2> QED  BY <1>1, <1>3, <1>4, <2>2, <2>3 DEF Counts, Prefs
<1>5. CASE Serve(a) /\ ask[a].kind = "list"
  <2>1. PICK y : y = [ask[a] EXCEPT !.pc = "answered", !.list = Newest]
    OBVIOUS
  <2>2. Newest \subseteq DOMAIN notifs /\ Newest \subseteq Nat
    BY <1>1, Table DEF Newest
  <2>3. /\ y \in AskState /\ y.pc = "answered" /\ y.kind = ask[a].kind /\ y.sure = ask[a].sure
        /\ y.list = Newest
    BY <1>1, <2>1, <2>2 DEF AskState
  <2>4. ask' = [ask EXCEPT ![a] = y] /\ UNCHANGED <<notifs, prefs, call>>
    BY <1>1, <1>5, <2>1 DEF Serve, Answered, Counts, AskState
  <2> QED  BY <1>1, <1>3, <1>5, <2>2, <2>3, <2>4 DEF Counts, Prefs
<1>6. CASE Serve(a) /\ ask[a].kind = "readall"
  <2>1. PICK y : y = [ask[a] EXCEPT !.pc = "answered"]
    OBVIOUS
  <2>2. /\ y \in AskState /\ y.pc = "answered" /\ y.kind = ask[a].kind /\ y.sure = ask[a].sure
        /\ y.list = ask[a].list
    BY <1>1, <2>1 DEF AskState
  <2>3. ask' = [ask EXCEPT ![a] = y] /\ UNCHANGED <<prefs, call>> /\ notifs' = ReadAll
    BY <1>1, <1>6, <2>1 DEF Serve, Answered, Counts
  <2>4. notifs' \in Seq(Row) /\ Marked /\ Unread' = {}
    BY <1>1, <2>3, ReadAllMarks
  <2>5. NotifierInv'
    BY <1>1, <2>3, <2>4, MarkedKeepsNotifierInv
  <2>6. PageInv'
    BY <1>1, <1>6, <2>2, <2>3, <2>4, AnswerKeepsPageInv DEF Counts, Prefs
  <2>7. TypeOK'
    BY <1>1, <1>2, <2>2, <2>3, <2>4 DEF TypeOK, Marked
  <2> QED  BY <2>5, <2>6, <2>7 DEF IInv
<1>7. CASE Serve(a) /\ ask[a].kind = "get"
  <2>1. PICK y : y = [ask[a] EXCEPT !.pc = "answered", !.on = prefs.dnd]
    OBVIOUS
  <2>2. /\ y \in AskState /\ y.pc = "answered" /\ y.kind = ask[a].kind /\ y.sure = ask[a].sure
        /\ y.list = ask[a].list /\ y.on = prefs.dnd
    <3>1. prefs.dnd \in BOOLEAN
      BY <1>1 DEF TypeOK
    <3> QED  BY <1>1, <2>1, <3>1 DEF AskState
  <2>3. ask' = [ask EXCEPT ![a] = y] /\ UNCHANGED <<notifs, prefs, call>>
    BY <1>1, <1>7, <2>1 DEF Serve, Answered, Counts, AskState
  <2> QED  BY <1>1, <1>3, <1>7, <2>2, <2>3 DEF Counts
<1>8. CASE Serve(a) /\ ask[a].kind = "put"
  <2>0. PICK on \in BOOLEAN : on = ask[a].on
    BY <1>1 DEF AskState
  <2>1. PICK y : y = [ask[a] EXCEPT !.pc = "answered"]
    OBVIOUS
  <2>2. /\ y \in AskState /\ y.pc = "answered" /\ y.kind = ask[a].kind /\ y.sure = ask[a].sure
        /\ y.list = ask[a].list /\ y.on = on
    BY <1>1, <2>0, <2>1 DEF AskState
  <2>3. ask' = [ask EXCEPT ![a] = y] /\ UNCHANGED notifs /\ SetDnd(on)
    BY <1>1, <1>8, <2>0, <2>1 DEF Serve, Answered, Counts
  <2>4. /\ prefs' \in [dnd: BOOLEAN, mute: BOOLEAN] /\ prefs'.dnd = on
        /\ call' \in [Call -> CallState]
        /\ \A c \in Call :
              /\ CallTyped(call'[c])
              /\ call'[c].pc = call[c].pc /\ call'[c].type = call[c].type
              /\ call'[c].user = call[c].user /\ call'[c].todo = call[c].todo
              /\ call'[c].all = call[c].all
              /\ call'[c].quiet => call[c].quiet /\ on
    BY <1>1, <2>3, QuietFacts
  <2>5. Unread' = Unread
    BY <2>3 DEF Unread, Mine
  <2>6. NotifierInv'
    BY <1>1, <2>3, <2>4 DEF NotifierInv, CallInv, RowInv, Told
  <2>7. PageInv'
    BY <1>1, <1>8, <2>0, <2>2, <2>3, <2>4, <2>5, AnswerKeepsPageInv DEF Counts
  <2>8. TypeOK'
    <3>1. \A c \in Call : /\ call'[c].pc \in {"prefs", "insert", "emit"} => call'[c].user \in User
                          /\ call'[c].muted => call'[c].type = "message"
      BY <2>4 DEF CallTyped
    <3>2. notifs' \in Seq(Row) /\ online' \in BOOLEAN /\ wire' \subseteq DOMAIN notifs'
      BY <1>1, <2>3 DEF TypeOK
    <3>3. ask' \in [Ask -> AskState] /\ \A b \in Ask : ask'[b].list \subseteq DOMAIN notifs'
      BY <1>1, <2>2, <2>3 DEF TypeOK
    <3> QED  BY <1>2, <2>4, <3>1, <3>2, <3>3 DEF TypeOK
  <2> QED  BY <2>6, <2>7, <2>8 DEF IInv
<1>9. CASE ServeError(a)
  <2>1. PICK on \in BOOLEAN : on = (ask[a].on /\ ask[a].kind = "put")
    BY <1>1 DEF AskState
  <2>2. PICK y : y = [ask[a] EXCEPT !.pc = "answered", !.sure = FALSE, !.list = {}, !.on = on]
    OBVIOUS
  <2>3. /\ y \in AskState /\ y.pc = "answered" /\ y.kind = ask[a].kind /\ ~y.sure
        /\ y.list = {} /\ y.on = on
    BY <1>1, <2>2 DEF AskState
  <2>4. y.kind = "put" => y.on = ask[a].on
    BY <1>1, <2>1, <2>3 DEF AskState
  <2>5. ask' = [ask EXCEPT ![a] = y] /\ UNCHANGED <<notifs, prefs, call>>
    BY <1>1, <1>9, <2>1, <2>2 DEF ServeError, Answered, server
  <2> QED  BY <1>1, <1>3, <2>3, <2>4, <2>5
<1> QED  BY <1>4, <1>5, <1>6, <1>7, <1>8, <1>9 DEF Serve

-----------------------------------------------------------------------------
(* The page asks, and goes on with the answers. *)

(* The badge is asked for, by a delivery or once the rows are marked. *)
LEMMA CountAsked ==
  ASSUME IInv, NEW a \in Ask, ask[a].pc = "free" \/ ask[a].kind = "readall",
         ask' = Asked(a, Counts, Free),
         UNCHANGED <<notifs, prefs, call, online, badge, dnd, exact, synced, moves>>,
         wire' \subseteq wire
  PROVE  IInv'
<1>1. /\ ask' \in [Ask -> AskState] /\ ask'[a].pc = "asked" /\ ask'[a].kind = "count"
      /\ ask'[a].list = {}
      /\ \A b \in Ask \ {a} :
            /\ Kept(ask[b], ask'[b])
            /\ ask'[b].sure => ask[b].pc = "free" \/ ask[b].kind \notin Counts
  BY AskedFacts, FreeFacts DEF IInv, TypeOK
<1>2. \A b \in Ask : ask'[b].list \subseteq DOMAIN notifs
  BY <1>1 DEF IInv, TypeOK, Kept
<1>3. TypeOK' /\ NotifierInv' /\ Unread' = Unread
  <2>1. /\ badge' \in Nat /\ dnd' \in BOOLEAN /\ exact' \in BOOLEAN /\ synced' \in BOOLEAN
        /\ moves' \in 0..MaxMoves
    BY DEF IInv, TypeOK
  <2> QED  BY <1>1, <1>2, <2>1, QuietStep
<1>4. PageInv'
  <2>1. ASSUME NEW b \in Ask PROVE (BellOf(b) /\ CountOf(b) /\ SwitchOf(b))'
    <3>1. CASE b = a
      BY <1>1, <3>1 DEF BellOf, CountOf, SwitchOf, Prefs
    <3>2. CASE b # a
      <4>1. BellOf(b)'
        BY <1>1, <1>3, <3>2 DEF IInv, PageInv, BellOf, Kept
      <4>2. CountOf(b)'
        BY <1>1, <3>2 DEF CountOf, Kept
      <4>3. SwitchOf(b)'
        BY <1>1, <3>2 DEF IInv, PageInv, SwitchOf, Kept, Prefs
      <4> QED  BY <4>1, <4>2, <4>3
    <3> QED  BY <3>1, <3>2
  <2>2. BadgeKnown'
    BY <1>1 DEF BadgeKnown, Asking, Counts
  <2>3. SwitchCurrent'
    BY <1>1 DEF IInv, PageInv, SwitchCurrent, Asking, Kept, Prefs
  <2> QED  BY <2>1, <2>2, <2>3 DEF PageInv
<1> QED  BY <1>3, <1>4 DEF IInv

(* The bell fetches its list, and then marks everything read. *)
LEMMA BellAsked ==
  ASSUME IInv, NEW a \in Ask, ask[a].pc = "free" \/ ask[a].kind = "list",
         NEW kinds, kinds \subseteq {"list"},
         NEW new \in AskState, new.kind \in {"list", "readall"},
         new.list \subseteq DOMAIN notifs, ask' = Asked(a, kinds, new),
         UNCHANGED <<server, badge, dnd, exact, synced>>, moves' \in 0..MaxMoves
  PROVE  IInv'
<1>1. /\ ask' \in [Ask -> AskState] /\ ask'[a].pc = "asked" /\ ask'[a].kind = new.kind
      /\ ask'[a].list = new.list
      /\ \A b \in Ask \ {a} : Kept(ask[b], ask'[b])
  BY AskedFacts DEF IInv, TypeOK
<1>2. \A b \in Ask : ask'[b].list \subseteq DOMAIN notifs
  BY <1>1 DEF IInv, TypeOK, Kept
<1>3. TypeOK' /\ NotifierInv' /\ Unread' = Unread
  <2>1. /\ badge' \in Nat /\ dnd' \in BOOLEAN /\ exact' \in BOOLEAN /\ synced' \in BOOLEAN
        /\ UNCHANGED <<notifs, prefs, call, online>> /\ wire' \subseteq wire
    BY DEF IInv, TypeOK, server
  <2> QED  BY <1>1, <1>2, <2>1, QuietStep
<1>4. PageInv'
  <2>1. Calm' => Calm
    BY <1>1 DEF Calm, Kept, server
  <2>2. ASSUME NEW b \in Ask PROVE (BellOf(b) /\ CountOf(b) /\ SwitchOf(b))'
    <3>1. CASE b = a
      BY <1>1, <3>1 DEF BellOf, CountOf, SwitchOf, Prefs
    <3>2. CASE b # a
      <4>1. BellOf(b)'
        BY <1>1, <1>3, <3>2 DEF IInv, PageInv, BellOf, Kept
      <4>2. CountOf(b)'
        BY <1>1, <1>3, <2>1, <3>2 DEF IInv, PageInv, CountOf, Kept
      <4>3. SwitchOf(b)'
        BY <1>1, <3>2 DEF IInv, PageInv, SwitchOf, Kept, Prefs, server
      <4> QED  BY <4>1, <4>2, <4>3
    <3> QED  BY <3>1, <3>2
  <2>3. BadgeKnown'
    BY <1>1, <1>3, <2>1 DEF IInv, PageInv, BadgeKnown, Asking, Kept, Counts
  <2>4. SwitchCurrent'
    BY <1>1 DEF IInv, PageInv, SwitchCurrent, Asking, Kept, Prefs, server
  <2> QED  BY <2>2, <2>3, <2>4 DEF PageInv
<1> QED  BY <1>3, <1>4 DEF IInv

(* The preferences are asked for or set; the earlier requests about the      *)
(* switch are overtaken.                                                     *)
LEMMA PrefsAsked ==
  ASSUME IInv, NEW a \in Ask,
         \/ ask[a].pc = "free" /\ UNCHANGED <<badge, exact>>
         \/ /\ ask[a].pc = "answered" /\ ask[a].kind = "boot"
            /\ badge' = ask[a].count /\ exact' = ask[a].sure,
         NEW new \in AskState, new.kind \in Prefs, new.list = {},
         new.kind = "put" => dnd' = new.on,
         ask' = Asked(a, Prefs, new),
         UNCHANGED <<server, synced>>, moves' \in 0..MaxMoves, dnd' \in BOOLEAN
  PROVE  IInv'
<1>1. /\ ask' \in [Ask -> AskState] /\ ask'[a].pc = "asked" /\ ask'[a].kind = new.kind
      /\ ask'[a].list = {} /\ ask'[a].on = new.on
      /\ ask'[a].sure => \A d \in Ask \ {a} : ask[d].pc = "free" \/ ask[d].kind \notin Prefs
      /\ \A b \in Ask \ {a} :
            /\ Kept(ask[b], ask'[b])
            /\ ask'[b].sure => ask[b].pc = "free" \/ ask[b].kind \notin Prefs
  BY AskedFacts DEF IInv, TypeOK
<1>2. \A b \in Ask : ask'[b].list \subseteq DOMAIN notifs
  BY <1>1 DEF IInv, TypeOK, Kept
<1>3. TypeOK' /\ NotifierInv' /\ Unread' = Unread
  <2>1. UNCHANGED <<notifs, prefs, call, online>> /\ wire' \subseteq wire
    BY DEF server
  <2>2. badge' \in Nat /\ exact' \in BOOLEAN /\ synced' \in BOOLEAN
    BY DEF IInv, TypeOK, AskState
  <2> QED  BY <1>1, <1>2, <2>1, <2>2, QuietStep
<1>4. PageInv'
  <2>1. Calm' => Calm
    BY <1>1 DEF Calm, Kept, server
  <2>2. ASSUME NEW b \in Ask PROVE (BellOf(b) /\ CountOf(b) /\ SwitchOf(b))'
    <3>1. CASE b = a
      <4>1. (BellOf(b) /\ CountOf(b))'
        BY <1>1, <3>1 DEF BellOf, CountOf
      <4>2. SwitchOf(b)'
        BY <1>1, <3>1 DEF SwitchOf, Kept
      <4> QED  BY <4>1, <4>2
    <3>2. CASE b # a
      <4>1. BellOf(b)'
        BY <1>1, <1>3, <3>2 DEF IInv, PageInv, BellOf, Kept
      <4>2. CountOf(b)'
        BY <1>1, <1>3, <2>1, <3>2 DEF IInv, PageInv, CountOf, Kept
      <4>3. SwitchOf(b)'
        BY <1>1, <3>2 DEF SwitchOf, Kept
      <4> QED  BY <4>1, <4>2, <4>3
    <3> QED  BY <3>1, <3>2
  <2>3. BadgeKnown'
    <3>1. CASE ask[a].pc = "answered" /\ ask[a].kind = "boot"
      BY <1>3, <2>1, <3>1 DEF IInv, PageInv, CountOf, BadgeKnown, Counts
    <3>2. CASE ask[a].pc = "free" /\ UNCHANGED <<badge, exact>>
      BY <1>1, <1>3, <2>1, <3>2 DEF IInv, PageInv, BadgeKnown, Asking, Kept
    <3> QED  BY <3>1, <3>2
  <2>4. SwitchCurrent'
    BY <1>1 DEF SwitchCurrent, Asking
  <2> QED  BY <2>2, <2>3, <2>4 DEF PageInv
<1> QED  BY <1>3, <1>4 DEF IInv

(* A request is over: it was answered, or its connection broke. *)
LEMMA Freed ==
  ASSUME IInv, NEW a \in Ask, ask' \in [Ask -> AskState], ask'[a] = Free,
         \A b \in Ask \ {a} : Kept(ask[b], ask'[b]),
         UNCHANGED <<server, moves>>,
         badge' \in Nat, dnd' \in BOOLEAN, exact' \in BOOLEAN, synced' \in BOOLEAN,
         \A b \in Ask \ {a} : CountOf(b)',
         \A b \in Ask \ {a} : SwitchOf(b)',
         BadgeKnown', SwitchCurrent'
  PROVE  IInv'
<1>1. \A b \in Ask : ask'[b].list \subseteq DOMAIN notifs
  BY FreeFacts DEF IInv, TypeOK, Kept
<1>2. TypeOK' /\ NotifierInv' /\ Unread' = Unread
  <2>1. UNCHANGED <<notifs, prefs, call, online>> /\ wire' \subseteq wire /\ moves' \in 0..MaxMoves
    BY DEF server, IInv, TypeOK
  <2> QED  BY <1>1, <2>1, QuietStep
<1>3. ASSUME NEW b \in Ask \ {a} PROVE (BellOf(b) /\ CountOf(b) /\ SwitchOf(b))'
  <2>1. BellOf(b)'
    BY <1>2 DEF IInv, PageInv, BellOf, Kept
  <2> QED  BY <2>1
<1>4. (BellOf(a) /\ CountOf(a) /\ SwitchOf(a))'
  BY FreeFacts DEF BellOf, CountOf, SwitchOf
<1> QED  BY <1>2, <1>3, <1>4 DEF IInv, PageInv

LEMMA AsksKeepIInv ==
  ASSUME IInv, NEW a \in Ask, Deliver(a) \/ Bell(a) \/ Toggle(a)
  PROVE  IInv'
<1>1. CASE Deliver(a)
  BY <1>1, CountAsked DEF Deliver
<1>2. CASE Bell(a)
  <2>1. PICK new : new = [Free EXCEPT !.kind = "list"]
    OBVIOUS
  <2>2. new \in AskState /\ new.kind = "list" /\ new.list = {}
    BY <2>1, FreeFacts DEF AskState
  <2>3. PICK kinds : kinds = {"list"}
    OBVIOUS
  <2>4. ask' = Asked(a, kinds, new) /\ moves' \in 0..MaxMoves
    BY <1>2, <2>1, <2>3 DEF Bell, Move, IInv, TypeOK
  <2> QED  BY <1>2, <2>2, <2>3, <2>4, BellAsked DEF Bell
<1>3. CASE Toggle(a)
  <2>0. PICK on \in BOOLEAN : on = ~dnd
    OBVIOUS
  <2>1. PICK new : new = [Free EXCEPT !.kind = "put", !.on = on]
    OBVIOUS
  <2>2. new \in AskState /\ new.kind = "put" /\ new.list = {} /\ new.on = on
    BY <2>1, FreeFacts DEF AskState
  <2>3. /\ ask[a].pc = "free" /\ dnd' = on /\ ask' = Asked(a, Prefs, new)
        /\ UNCHANGED <<server, badge, exact, synced>> /\ moves' \in 0..MaxMoves
    BY <1>3, <2>0, <2>1 DEF Toggle, Move, IInv, TypeOK
  <2> QED  BY <2>2, <2>3, PrefsAsked DEF Prefs
<1> QED  BY <1>1, <1>2, <1>3

LEMMA ApplyKeepsIInv ==
  ASSUME IInv, NEW a \in Ask, Apply(a)
  PROVE  IInv'
<1>1. /\ ask[a].pc = "answered" /\ UNCHANGED <<server, moves>> /\ ask \in [Ask -> AskState]
      /\ ask[a] \in AskState /\ moves' \in 0..MaxMoves /\ ask[a].list \subseteq DOMAIN notifs
      /\ badge \in Nat /\ dnd \in BOOLEAN /\ exact \in BOOLEAN /\ synced \in BOOLEAN
      /\ ask[a].count \in Nat /\ ask[a].sure \in BOOLEAN /\ ask[a].on \in BOOLEAN
      /\ UNCHANGED <<notifs, prefs, call, online, wire>>
  BY DEF Apply, IInv, TypeOK, server, AskState
<1>2. CASE ask[a].kind = "boot"
  <2>1. PICK new : new = [Free EXCEPT !.kind = "get"]
    OBVIOUS
  <2>2. new \in AskState /\ new.kind = "get" /\ new.list = {}
    BY <2>1, FreeFacts DEF AskState
  <2>3. /\ ask' = Asked(a, Prefs, new) /\ badge' = ask[a].count /\ exact' = ask[a].sure
        /\ UNCHANGED <<dnd, synced>>
    BY <1>2, <2>1 DEF Apply, Counts, Prefs
  <2> QED  BY <1>1, <1>2, <2>2, <2>3, PrefsAsked DEF Prefs
<1>3. CASE ask[a].kind = "list"
  <2>1. PICK new : new = [ask[a] EXCEPT !.kind = "readall"]
    OBVIOUS
  <2>2. new \in AskState /\ new.kind = "readall" /\ new.list = ask[a].list
    BY <1>1, <2>1 DEF AskState
  <2>3. PICK kinds : kinds = {}
    OBVIOUS
  <2>4. /\ ask' = Asked(a, kinds, new) /\ UNCHANGED <<badge, dnd, exact, synced>>
    BY <1>3, <2>1, <2>3 DEF Apply, Counts, Prefs
  <2> QED  BY <1>1, <1>3, <2>2, <2>3, <2>4, BellAsked
<1>4. CASE ask[a].kind = "readall"
  <2>1. ask' = Asked(a, Counts, Free) /\ UNCHANGED <<badge, dnd, exact, synced>>
    BY <1>4 DEF Apply, Counts, Prefs
  <2>2. wire' \subseteq wire
    BY <1>1
  <2> QED  BY <1>1, <1>4, <2>1, <2>2, CountAsked
<1>5. CASE ask[a].kind = "count" \/ ask[a].kind \in Prefs
  <2>1. ask' = [ask EXCEPT ![a] = Free]
    BY <1>5 DEF Apply, Counts, Prefs
  <2>2. /\ ask' \in [Ask -> AskState] /\ ask'[a] = Free
        /\ \A b \in Ask \ {a} : ask'[b] = ask[b]
    BY <1>1, <2>1, FreeFacts
  <2>3. \A b \in Ask \ {a} : Kept(ask[b], ask'[b])
    BY <2>2 DEF Kept
  <2>4. Calm' => Calm
    BY <1>1, <1>5, <2>2 DEF Calm, Prefs
  <2>5. Unread' = Unread
    BY <1>1 DEF Unread, Mine
  <2>6. \A b \in Ask \ {a} : CountOf(b)'
    BY <2>2, <2>4, <2>5 DEF IInv, PageInv, CountOf
  <2>7. CASE ask[a].kind = "count"
    <3>1. badge' = ask[a].count /\ exact' = ask[a].sure /\ UNCHANGED <<dnd, synced>>
      BY <2>7 DEF Apply, Counts, Prefs
    <3>2. \A b \in Ask \ {a} : SwitchOf(b)'
      BY <1>1, <2>2, <3>1, FreeFacts DEF IInv, PageInv, SwitchOf
    <3>3. BadgeKnown'
      BY <1>1, <2>4, <2>5, <2>7, <3>1 DEF IInv, PageInv, CountOf, BadgeKnown, Counts
    <3>4. SwitchCurrent'
      BY <1>1, <2>2, <2>7, <3>1 DEF IInv, PageInv, SwitchCurrent, Asking, Prefs
    <3> QED  BY <1>1, <2>2, <2>3, <2>6, <3>1, <3>2, <3>3, <3>4, Freed
  <2>8. CASE ask[a].kind \in Prefs
    <3>1. /\ dnd' = (IF ask[a].kind = "get" THEN ask[a].on ELSE dnd) /\ synced' = ask[a].sure
          /\ UNCHANGED <<badge, exact>>
      BY <2>8 DEF Apply, Counts, Prefs
    <3>2. \A b \in Ask \ {a} : SwitchOf(b)'
      BY <1>1, <2>2, <2>8 DEF IInv, PageInv, SwitchOf
    <3>3. BadgeKnown'
      BY <1>1, <2>2, <2>4, <2>5, <2>8, <3>1 DEF IInv, PageInv, BadgeKnown, Asking, Counts, Prefs
    <3>4. SwitchCurrent'
      BY <1>1, <2>8, <3>1 DEF IInv, PageInv, SwitchOf, SwitchCurrent, Prefs
    <3>5. dnd' \in BOOLEAN
      BY <1>1, <3>1
    <3> QED  BY <1>1, <2>2, <2>3, <2>6, <3>1, <3>2, <3>3, <3>4, <3>5, Freed
  <2> QED  BY <1>5, <2>7, <2>8
<1> QED  BY <1>1, <1>2, <1>3, <1>4, <1>5 DEF AskState, Prefs

LEMMA LoseKeepsIInv ==
  ASSUME IInv, NEW a \in Ask, Lose(a)
  PROVE  IInv'
<1>1. /\ ask[a].pc # "free" /\ UNCHANGED <<server, badge, dnd, moves>>
      /\ ask \in [Ask -> AskState]
      /\ badge' \in Nat /\ dnd' \in BOOLEAN
      /\ UNCHANGED <<notifs, prefs, call, online, wire>>
  BY DEF Lose, IInv, TypeOK, server
<1>2. PICK f : f = IF ask[a].kind = "readall" THEN Voided(Counts) ELSE ask
  OBVIOUS
<1>3. /\ f \in [Ask -> AskState]
      /\ \A b \in Ask : /\ Kept(ask[b], f[b])
                        /\ (ask[a].kind = "readall" /\ f[b].sure) =>
                               ask[b].pc # "answered" \/ ask[b].kind \notin Counts
  <2>1. CASE ask[a].kind = "readall"
    BY <1>1, <1>2, <2>1, VoidedFacts
  <2>2. CASE ask[a].kind # "readall"
    BY <1>1, <1>2, <2>2 DEF Kept
  <2> QED  BY <2>1, <2>2
<1>4. /\ ask' \in [Ask -> AskState] /\ ask'[a] = Free
      /\ \A b \in Ask \ {a} : ask'[b] = f[b] /\ Kept(ask[b], ask'[b])
  <2>1. ask' = [f EXCEPT ![a] = Free]
    BY <1>2 DEF Lose
  <2> QED  BY <1>3, <2>1, FreeFacts
<1>5. /\ exact' \in BOOLEAN /\ synced' \in BOOLEAN
      /\ exact' => exact /\ ask[a].kind \notin Counts \cup {"readall"}
      /\ synced' => synced /\ ask[a].kind \notin Prefs
  BY DEF Lose
<1>6. (Calm' /\ ask[a].kind # "readall") => Calm
  BY <1>1, <1>4 DEF Calm, Kept
<1>7. Unread' = Unread
  BY <1>1 DEF Unread, Mine
<1>8. ASSUME NEW b \in Ask \ {a} PROVE CountOf(b)' /\ SwitchOf(b)'
  <2>1. CountOf(b)'
    BY <1>3, <1>4, <1>6, <1>7 DEF IInv, PageInv, CountOf, Kept
  <2>2. SwitchOf(b)'
    BY <1>1, <1>4, FreeFacts DEF IInv, PageInv, SwitchOf, Kept
  <2> QED  BY <2>1, <2>2
<1>9. BadgeKnown'
  BY <1>1, <1>4, <1>5, <1>6, <1>7 DEF IInv, PageInv, BadgeKnown, Asking, Kept
<1>10. SwitchCurrent'
  BY <1>1, <1>4, <1>5 DEF IInv, PageInv, SwitchCurrent, Asking, Kept
<1> QED  BY <1>1, <1>4, <1>5, <1>8, <1>9, <1>10, Freed

-----------------------------------------------------------------------------

LEMMA NextKeepsIInv == IInv /\ [Next]_vars => IInv'
<1> SUFFICES ASSUME IInv, [Next]_vars PROVE IInv'
  OBVIOUS
<1>1. ASSUME NEW c \in Call, Notify(c) \/ Announce(c) PROVE IInv'
  BY <1>1, BeginKeepsIInv
<1>2. ASSUME NEW c \in Call, Gate(c) PROVE IInv'
  BY <1>2, GateKeepsIInv
<1>3. ASSUME NEW c \in Call, Insert(c) PROVE IInv'
  BY <1>3, InsertKeepsIInv
<1>4. ASSUME NEW c \in Call, Emit(c) PROVE IInv'
  BY <1>4, EmitKeepsIInv
<1>5. ASSUME NEW c \in Call, FailCall(c) PROVE IInv'
  BY <1>5, FailCallKeepsIInv
<1>6. ASSUME NEW a \in Ask, Deliver(a) \/ Bell(a) \/ Toggle(a) PROVE IInv'
  BY <1>6, AsksKeepIInv
<1>7. ASSUME NEW a \in Ask, Serve(a) \/ ServeError(a) PROVE IInv'
  BY <1>7, ServeKeepsIInv
<1>8. ASSUME NEW a \in Ask, Apply(a) PROVE IInv'
  BY <1>8, ApplyKeepsIInv
<1>9. ASSUME NEW a \in Ask, Lose(a) PROVE IInv'
  BY <1>9, LoseKeepsIInv
<1>10. CASE Connect \/ Disconnect
  BY <1>10, OnlineKeepsIInv
<1>11. CASE ReadElsewhere
  BY <1>11, ReadElsewhereKeepsIInv
<1>12. CASE DndElsewhere
  BY <1>12, DndKeepsIInv
<1>13. CASE MuteElsewhere
  BY <1>13, MuteKeepsIInv
<1>14. CASE UNCHANGED vars
  <2>1. UNCHANGED <<notifs, prefs, call, online, wire, badge, dnd, ask, moves, exact, synced>>
    BY <1>14 DEF vars, server, page
  <2>2. TypeOK' /\ NotifierInv'
    BY <2>1 DEF IInv, TypeOK, NotifierInv, CallInv, RowInv, Told
  <2>3. Unread' = Unread /\ (Calm' => Calm)
    BY <2>1 DEF Unread, Mine, Calm
  <2>4. PageInv'
    BY <2>1, <2>3, PageStands DEF page
  <2> QED  BY <2>2, <2>4 DEF IInv
<1> QED  BY <1>1, <1>2, <1>3, <1>4, <1>5, <1>6, <1>7, <1>8, <1>9, <1>10, <1>11, <1>12, <1>13,
            <1>14 DEF Next

LEMMA Invariance == Spec => []IInv
BY InitIInv, NextKeepsIInv, PTL DEF Spec

(* Every variable keeps its type.                                            *)
THEOREM NotifierTypeCorrect == Spec => []TypeOK
<1>1. IInv => TypeOK
  BY IInvImplies
<1> QED  BY <1>1, Invariance, PTL

(* refreshBadge of web/app.js: whenever nothing is under way and nothing     *)
(* has happened behind the back of the page, the number on the bell is the   *)
(* number of unread rows, in whatever order the counts came back.            *)
THEOREM BadgeCorrect == Spec => []BadgeCurrent
<1>1. IInv => BadgeCurrent
  BY IInvImplies
<1> QED  BY <1>1, Invariance, PTL

(* The do-not-disturb switch shows what the notifier will go by, once its    *)
(* requests are over and none of them overlapped or failed.                  *)
THEOREM SwitchCorrect == Spec => []SwitchCurrent
<1>1. IInv => SwitchCurrent
  BY IInvImplies
<1> QED  BY <1>1, Invariance, PTL

(* The bell marks everything read after it has fetched its list: no row it   *)
(* is about to show still counts as unread.                                  *)
THEOREM BellCorrect == Spec => []BellReads
<1>1. IInv => BellReads
  BY IInvImplies
<1> QED  BY <1>1, Invariance, PTL

(* The gate of services/notify.js: a call notified while do-not-disturb was  *)
(* on from beginning to end leaves no row.                                   *)
THEOREM DndCorrect == Spec => []NoCallUnderDnd
<1>1. IInv => NoCallUnderDnd
  BY IInvImplies
<1> QED  BY <1>1, Invariance, PTL

(* The loop of POST /admin/announce: at most one row for each recipient, and *)
(* exactly one for each once it has answered.                                *)
THEOREM AnnouncedCorrect == Spec => []AnnouncedOnce
<1>1. IInv => AnnouncedOnce
  BY IInvImplies
<1> QED  BY <1>1, Invariance, PTL
=============================================================================
