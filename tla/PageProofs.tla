------------------------------ MODULE PageProofs ------------------------------
(***************************************************************************)
(* What one page promises its user, for any contacts, entries and calls.   *)
(*                                                                         *)
(* The inductive invariant has a part for each of the three components and *)
(* one for what is under way between the page and the server: the two      *)
(* sequences up and down are read as sets of tokens, with a clause for     *)
(* each kind of token that says which of them can exist together.          *)
(***************************************************************************)
EXTENDS Page, SequenceTheorems, TLAPS

USE ViewsAssumption, ChatAssumption, CallAssumption

-----------------------------------------------------------------------------
(* The types, those of what is under way included. *)

Event == [kind: {"message", "ack", "incoming", "cancelled", "over"},
          of: Peer \cup {None}, n: Nat]
Request == [kind: {"ring", "accept", "decline", "hangup"}, call: Nat,
            peer: Peer \cup {None}]
CallRow == [peer: Peer, by: {"me", "peer"}, status: {"rings", "taken", "over"}]

EventOk(e) == IF e.kind = "message" THEN e.of \in Peer /\ e.n \in 1..MaxMoves
                                    ELSE e.n \in DOMAIN calls
RequestOk(x) == IF x.kind = "ring" THEN x.peer \in Peer ELSE x.call \in DOMAIN calls

ChatTyped ==
    /\ ChatTypeOK
    /\ pane \in Seq(Message) /\ down \in Seq(Event)
    /\ \A i \in DOMAIN down : EventOk(down[i])
    /\ \A o \in Opening : opening[o].pc = "answered" => opening[o].conv \in Peer

CallTyped ==
    /\ CallTypeOK
    /\ up \in Seq(Request) /\ calls \in Seq(CallRow)
    /\ \A i \in DOMAIN up : RequestOk(up[i])
    /\ \A j \in Joining : joining[j].pc # "free" => joining[j].call \in DOMAIN calls
    /\ room # NoRoom => room.call \in DOMAIN calls

-----------------------------------------------------------------------------
(* The views. *)

ViewsInv ==
    patient =>
        /\ \A f, g \in Fetch : fetch[f].pc # "free" /\ fetch[g].pc # "free" => f = g
        /\ \A f \in Fetch :
              /\ fetch[f].pc # "free" => fetch[f].of = chosen
              /\ fetch[f].pc = "answered" => fetch[f].seen >= own
        /\ Settled => view.of = chosen /\ view.seen >= own

-----------------------------------------------------------------------------
(* The chat. *)

OfCurrent(i) == down[i].kind = "message" /\ down[i].of = current

Unsent == \E m \in posted : m.of = current

(* The first messages are drawn, and the rest are on their way, in order.    *)
Aligned ==
    LET k   == Len(pane)
        top == IF Unsent THEN count[current] - 1 ELSE count[current] IN
    /\ k <= top
    /\ pane = History(current, k)
    /\ \A m \in posted : m.of = current => m.n = count[current]
    /\ \A i \in DOMAIN down : OfCurrent(i) => down[i].n \in (k + 1)..top
    /\ \A n \in (k + 1)..top : \E i \in DOMAIN down : OfCurrent(i) /\ down[i].n = n
    /\ \A i, j \in DOMAIN down : OfCurrent(i) /\ OfCurrent(j) /\ i < j => down[i].n < down[j].n

AllFree == \A o \in Opening : opening[o].pc = "free"

ChatInv ==
    exact =>
        /\ current \in Peer
        /\ \A o, q \in Opening : opening[o].pc # "free" /\ opening[q].pc # "free" => o = q
        /\ \A o \in Opening : opening[o].pc # "free" =>
              /\ opening[o].peer = current
              /\ opening[o].pc # "dm" => opening[o].conv = current
              /\ opening[o].pc \in {"history", "answered"} => convId[current] = current
              /\ opening[o].pc = "answered" => opening[o].seen = count[current]
        /\ joins \subseteq {current}
        /\ ~Opened => Quiet(current)
        /\ Unsent => current \in rooms
        /\ AllFree => convId[current] = current /\ Aligned

-----------------------------------------------------------------------------
(* The calls. *)

Down(kind, c) == \E i \in DOMAIN down : down[i].kind = kind /\ down[i].n = c
Up(kind, c) == \E i \in DOMAIN up : up[i].kind = kind /\ up[i].call = c
Pending(c) == c \in unacked \/ Down("ack", c)
Joins(c) == \/ \E j \in Joining : joining[j].pc # "free" /\ joining[j].call = c
            \/ room # NoRoom /\ room.call = c

(* An answer to a ring, and the announcement of a call, are there once. *)
OnceEach ==
    \A i, k \in DOMAIN down :
        (down[i].kind \in {"ack", "incoming"} /\ down[k].kind = down[i].kind
         /\ down[k].n = down[i].n) => i = k

(* Where a token is, it is nowhere else. *)
Once ==
    /\ \A c \in unacked : ~Down("ack", c)
    /\ OnceEach
    /\ \A c \in DOMAIN calls : Down("incoming", c) =>
          incoming # c /\ ~Up("accept", c) /\ ~Up("decline", c) /\ ~Joins(c)
    /\ incoming # 0 =>
          ~Up("accept", incoming) /\ ~Up("decline", incoming) /\ ~Joins(incoming)
    /\ \A c \in DOMAIN calls : Pending(c) => active # c /\ ~Up("hangup", c)
    /\ \A c \in DOMAIN calls : Up("decline", c) => ~Joins(c)

(* Who has made the call that a token is about. *)
Sides ==
    /\ \A c \in DOMAIN calls : Pending(c) \/ Up("hangup", c) => Mine(c)
    /\ active # 0 => Mine(active)
    /\ incoming # 0 => ~Mine(incoming)
    /\ \A c \in DOMAIN calls :
          Down("incoming", c) \/ Up("accept", c) \/ Up("decline", c) => ~Mine(c)

SteadyInv ==
    steady =>
        /\ \A i \in DOMAIN up : up[i].kind = "ring" => up[i].peer = current
        /\ \A c \in DOMAIN calls : Pending(c) => calls[c].peer = current
        /\ \A j \in Joining : joining[j].pc # "free" =>
              joining[j].peer = calls[joining[j].call].peer
        /\ room # NoRoom => room.peer = calls[room.call].peer

Alive(c) == Mine(c) /\ calls[c].status # "over"

SingleInv ==
    single =>
        /\ \A i \in DOMAIN up : up[i].kind = "ring" =>
              /\ \A c \in DOMAIN calls : ~Alive(c) /\ ~Pending(c)
              /\ \A k \in DOMAIN up : up[k].kind = "ring" => k = i
        /\ \A c, d \in DOMAIN calls : Pending(c) /\ Alive(d) => c = d
        /\ \A c \in DOMAIN calls : Alive(c) => Pending(c) \/ active = c \/ Up("hangup", c)

Over(c) == calls[c].status = "over"

IntactInv ==
    intact => \A c \in DOMAIN calls :
        /\ Pending(c) /\ Over(c) => Down("over", c) \/ c \in told
        /\ Joins(c) /\ Over(c) => Down("over", c) \/ Up("accept", c)
        /\ Joins(c) /\ ~Mine(c) /\ calls[c].status = "rings" => Up("accept", c)
        /\ Up("hangup", c) => ~Joins(c)

IInv ==
    /\ ViewsTypeOK /\ ViewsInv
    /\ ChatTyped /\ ChatInv
    /\ CallTyped /\ Once /\ Sides /\ SteadyInv /\ SingleInv /\ IntactInv

-----------------------------------------------------------------------------
(* Sequences that grow at their end and are read from their head. *)

LEMMA Indices ==
  ASSUME NEW S, NEW s \in Seq(S)
  PROVE  /\ Len(s) \in Nat /\ DOMAIN s = 1..Len(s)
         /\ \A i \in DOMAIN s : i \in Nat /\ s[i] \in S
         /\ s # <<>> => 1 \in DOMAIN s
BY LenProperties, EmptySeq

LEMMA AppendOf ==
  ASSUME NEW S, NEW s \in Seq(S), NEW e \in S, NEW t, t = Append(s, e)
  PROVE  /\ t \in Seq(S) /\ Len(t) = Len(s) + 1 /\ Len(s) \in Nat
         /\ DOMAIN t = DOMAIN s \cup {Len(s) + 1}
         /\ Len(s) + 1 \notin DOMAIN s /\ t[Len(s) + 1] = e
         /\ \A i \in DOMAIN s : t[i] = s[i] /\ i < Len(s) + 1
<1>1. /\ t \in Seq(S) /\ Len(t) = Len(s) + 1
      /\ \A i \in 1..Len(s) : t[i] = s[i]
      /\ t[Len(s) + 1] = e
  BY AppendProperties
<1>2. Len(s) \in Nat /\ DOMAIN s = 1..Len(s) /\ DOMAIN t = 1..(Len(s) + 1)
  BY <1>1, Indices
<1> QED  BY <1>1, <1>2

LEMMA TailOf ==
  ASSUME NEW S, NEW s \in Seq(S), s # <<>>, NEW t, t = Tail(s)
  PROVE  /\ t \in Seq(S) /\ Head(s) = s[1] /\ Head(s) \in S /\ 1 \in DOMAIN s
         /\ \A i \in DOMAIN t : i \in Nat /\ i + 1 \in DOMAIN s /\ t[i] = s[i + 1]
         /\ \A i \in DOMAIN s \ {1} : i \in Nat /\ i - 1 \in DOMAIN t /\ t[i - 1] = s[i]
<1>1. /\ Head(s) \in S /\ t \in Seq(S) /\ Len(t) = Len(s) - 1
      /\ \A i \in 1..Len(t) : t[i] = s[i + 1]
  BY HeadTailProperties
<1>2. /\ Len(s) \in Nat \ {0} /\ DOMAIN s = 1..Len(s) /\ DOMAIN t = 1..(Len(s) - 1)
  BY <1>1, Indices, EmptySeq
<1>3. Head(s) = s[1]
  OBVIOUS
<1> QED  BY <1>1, <1>2, <1>3

-----------------------------------------------------------------------------
(* What is under way, token by token. *)

LEMMA Taken ==
  ASSUME down \in Seq(Event), TakeEvent, NEW e, e = Head(down)
  PROVE  /\ down' \in Seq(Event) /\ e \in Event /\ Down(e.kind, e.n)
         /\ \A kind, c : Down(kind, c)' => Down(kind, c)
         /\ \A kind, c : Down(kind, c) => Down(kind, c)' \/ (kind = e.kind /\ c = e.n)
         /\ \A i \in DOMAIN down' : \E k \in DOMAIN down : down'[i] = down[k]
         /\ \E k \in DOMAIN down : e = down[k]
         /\ OnceEach => OnceEach'
         /\ (OnceEach /\ e.kind \in {"ack", "incoming"}) => ~Down(e.kind, e.n)'
<1>1. /\ down' \in Seq(Event) /\ e = down[1] /\ e \in Event /\ 1 \in DOMAIN down
      /\ \A i \in DOMAIN down' : i \in Nat /\ i + 1 \in DOMAIN down /\ down'[i] = down[i + 1]
      /\ \A i \in DOMAIN down \ {1} :
            i \in Nat /\ i - 1 \in DOMAIN down' /\ down'[i - 1] = down[i]
  BY TailOf DEF TakeEvent
<1>2. ASSUME NEW kind, NEW c, Down(kind, c)' PROVE Down(kind, c)
  BY <1>1, <1>2 DEF Down
<1>3. ASSUME NEW kind, NEW c, Down(kind, c), ~(kind = e.kind /\ c = e.n) PROVE Down(kind, c)'
  BY <1>1, <1>3 DEF Down
<1>4. OnceEach => OnceEach'
  <2> SUFFICES ASSUME OnceEach, NEW i \in DOMAIN down', NEW k \in DOMAIN down',
                      down'[i].kind \in {"ack", "incoming"}, down'[k].kind = down'[i].kind,
                      down'[k].n = down'[i].n
               PROVE  i = k
    BY DEF OnceEach
  <2>1. /\ i \in Nat /\ i + 1 \in DOMAIN down /\ down'[i] = down[i + 1]
        /\ k \in Nat /\ k + 1 \in DOMAIN down /\ down'[k] = down[k + 1]
    BY <1>1
  <2>2. PICK a, b \in DOMAIN down : a = i + 1 /\ b = k + 1
    BY <2>1
  <2>3. a = b
    BY <2>1, <2>2 DEF OnceEach
  <2> QED  BY <2>1, <2>2, <2>3
<1>5. (OnceEach /\ e.kind \in {"ack", "incoming"}) => ~Down(e.kind, e.n)'
  BY <1>1 DEF OnceEach, Down
<1>6. Down(e.kind, e.n) /\ \A i \in DOMAIN down' : \E k \in DOMAIN down : down'[i] = down[k]
  BY <1>1 DEF Down
<1> QED  BY <1>1, <1>2, <1>3, <1>4, <1>5, <1>6

LEMMA Pushed ==
  ASSUME down \in Seq(Event), NEW e \in Event, down' = Append(down, e)
  PROVE  /\ down' \in Seq(Event)
         /\ \A kind, c : Down(kind, c)' <=> (Down(kind, c) \/ (kind = e.kind /\ c = e.n))
         /\ \A i \in DOMAIN down' : down'[i] = e \/ \E k \in DOMAIN down : down'[i] = down[k]
         /\ (OnceEach /\ (e.kind \in {"ack", "incoming"} => ~Down(e.kind, e.n))) => OnceEach'
<1>1. /\ down' \in Seq(Event) /\ Len(down) \in Nat
      /\ DOMAIN down' = DOMAIN down \cup {Len(down) + 1}
      /\ Len(down) + 1 \notin DOMAIN down /\ down'[Len(down) + 1] = e
      /\ \A i \in DOMAIN down : down'[i] = down[i] /\ i < Len(down) + 1
  BY AppendOf
<1>2. ASSUME NEW kind, NEW c
      PROVE  Down(kind, c)' <=> (Down(kind, c) \/ (kind = e.kind /\ c = e.n))
  BY <1>1 DEF Down
<1>3. (OnceEach /\ (e.kind \in {"ack", "incoming"} => ~Down(e.kind, e.n))) => OnceEach'
  BY <1>1 DEF OnceEach, Down
<1> QED  BY <1>1, <1>2, <1>3

LEMMA Handled ==
  ASSUME up \in Seq(Request), up # <<>>, up' = Tail(up), NEW x, x = Head(up)
  PROVE  /\ up' \in Seq(Request) /\ x \in Request /\ Up(x.kind, x.call)
         /\ 1 \in DOMAIN up /\ x = up[1]
         /\ \A kind, c : Up(kind, c)' => Up(kind, c)
         /\ \A kind, c : Up(kind, c) => Up(kind, c)' \/ (kind = x.kind /\ c = x.call)
         /\ \A i \in DOMAIN up' : i \in Nat /\ i + 1 \in DOMAIN up /\ up'[i] = up[i + 1]
<1>1. /\ up' \in Seq(Request) /\ x = up[1] /\ x \in Request /\ 1 \in DOMAIN up
      /\ \A i \in DOMAIN up' : i \in Nat /\ i + 1 \in DOMAIN up /\ up'[i] = up[i + 1]
      /\ \A i \in DOMAIN up \ {1} : i \in Nat /\ i - 1 \in DOMAIN up' /\ up'[i - 1] = up[i]
  BY TailOf
<1>2. ASSUME NEW kind, NEW c, Up(kind, c)' PROVE Up(kind, c)
  BY <1>1, <1>2 DEF Up
<1>3. ASSUME NEW kind, NEW c, Up(kind, c), ~(kind = x.kind /\ c = x.call) PROVE Up(kind, c)'
  BY <1>1, <1>3 DEF Up
<1>4. Up(x.kind, x.call)
  BY <1>1 DEF Up
<1> QED  BY <1>1, <1>2, <1>3, <1>4

LEMMA Emitted ==
  ASSUME up \in Seq(Request), NEW x \in Request, up' = Append(up, x)
  PROVE  /\ up' \in Seq(Request)
         /\ \A kind, c : Up(kind, c)' <=> (Up(kind, c) \/ (kind = x.kind /\ c = x.call))
         /\ DOMAIN up' = DOMAIN up \cup {Len(up) + 1}
         /\ up'[Len(up) + 1] = x
         /\ \A i \in DOMAIN up : up'[i] = up[i]
<1>1. /\ up' \in Seq(Request) /\ Len(up) \in Nat
      /\ DOMAIN up' = DOMAIN up \cup {Len(up) + 1} /\ up'[Len(up) + 1] = x
      /\ \A i \in DOMAIN up : up'[i] = up[i]
  BY AppendOf
<1>2. ASSUME NEW kind, NEW c
      PROVE  Up(kind, c)' <=> (Up(kind, c) \/ (kind = x.kind /\ c = x.call))
  BY <1>1 DEF Up
<1> QED  BY <1>1, <1>2

-----------------------------------------------------------------------------
(* The views. *)

LEMMA Frame ==
  ASSUME IInv, UNCHANGED <<chatVars, callVars>>
  PROVE  /\ ChatTyped' /\ ChatInv' /\ CallTyped' /\ Once' /\ Sides' /\ SteadyInv'
         /\ SingleInv' /\ IntactInv'
<1> SUFFICES ASSUME UNCHANGED <<current, convId, pane, opening, joins, rooms, count, posted, down,
                                exact, calls, up, unacked, incoming, active, joining, script,
                                room, told, steady, single, intact>>
             PROVE  /\ ChatTyped' /\ ChatInv' /\ CallTyped' /\ Once' /\ Sides' /\ SteadyInv'
                    /\ SingleInv' /\ IntactInv'
  BY DEF chatVars, callVars
<1>1. ChatTyped'
  BY DEF IInv, ChatTyped, ChatTypeOK, EventOk
<1>2. CallTyped'
  BY DEF IInv, CallTyped, CallTypeOK, RequestOk
<1>3. /\ \A kind, c : Down(kind, c)' <=> Down(kind, c)
      /\ \A kind, c : Up(kind, c)' <=> Up(kind, c)
      /\ OnceEach' <=> OnceEach
  BY DEF Down, Up, OnceEach
<1>4. /\ \A c : Pending(c)' <=> Pending(c)
      /\ \A c : Joins(c)' <=> Joins(c)
      /\ \A c : Mine(c)' <=> Mine(c)
      /\ \A c : Over(c)' <=> Over(c)
      /\ \A c : Alive(c)' <=> Alive(c)
  BY <1>3 DEF Pending, Joins, Mine, Over, Alive
<1>5. Once' /\ Sides'
  BY <1>3, <1>4 DEF IInv, Once, Sides
<1>6. SteadyInv' /\ SingleInv' /\ IntactInv'
  BY <1>3, <1>4 DEF IInv, SteadyInv, SingleInv, IntactInv
<1>7. ChatInv'
  <2>1. (Opened' <=> Opened) /\ (Quiet(current)' <=> Quiet(current)) /\ (Unsent' <=> Unsent)
        /\ (AllFree' <=> AllFree)
    BY DEF Opened, Quiet, Unsent, AllFree
  <2>2. Aligned' <=> Aligned
    BY <2>1 DEF Aligned, OfCurrent, History
  <2> QED  BY <2>1, <2>2 DEF IInv, ChatInv
<1> QED  BY <1>1, <1>2, <1>5, <1>6, <1>7

LEMMA ClickKeepsViews ==
  ASSUME IInv, \/ \E i \in Item \cup {Chat} : ClickStatic(i)
               \/ \E f \in Fetch : (\E i \in Item : ClickItem(f, i)) \/ ClickBell(f) \/ ClickButton(f)
               \/ ChangeElsewhere
  PROVE  ViewsTypeOK' /\ ViewsInv'
<1>1. ViewsTypeOK /\ ViewsInv
  BY DEF IInv
<1>2. moves' \in 0..MaxMoves
  BY <1>1 DEF ViewsTypeOK, ClickStatic, ClickItem, ClickBell, ClickButton, ChangeElsewhere, Move
<1>3. ASSUME NEW i \in Item \cup {Chat}, ClickStatic(i) PROVE ViewsTypeOK' /\ ViewsInv'
  <2>1. ViewsTypeOK'
    BY <1>1, <1>2, <1>3 DEF ViewsTypeOK, ClickStatic
  <2>2. ViewsInv'
    <3>1. own <= version /\ view'.of = chosen' /\ view'.seen = version
      BY <1>1, <1>3 DEF ViewsTypeOK, ClickStatic
    <3>2. UNCHANGED <<fetch, own>> /\ patient' = (patient /\ Settled)
      BY <1>3 DEF ClickStatic
    <3> QED  BY <3>1, <3>2 DEF ViewsInv, Settled
  <2> QED  BY <2>1, <2>2
<1>4. ASSUME NEW f \in Fetch, NEW pc \in {"change", "read"}, NEW i \in Item \cup {Bell},
             fetch[f].pc = "free", Ask(f, pc, i), chosen' = i,
             view' = view \/ (view' = [of |-> i, seen |-> 0] /\ i \in Item),
             patient' \in BOOLEAN, patient' => patient /\ Settled, nav' \in Item \cup {Chat},
             UNCHANGED <<version, own>>
      PROVE  ViewsTypeOK' /\ ViewsInv'
  <2>1. PICK x : x = [pc |-> pc, of |-> i, seen |-> 0]
    OBVIOUS
  <2>2. /\ fetch' = [fetch EXCEPT ![f] = x] /\ x.pc = pc /\ x.of = i /\ x.pc # "answered"
        /\ x \in [pc: {"free", "change", "changed", "read", "answered"},
                  of: Item \cup {Bell}, seen: 0..version]
    BY <1>1, <1>4, <2>1 DEF Ask, ViewsTypeOK
  <2>3. ViewsTypeOK'
    BY <1>1, <1>2, <1>4, <2>2 DEF ViewsTypeOK
  <2>4. ViewsInv'
    BY <1>1, <1>4, <2>2 DEF ViewsTypeOK, ViewsInv, Settled
  <2> QED  BY <2>3, <2>4
<1>5. ASSUME NEW f \in Fetch, NEW i \in Item, ClickItem(f, i) PROVE ViewsTypeOK' /\ ViewsInv'
  <2>1. PICK pc \in {"change", "read"} : pc = "read"
    OBVIOUS
  <2> QED  BY <1>1, <1>4, <1>5, <2>1 DEF ClickItem, Announced
<1>6. ASSUME NEW f \in Fetch, ClickBell(f) PROVE ViewsTypeOK' /\ ViewsInv'
  <2>1. PICK x : x = [pc |-> "read", of |-> Bell, seen |-> 0]
    OBVIOUS
  <2>2. /\ fetch' = [fetch EXCEPT ![f] = x] /\ x.pc = "read" /\ x.of = Bell
        /\ x \in [pc: {"free", "change", "changed", "read", "answered"},
                  of: Item \cup {Bell}, seen: 0..version]
    BY <1>1, <1>6, <2>1 DEF ClickBell, Ask, ViewsTypeOK
  <2>3. ViewsTypeOK'
    BY <1>1, <1>2, <1>6, <2>2 DEF ViewsTypeOK, ClickBell
  <2>4. ViewsInv'
    BY <1>1, <1>6, <2>2 DEF ViewsTypeOK, ViewsInv, ClickBell, Settled
  <2> QED  BY <2>3, <2>4
<1>7. ASSUME NEW f \in Fetch, ClickButton(f) PROVE ViewsTypeOK' /\ ViewsInv'
  <2>1. PICK pc \in {"change", "read"} : pc = "change"
    OBVIOUS
  <2>2. nav' \in Item \cup {Chat} /\ view.of \in Item
    BY <1>1, <1>7 DEF ClickButton, ViewsTypeOK
  <2>3. PICK i \in Item : i = view.of
    BY <2>2
  <2> QED  BY <1>4, <1>7, <2>1, <2>2, <2>3 DEF ClickButton
<1>8. CASE ChangeElsewhere
  <2>1. version' = version + 1 /\ version' \in 1..(MaxMoves + 1) /\ version \in Nat
    BY <1>1, <1>8 DEF ViewsTypeOK, ChangeElsewhere
  <2>2. 0..version \subseteq 0..version'
    BY <2>1
  <2>3. /\ fetch \in [Fetch -> [pc: {"free", "change", "changed", "read", "answered"},
                               of: Item \cup {Bell}, seen: 0..version']]
        /\ view \in [of: Item \cup {Chat, Bell}, seen: 0..version'] /\ own \in 0..version'
    BY <1>1, <2>2 DEF ViewsTypeOK
  <2>4. ViewsTypeOK'
    BY <1>1, <1>2, <1>8, <2>1, <2>3 DEF ViewsTypeOK, ChangeElsewhere
  <2>5. ViewsInv'
    BY <1>1, <1>8 DEF ViewsInv, ChangeElsewhere, Settled
  <2> QED  BY <2>4, <2>5
<1> QED  BY <1>3, <1>5, <1>6, <1>7, <1>8

LEMMA AnswerKeepsViews ==
  ASSUME IInv, NEW f \in Fetch,
         ServeChange(f) \/ ServeView(f) \/ Redraw(f) \/ Draw(f) \/ FailView(f)
  PROVE  ViewsTypeOK' /\ ViewsInv'
<1> DEFINE Fetching == [pc: {"free", "change", "changed", "read", "answered"},
                        of: Item \cup {Bell}, seen: 0..version]
<1>1. /\ ViewsTypeOK /\ ViewsInv /\ fetch \in [Fetch -> Fetching] /\ fetch[f] \in Fetching
      /\ moves' = moves /\ nav' = nav /\ chosen' = chosen /\ version \in Nat /\ version >= 1
  BY DEF IInv, ViewsTypeOK, ServeChange, ServeView, Redraw, Draw, FailView
<1>2. CASE ServeChange(f)
  <2>1. version' = version + 1 /\ version' \in 1..(MaxMoves + 1) /\ own' = version'
    BY <1>1, <1>2 DEF ViewsTypeOK, ServeChange
  <2>2. PICK x : x = [fetch[f] EXCEPT !.pc = "changed"]
    OBVIOUS
  <2>3. /\ fetch' = [fetch EXCEPT ![f] = x] /\ x \in Fetching /\ x.pc = "changed"
        /\ x.of = fetch[f].of
    BY <1>1, <1>2, <2>2 DEF ServeChange
  <2>4. 0..version \subseteq 0..version' /\ own' \in 0..version'
    BY <1>1, <2>1
  <2>5. /\ fetch' \in [Fetch -> [pc: {"free", "change", "changed", "read", "answered"},
                                of: Item \cup {Bell}, seen: 0..version']]
        /\ view \in [of: Item \cup {Chat, Bell}, seen: 0..version']
    BY <1>1, <2>3, <2>4 DEF ViewsTypeOK
  <2>6. ViewsTypeOK'
    BY <1>1, <1>2, <2>1, <2>4, <2>5 DEF ViewsTypeOK, ServeChange
  <2>7. ViewsInv'
    BY <1>1, <1>2, <2>3 DEF ViewsInv, ServeChange, Settled
  <2> QED  BY <2>6, <2>7
<1>3. ASSUME NEW x \in Fetching, fetch' = [fetch EXCEPT ![f] = x], UNCHANGED <<version, own>>,
             view' \in [of: Item \cup {Chat, Bell}, seen: 0..version], patient' \in BOOLEAN
      PROVE  ViewsTypeOK'
  BY <1>1, <1>3 DEF ViewsTypeOK
<1>4. CASE ServeView(f)
  <2>1. PICK x : x = [fetch[f] EXCEPT !.pc = "answered", !.seen = version]
    OBVIOUS
  <2>2. /\ fetch' = [fetch EXCEPT ![f] = x] /\ x \in Fetching /\ x.pc = "answered"
        /\ x.of = fetch[f].of /\ x.seen = version
    <3>1. version \in 0..version
      BY <1>1
    <3> QED  BY <1>1, <1>4, <2>1, <3>1 DEF ServeView
  <2>3. ViewsTypeOK'
    BY <1>1, <1>3, <1>4, <2>2 DEF ViewsTypeOK, ServeView
  <2>4. ViewsInv'
    BY <1>1, <1>4, <2>2 DEF ViewsTypeOK, ViewsInv, ServeView, Settled
  <2> QED  BY <2>3, <2>4
<1>5. CASE Redraw(f)
  <2>1. PICK x : x = [fetch[f] EXCEPT !.pc = "read"]
    OBVIOUS
  <2>2. /\ fetch' = [fetch EXCEPT ![f] = x] /\ x \in Fetching /\ x.pc = "read"
        /\ x.of = fetch[f].of
    BY <1>1, <1>5, <2>1 DEF Redraw
  <2>3. view' \in [of: Item \cup {Chat, Bell}, seen: 0..version]
    BY <1>1, <1>5 DEF ViewsTypeOK, Redraw, Announced
  <2>4. ViewsTypeOK'
    BY <1>1, <1>3, <1>5, <2>2, <2>3 DEF ViewsTypeOK, Redraw
  <2>5. ViewsInv'
    BY <1>1, <1>5, <2>2 DEF ViewsTypeOK, ViewsInv, Redraw, Settled
  <2> QED  BY <2>4, <2>5
<1>6. CASE Draw(f)
  <2>1. PICK x : x = Free
    OBVIOUS
  <2>2. fetch' = [fetch EXCEPT ![f] = x] /\ x \in Fetching /\ x.pc = "free"
    BY <1>1, <1>6, <2>1 DEF Draw, Free
  <2>3. view' \in [of: Item \cup {Chat, Bell}, seen: 0..version]
        /\ view'.of = fetch[f].of /\ view'.seen = fetch[f].seen
    BY <1>1, <1>6 DEF Draw
  <2>4. ViewsTypeOK'
    BY <1>1, <1>3, <1>6, <2>2, <2>3 DEF ViewsTypeOK, Draw
  <2>5. ViewsInv'
    BY <1>1, <1>6, <2>2, <2>3 DEF ViewsTypeOK, ViewsInv, Draw, Settled
  <2> QED  BY <2>4, <2>5
<1>7. CASE FailView(f)
  <2>1. PICK x \in Fetching : fetch' = [fetch EXCEPT ![f] = x]
    <3>1. CASE fetch' = [fetch EXCEPT ![f] = Free]
      <4>1. Free \in Fetching
        BY <1>1 DEF Free
      <4> QED  BY <3>1, <4>1
    <3>2. ASSUME NEW pc \in {"read", "answered"}, fetch' = [fetch EXCEPT ![f].pc = pc]
          PROVE  \E x \in Fetching : fetch' = [fetch EXCEPT ![f] = x]
      <4>1. PICK x : x = [fetch[f] EXCEPT !.pc = pc]
        OBVIOUS
      <4> QED  BY <1>1, <3>2, <4>1
    <3> QED  BY <1>7, <3>1, <3>2 DEF FailView
  <2>2. ViewsTypeOK'
    BY <1>1, <1>3, <1>7, <2>1 DEF ViewsTypeOK, FailView
  <2>3. ViewsInv'
    BY <1>7 DEF ViewsInv, FailView
  <2> QED  BY <2>2, <2>3
<1> QED  BY <1>2, <1>4, <1>5, <1>6, <1>7

LEMMA ViewsKeepIInv ==
  ASSUME IInv, ViewsNext, UNCHANGED <<chatVars, callVars>>
  PROVE  IInv'
<1>1. ViewsTypeOK' /\ ViewsInv'
  BY ClickKeepsViews, AnswerKeepsViews DEF ViewsNext
<1> QED  BY <1>1, Frame DEF IInv

-----------------------------------------------------------------------------
(* The chat. *)

(* A step of the chat moves no token of a call. *)
LEMMA CallsStand ==
  ASSUME IInv, UNCHANGED <<calls, up, unacked, incoming, active, joining, script, room, told,
                           single, intact>>,
         \A kind, c : kind # "message" => (Down(kind, c)' <=> Down(kind, c)),
         OnceEach', steady' \in BOOLEAN,
         steady' => steady /\ (current' = current \/ ~Ringing)
  PROVE  CallTyped' /\ Once' /\ Sides' /\ SteadyInv' /\ SingleInv' /\ IntactInv'
<1>1. CallTyped'
  BY DEF IInv, CallTyped, CallTypeOK, RequestOk
<1>2. /\ \A kind, c : Up(kind, c)' <=> Up(kind, c)
      /\ \A c : Pending(c)' <=> Pending(c)
      /\ \A c : Joins(c)' <=> Joins(c)
      /\ \A c : Mine(c)' <=> Mine(c)
      /\ \A c : Over(c)' <=> Over(c)
      /\ \A c : Alive(c)' <=> Alive(c)
  BY DEF Up, Pending, Joins, Mine, Over, Alive
<1>3. Once'
  BY <1>2 DEF IInv, Once
<1>4. Sides'
  BY <1>2 DEF IInv, Sides
<1>5. SingleInv' /\ IntactInv'
  BY <1>2 DEF IInv, SingleInv, IntactInv
<1>6. SteadyInv'
  <2>1. CASE current' = current
    BY <1>2, <2>1 DEF IInv, SteadyInv
  <2>2. CASE ~Ringing
    <3>1. /\ \A i \in DOMAIN up : up[i].kind # "ring"
          /\ \A c : ~Pending(c)
      BY <2>2 DEF Ringing, Pending, Down
    <3> QED  BY <1>2, <3>1 DEF IInv, SteadyInv
  <2> QED  BY <2>1, <2>2 DEF SteadyInv
<1> QED  BY <1>1, <1>3, <1>4, <1>5, <1>6

Slot == [pc: {"free", "dm", "found", "history", "answered"},
         peer: Peer \cup {None}, conv: Peer \cup {None}, seen: 0..MaxMoves]

(* The steps of openChat. *)
LEMMA OpeningKeepsChat ==
  ASSUME IInv, NEW o \in Opening, UNCHANGED calls,
         \/ \E p \in Peer : OpenChat(o, p)
         \/ ServeDm(o) \/ AskHistory(o) \/ ServeHistory(o) \/ FailOpening(o)
  PROVE  ChatTyped' /\ ChatInv'
<1>1. /\ ChatTyped /\ ChatInv /\ opening \in [Opening -> Slot] /\ opening[o] \in Slot
      /\ convId \in [Peer -> Peer \cup {None}] /\ count \in [Peer -> 0..MaxMoves]
      /\ UNCHANGED <<rooms, count, posted, down>>
  BY DEF IInv, ChatTyped, ChatTypeOK, Slot, OpenChat, ServeDm, AskHistory, ServeHistory,
         FailOpening
<1>2. ASSUME NEW x \in Slot, opening' = [opening EXCEPT ![o] = x], UNCHANGED calls,
             current' \in Peer \cup {None}, convId' \in [Peer -> Peer \cup {None}],
             joins' \subseteq Peer, exact' \in BOOLEAN, pane' \in Seq(Message),
             x.pc = "answered" => x.conv \in Peer
      PROVE  /\ ChatTyped' /\ opening'[o] = x
             /\ \A q \in Opening \ {o} : opening'[q] = opening[q]
  <2>1. ChatTypeOK'
    <3>1. \A i \in DOMAIN pane' : pane'[i] \in Message
      BY <1>2, Indices
    <3>2. opening' \in [Opening -> Slot]
      BY <1>1, <1>2
    <3> QED  BY <1>1, <1>2, <3>1, <3>2 DEF ChatTyped, ChatTypeOK, Slot
  <2> QED  BY <1>1, <1>2, <2>1 DEF ChatTyped, EventOk
<1>3. ASSUME NEW p \in Peer, OpenChat(o, p) PROVE ChatTyped' /\ ChatInv'
  <2>1. PICK y : y = Idle
    OBVIOUS
  <2>2. PICK x : x = [y EXCEPT !.pc = "dm", !.peer = p]
    OBVIOUS
  <2>6. y \in Slot
    <3>1. 0 \in 0..MaxMoves
      OBVIOUS
    <3> QED  BY <2>1, <3>1 DEF Idle, Slot
  <2>7. x \in Slot /\ x.pc = "dm" /\ x.peer = p
    BY <2>2, <2>6 DEF Slot
  <2>8. opening' = [opening EXCEPT ![o] = x]
    BY <1>3, <2>1, <2>2 DEF OpenChat
  <2>3. /\ exact' \in BOOLEAN
        /\ exact' => Opened /\ Quiet(p)
    BY <1>3, Zenon DEF OpenChat, Opened, Quiet
  <2>4. ChatTyped' /\ opening'[o] = x /\ \A q \in Opening \ {o} : opening'[q] = opening[q]
    BY <1>1, <1>2, <1>3, <2>3, <2>7, <2>8 DEF OpenChat, ChatTyped, ChatTypeOK
  <2>5. ChatInv'
    BY <1>1, <1>3, <2>3, <2>4, <2>7 DEF OpenChat, ChatInv, Opened, Quiet, Unsent, AllFree
  <2> QED  BY <2>4, <2>5
<1>4. ASSUME opening[o].pc # "free", exact
      PROVE  /\ current \in Peer /\ opening[o].peer = current /\ Quiet(current)
             /\ opening[o].pc # "dm" => opening[o].conv = current
             /\ opening[o].pc \in {"history", "answered"} => convId[current] = current
             /\ joins \subseteq {current} /\ (Unsent => current \in rooms)
             /\ \A q \in Opening \ {o} : opening[q].pc = "free"
  BY <1>1, <1>4 DEF ChatInv, Opened
<1>5. ASSUME NEW x \in Slot, opening' = [opening EXCEPT ![o] = x], opening[o].pc # "free",
             x.pc # "free", exact' = exact, UNCHANGED <<current, pane>>,
             convId' \in [Peer -> Peer \cup {None}], joins' \subseteq Peer, ChatTyped',
             exact => /\ x.peer = current /\ joins' \subseteq {current}
                      /\ x.pc # "dm" => x.conv = current
                      /\ x.pc \in {"history", "answered"} => convId'[current] = current
                      /\ x.pc = "answered" => x.seen = count[current]
      PROVE  ChatInv'
  <2>1. opening'[o] = x /\ \A q \in Opening \ {o} : opening'[q] = opening[q]
    BY <1>1, <1>5
  <2> QED  BY <1>1, <1>4, <1>5, <2>1 DEF ChatInv, Opened, Quiet, Unsent, AllFree
<1>6. CASE ServeDm(o)
  <2>1. PICK x : x = [opening[o] EXCEPT !.pc = "found", !.conv = opening[o].peer]
    OBVIOUS
  <2>2. /\ x \in Slot /\ x.pc = "found" /\ x.peer = opening[o].peer
        /\ x.conv = opening[o].peer /\ opening' = [opening EXCEPT ![o] = x]
    BY <1>1, <1>6, <2>1 DEF ServeDm, Slot
  <2>3. ChatTyped'
    BY <1>1, <1>2, <1>6, <2>2 DEF ServeDm, ChatTyped, ChatTypeOK
  <2> QED  BY <1>1, <1>4, <1>5, <1>6, <2>2, <2>3 DEF ServeDm, ChatTyped, ChatTypeOK
<1>7. CASE AskHistory(o)
  <2>1. PICK x : x = [opening[o] EXCEPT !.pc = "history"]
    OBVIOUS
  <2>2. /\ x \in Slot /\ x.pc = "history" /\ x.peer = opening[o].peer
        /\ x.conv = opening[o].conv /\ opening' = [opening EXCEPT ![o] = x]
    BY <1>1, <1>7, <2>1 DEF AskHistory, Slot
  <2>3. PICK c : c = opening[o].conv
    OBVIOUS
  <2>4. /\ convId' = [convId EXCEPT ![current] = c] /\ c \in Peer \cup {None}
        /\ joins' = joins \cup ({c} \ {None}) /\ joins' \subseteq Peer
        /\ convId' \in [Peer -> Peer \cup {None}]
    BY <1>1, <1>7, <2>3 DEF AskHistory, Slot, ChatTyped, ChatTypeOK
  <2>5. ChatTyped'
    BY <1>1, <1>2, <1>7, <2>2, <2>4 DEF AskHistory, ChatTyped, ChatTypeOK
  <2>6. exact => c = current /\ current \in Peer /\ joins' \subseteq {current} /\ x.peer = current
    BY <1>4, <1>7, <2>2, <2>3, <2>4 DEF AskHistory
  <2> QED  BY <1>1, <1>5, <1>7, <2>2, <2>3, <2>4, <2>5, <2>6 DEF AskHistory
<1>8. CASE ServeHistory(o)
  <2>1. PICK k : k = count[opening[o].conv]
    OBVIOUS
  <2>2. PICK x : x = [opening[o] EXCEPT !.pc = "answered", !.seen = k]
    OBVIOUS
  <2>3. opening[o].conv \in Peer /\ k \in 0..MaxMoves
    BY <1>1, <1>8, <2>1 DEF ServeHistory, Slot
  <2>4. /\ x \in Slot /\ x.pc = "answered" /\ x.peer = opening[o].peer
        /\ x.conv = opening[o].conv /\ x.seen = k /\ opening' = [opening EXCEPT ![o] = x]
    BY <1>1, <1>8, <2>1, <2>2, <2>3 DEF ServeHistory, Slot
  <2>5. ChatTyped'
    BY <1>1, <1>2, <1>8, <2>4 DEF ServeHistory, ChatTyped, ChatTypeOK
  <2> QED  BY <1>1, <1>4, <1>5, <1>8, <2>1, <2>4, <2>5 DEF ServeHistory, ChatTyped, ChatTypeOK
<1>9. CASE FailOpening(o)
  <2>1. PICK x \in Slot : opening' = [opening EXCEPT ![o] = x] /\ x.pc # "answered"
    <3>1. CASE opening' = [opening EXCEPT ![o] = Idle]
      <4>1. Idle \in Slot /\ Idle.pc # "answered"
        BY DEF Idle, Slot, IInv, ViewsTypeOK
      <4> QED  BY <3>1, <4>1
    <3>2. CASE opening' = [opening EXCEPT ![o].pc = "found"]
      <4>1. PICK x : x = [opening[o] EXCEPT !.pc = "found"]
        OBVIOUS
      <4>2. x \in Slot /\ x.pc # "answered"
        BY <1>1, <4>1 DEF Slot
      <4> QED  BY <1>1, <3>2, <4>1, <4>2
    <3> QED  BY <1>9, <3>1, <3>2 DEF FailOpening
  <2>2. pane' \in Seq(Message)
    <3>1. <<>> \in Seq(Message) /\ pane \in Seq(Message)
      BY <1>1, EmptySeq DEF ChatTyped
    <3> QED  BY <1>9, <3>1 DEF FailOpening
  <2>3. exact' = FALSE
    BY <1>9 DEF FailOpening
  <2>4. ChatTyped'
    BY <1>1, <1>2, <1>9, <2>1, <2>2, <2>3 DEF FailOpening, ChatTyped, ChatTypeOK
  <2> QED  BY <2>3, <2>4 DEF ChatInv
<1> QED  BY <1>3, <1>6, <1>7, <1>8, <1>9

LEMMA HistoryOf ==
  ASSUME NEW p \in Peer, NEW k \in 0..MaxMoves, NEW h, h = History(p, k)
  PROVE  /\ h \in Seq(Message) /\ Len(h) = k
         /\ \A n \in 1..k : h[n] = [of |-> p, n |-> n]
<1>1. /\ k \in Nat /\ DOMAIN h = 1..k
      /\ \A n \in 1..k : h[n] = [of |-> p, n |-> n] /\ h[n] \in Message
  BY DEF History, Message
<1>2. h \in [1..k -> Message]
  BY <1>1 DEF History
<1>3. h \in Seq(Message)
  BY <1>1, <1>2, SeqDef
<1> QED  BY <1>1, <1>2, <1>3, LenProperties

LEMMA DrawKeepsChat ==
  ASSUME IInv, NEW o \in Opening, DrawHistory(o), UNCHANGED calls
  PROVE  ChatTyped' /\ ChatInv'
<1>1. /\ ChatTyped /\ ChatInv /\ opening \in [Opening -> Slot] /\ opening[o] \in Slot
      /\ convId \in [Peer -> Peer \cup {None}] /\ count \in [Peer -> 0..MaxMoves]
      /\ opening[o].pc = "answered" /\ opening[o].conv \in Peer
  BY DEF IInv, ChatTyped, ChatTypeOK, Slot, DrawHistory
<1>2. PICK p \in Peer, k \in 0..MaxMoves : p = opening[o].conv /\ k = opening[o].seen
  BY <1>1 DEF Slot
<1>3. PICK idle : idle = Idle
  OBVIOUS
<1>4. /\ opening' = [opening EXCEPT ![o] = idle] /\ idle \in Slot /\ idle.pc = "free"
      /\ pane' = History(p, k)
  <2>1. 0 \in 0..MaxMoves
    OBVIOUS
  <2>2. idle \in Slot /\ idle.pc = "free"
    BY <1>3, <2>1 DEF Idle, Slot
  <2> QED  BY <1>2, <1>3, <2>2 DEF DrawHistory
<1>5. /\ pane' \in Seq(Message) /\ Len(pane') = k
      /\ \A i \in DOMAIN pane' : pane'[i] \in Message
  <2>1. PICK h : h = History(p, k)
    OBVIOUS
  <2> QED  BY <1>4, <2>1, HistoryOf, Indices
<1>6. ChatTyped'
  <2>1. opening' \in [Opening -> Slot]
    BY <1>1, <1>4
  <2>2. ChatTypeOK'
    BY <1>1, <1>5, <2>1 DEF DrawHistory, ChatTyped, ChatTypeOK, Slot
  <2>3. \A q \in Opening : opening'[q].pc = "answered" => opening'[q].conv \in Peer
    BY <1>1, <1>4 DEF ChatTyped
  <2> QED  BY <1>1, <1>5, <2>2, <2>3 DEF DrawHistory, ChatTyped, EventOk
<1>7. ASSUME exact'
      PROVE  /\ p = current /\ k = count[current] /\ convId[current] = current /\ Quiet(current)
             /\ \A q \in Opening : opening'[q].pc = "free"
  BY <1>1, <1>2, <1>4, <1>7 DEF ChatInv, Opened, DrawHistory
<1>8. ASSUME exact' PROVE Aligned'
  <2>1. ~Unsent' /\ \A i \in DOMAIN down' : ~OfCurrent(i)'
    BY <1>7, <1>8 DEF DrawHistory, Quiet, Unsent, OfCurrent
  <2>2. pane' = History(current, k)' /\ count'[current'] = k /\ Len(pane') = k
    BY <1>4, <1>5, <1>7, <1>8 DEF DrawHistory, History
  <2>3. \A n \in (k + 1)..k : FALSE
    OBVIOUS
  <2> QED  BY <2>1, <2>2, <2>3 DEF Aligned, Unsent
<1>9. ChatInv'
  BY <1>1, <1>7, <1>8 DEF ChatInv, DrawHistory, Opened, Quiet, Unsent, AllFree
<1> QED  BY <1>6, <1>9

LEMMA JoinKeepsChat ==
  ASSUME IInv, NEW p \in Peer, JoinRoom(p), UNCHANGED calls
  PROVE  ChatTyped' /\ ChatInv'
<1>1. ChatTyped'
  BY DEF IInv, ChatTyped, ChatTypeOK, EventOk, JoinRoom
<1>2. ASSUME exact' PROVE ChatInv'
  <2>1. exact /\ rooms \subseteq rooms' /\ joins' \subseteq joins
        /\ UNCHANGED <<current, convId, pane, opening, count, posted, down>>
    BY <1>2 DEF JoinRoom, IInv, ChatTyped, ChatTypeOK
  <2>2. (Opened => Opened') /\ (Quiet(current)' <=> Quiet(current)) /\ (Unsent' <=> Unsent)
        /\ (AllFree' <=> AllFree)
    BY <2>1 DEF Opened, Quiet, Unsent, AllFree
  <2>3. Aligned' <=> Aligned
    BY <2>1, <2>2 DEF Aligned, OfCurrent, History
  <2> QED  BY <2>1, <2>2, <2>3 DEF IInv, ChatInv
<1> QED  BY <1>1, <1>2 DEF ChatInv

LEMMA PostKeepsChat ==
  ASSUME IInv, NEW p \in Peer, Post(p), UNCHANGED calls
  PROVE  ChatTyped' /\ ChatInv'
<1>1. /\ ChatTyped /\ ChatInv /\ count \in [Peer -> 0..MaxMoves] /\ count[p] \in 0..MaxMoves
      /\ count[p] < MaxMoves /\ posted \subseteq Message
  BY DEF IInv, ChatTyped, ChatTypeOK, Post
<1>2. PICK k : k = count[p] + 1
  OBVIOUS
<1>3. PICK m : m = [of |-> p, n |-> k]
  OBVIOUS
<1>4. /\ k \in 1..MaxMoves /\ m \in Message /\ m.of = p /\ m.n = k
      /\ count' = [count EXCEPT ![p] = k] /\ posted' = posted \cup {m}
      /\ UNCHANGED <<current, convId, pane, opening, joins, rooms, down>>
  BY <1>1, <1>2, <1>3 DEF Post, Message
<1>5. ChatTyped'
  <2>1. count' \in [Peer -> 0..MaxMoves] /\ exact' \in BOOLEAN
    BY <1>1, <1>4 DEF Post, ChatTyped, ChatTypeOK
  <2> QED  BY <1>1, <1>4, <2>1 DEF ChatTyped, ChatTypeOK, EventOk
<1>6. exact' => /\ exact
                /\ p = current => Opened /\ p \in rooms /\ \A a \in posted : a.of # p
  BY Zenon DEF Post
<1>7. (Opened' <=> Opened) /\ (AllFree' <=> AllFree)
  BY <1>4 DEF Opened, AllFree
<1>8. ASSUME exact', p # current PROVE ChatInv'
  <2>1. /\ (Quiet(current)' <=> Quiet(current)) /\ (Unsent' <=> Unsent)
        /\ \A a \in posted' : a.of = current => a \in posted
    BY <1>4, <1>8 DEF Quiet, Unsent
  <2>2. exact /\ current \in Peer /\ count'[current] = count[current]
    BY <1>1, <1>4, <1>6, <1>8 DEF ChatInv
  <2>3. Aligned => Aligned'
    BY <1>4, <2>1, <2>2 DEF Aligned, OfCurrent, History
  <2> QED  BY <1>1, <1>4, <1>7, <2>1, <2>2, <2>3 DEF ChatInv
<1>9. ASSUME exact', p = current PROVE ChatInv'
  <2>1. exact /\ Opened /\ current \in rooms /\ ~Unsent /\ AllFree /\ current \in Peer
    BY <1>1, <1>6, <1>9 DEF ChatInv, Unsent, Opened, AllFree
  <2>2. convId[current] = current /\ Aligned
    BY <1>1, <2>1 DEF ChatInv
  <2>3. Unsent' /\ count'[current'] - 1 = count[current] /\ count'[current'] = k
        /\ count[current] \in Nat
    BY <1>1, <1>2, <1>4, <1>9 DEF Unsent
  <2>4. \A a \in posted' : a.of = current' => a.n = count'[current']
    BY <1>4, <1>9, <2>1, <2>3 DEF Unsent
  <2>5. Aligned'
    BY <1>4, <2>1, <2>2, <2>3, <2>4 DEF Aligned, OfCurrent, History
  <2> QED  BY <1>1, <1>4, <1>7, <1>9, <2>1, <2>2, <2>5 DEF ChatInv, Opened, AllFree
<1> QED  BY <1>5, <1>8, <1>9 DEF ChatInv

LEMMA BroadcastKeepsChat ==
  ASSUME IInv, NEW m \in posted, Broadcast(m), UNCHANGED calls
  PROVE  /\ ChatTyped' /\ ChatInv' /\ OnceEach'
         /\ \A kind, c : kind # "message" => (Down(kind, c)' <=> Down(kind, c))
<1>1. /\ ChatTyped /\ ChatInv /\ count \in [Peer -> 0..MaxMoves] /\ posted \subseteq Message
      /\ m \in Message /\ down \in Seq(Event) /\ OnceEach
  BY DEF IInv, ChatTyped, ChatTypeOK, Once
<1>2. PICK e : e = Arrival(m)
  OBVIOUS
<1>3. /\ e \in Event /\ e.kind = "message" /\ e.of = m.of /\ e.n = m.n
      /\ m.of \in Peer /\ m.n \in 1..MaxMoves
  BY <1>1, <1>2 DEF Arrival, Event, Message
<1>4. /\ posted' = posted \ {m}
      /\ m.of \in rooms => down' = Append(down, e)
      /\ m.of \notin rooms => down' = down
      /\ UNCHANGED <<current, convId, pane, opening, joins, rooms, count, exact>>
  BY <1>2 DEF Broadcast
<1>5. /\ down' \in Seq(Event) /\ OnceEach'
      /\ \A kind, c : kind # "message" => (Down(kind, c)' <=> Down(kind, c))
      /\ \A i \in DOMAIN down' : down'[i] = e \/ \E q \in DOMAIN down : down'[i] = down[q]
  <2>1. CASE m.of \in rooms
    BY <1>1, <1>3, <1>4, <2>1, Pushed
  <2>2. CASE m.of \notin rooms
    <3>1. down' = down
      BY <1>4, <2>2
    <3> QED  BY <1>1, <3>1 DEF OnceEach, Down
  <2> QED  BY <2>1, <2>2
<1>6. ChatTyped'
  <2>1. \A i \in DOMAIN down' : EventOk(down'[i])
    BY <1>1, <1>3, <1>5 DEF ChatTyped, EventOk
  <2>2. ChatTypeOK'
    BY <1>1, <1>4 DEF ChatTyped, ChatTypeOK
  <2> QED  BY <1>1, <1>4, <1>5, <2>1, <2>2 DEF ChatTyped, EventOk
<1>7. (Opened' <=> Opened) /\ (AllFree' <=> AllFree)
  BY <1>4 DEF Opened, AllFree
<1>8. ASSUME exact, m.of # current PROVE ChatInv'
  <2>1. /\ (Quiet(current) => Quiet(current)') /\ (Unsent' <=> Unsent)
    BY <1>3, <1>4, <1>5, <1>8 DEF Quiet, Unsent
  <2>2. Aligned => Aligned'
    <3>1. CASE m.of \notin rooms
      BY <1>4, <2>1, <3>1 DEF Aligned, OfCurrent, History
    <3>2. CASE m.of \in rooms
      <4>1. /\ DOMAIN down' = DOMAIN down \cup {Len(down) + 1}
            /\ down'[Len(down) + 1] = e /\ \A i \in DOMAIN down : down'[i] = down[i]
        <5>1. down \in Seq(Event) /\ e \in Event /\ down' = Append(down, e)
          BY <1>1, <1>3, <1>4, <3>2
        <5> QED  BY <5>1, AppendOf
      <4>2. /\ \A i \in DOMAIN down' : OfCurrent(i)' => i \in DOMAIN down
            /\ \A i \in DOMAIN down : OfCurrent(i)' <=> OfCurrent(i)
        BY <1>3, <1>4, <1>8, <4>1 DEF OfCurrent
      <4> QED  BY <1>4, <2>1, <4>1, <4>2 DEF Aligned, History
    <3> QED  BY <3>1, <3>2
  <2> QED  BY <1>1, <1>4, <1>7, <2>1, <2>2 DEF ChatInv
<1>9. ASSUME exact, m.of = current PROVE ChatInv'
  <2>1. Unsent /\ Opened /\ AllFree /\ current \in Peer /\ current \in rooms
        /\ convId[current] = current /\ Aligned
    BY <1>1, <1>9 DEF ChatInv, Unsent, Quiet, Opened, AllFree
  <2>2. PICK k, N : k = Len(pane) /\ N = count[current]
    OBVIOUS
  <2>3. k \in Nat /\ N \in Nat /\ N >= 1 /\ m.n = N
    BY <1>1, <1>3, <1>9, <2>1, <2>2, LenProperties DEF Aligned, ChatTyped
  <2>4. ~Unsent'
    <3>1. \A a \in posted : a.of = current => a = m
      BY <1>1, <1>9, <2>1, <2>2, <2>3 DEF Aligned, Message
    <3> QED  BY <1>4, <3>1 DEF Unsent
  <2>5. PICK L : L = Len(down) + 1
    OBVIOUS
  <2>6. /\ DOMAIN down' = DOMAIN down \cup {L} /\ down'[L] = e
        /\ \A i \in DOMAIN down : down'[i] = down[i] /\ i < L
        /\ L \in Nat /\ DOMAIN down \subseteq Nat
    <3>1. down \in Seq(Event) /\ e \in Event /\ down' = Append(down, e)
      BY <1>1, <1>3, <1>4, <1>9, <2>1
    <3>2. DOMAIN down \subseteq Nat
      BY <3>1, Indices
    <3>3. /\ DOMAIN down' = DOMAIN down \cup {L} /\ down'[L] = e /\ Len(down) \in Nat
          /\ \A i \in DOMAIN down : down'[i] = down[i] /\ i < L
      BY <2>5, <3>1, AppendOf
    <3> QED  BY <2>5, <3>2, <3>3
  <2>7. /\ OfCurrent(L)' /\ down'[L].n = N
        /\ \A i \in DOMAIN down : OfCurrent(i)' <=> OfCurrent(i)
    BY <1>3, <1>4, <1>9, <2>3, <2>6 DEF OfCurrent
  <2>8. /\ k <= N - 1 /\ pane = History(current, k)
        /\ \A i \in DOMAIN down : OfCurrent(i) => down[i].n \in (k + 1)..(N - 1)
        /\ \A n \in (k + 1)..(N - 1) : \E i \in DOMAIN down : OfCurrent(i) /\ down[i].n = n
        /\ \A i, j \in DOMAIN down : OfCurrent(i) /\ OfCurrent(j) /\ i < j => down[i].n < down[j].n
    BY <2>1, <2>2 DEF Aligned
  <2>9. /\ \A i \in DOMAIN down' : OfCurrent(i)' => down'[i].n \in (k + 1)..N
        /\ \A n \in (k + 1)..N : \E i \in DOMAIN down' : OfCurrent(i)' /\ down'[i].n = n
    BY <2>3, <2>6, <2>7, <2>8
  <2>10. \A i, j \in DOMAIN down' : OfCurrent(i)' /\ OfCurrent(j)' /\ i < j => down'[i].n < down'[j].n
    BY <2>3, <2>6, <2>7, <2>8
  <2>11. Aligned'
    BY <1>4, <2>2, <2>3, <2>4, <2>8, <2>9, <2>10 DEF Aligned, Unsent, History
  <2> QED  BY <1>1, <1>4, <1>7, <2>1, <2>4, <2>11 DEF ChatInv, Opened, AllFree
<1> QED  BY <1>4, <1>5, <1>6, <1>8, <1>9 DEF ChatInv

LEMMA ArriveKeepsChat ==
  ASSUME IInv, Arrive, UNCHANGED calls
  PROVE  /\ ChatTyped' /\ ChatInv' /\ OnceEach'
         /\ \A kind, c : kind # "message" => (Down(kind, c)' <=> Down(kind, c))
<1>1. /\ ChatTyped /\ ChatInv /\ count \in [Peer -> 0..MaxMoves]
      /\ down \in Seq(Event) /\ pane \in Seq(Message) /\ OnceEach
  BY DEF IInv, ChatTyped, ChatTypeOK, Once
<1>2. PICK e : e = Head(down)
  OBVIOUS
<1>3. /\ TakeEvent /\ down # <<>> /\ down' = Tail(down) /\ e.kind = "message"
      /\ UNCHANGED <<current, convId, opening, joins, rooms, count, posted, exact>>
  BY <1>2 DEF Arrive, TakeEvent
<1>4. /\ down' \in Seq(Event) /\ e = down[1] /\ e \in Event /\ 1 \in DOMAIN down
      /\ \A i \in DOMAIN down' : i \in Nat /\ i + 1 \in DOMAIN down /\ down'[i] = down[i + 1]
      /\ \A i \in DOMAIN down \ {1} :
            i \in Nat /\ i - 1 \in DOMAIN down' /\ down'[i - 1] = down[i]
  BY <1>1, <1>2, <1>3, TailOf
<1>5. /\ OnceEach'
      /\ \A kind, c : kind # "message" => (Down(kind, c)' <=> Down(kind, c))
      /\ \A i \in DOMAIN down' : \E q \in DOMAIN down : down'[i] = down[q]
  BY <1>1, <1>2, <1>3, Taken
<1>6. e.of \in Peer /\ e.n \in 1..MaxMoves
  BY <1>1, <1>3, <1>4 DEF ChatTyped, EventOk
<1>7. PICK x : x = [of |-> e.of, n |-> e.n]
  OBVIOUS
<1>8. /\ x \in Message /\ x.of = e.of /\ x.n = e.n
      /\ pane' = IF current # None /\ convId[current] = e.of THEN Append(pane, x) ELSE pane
  BY <1>2, <1>6, <1>7 DEF Arrive, Message
<1>9. pane' \in Seq(Message)
  <2>1. Append(pane, x) \in Seq(Message)
    BY <1>1, <1>8, AppendOf
  <2> QED  BY <1>1, <1>8, <2>1
<1>10. ChatTyped'
  <2>1. \A i \in DOMAIN down' : EventOk(down'[i])
    BY <1>1, <1>5 DEF ChatTyped, EventOk
  <2>2. \A i \in DOMAIN pane' : pane'[i] \in Message
    BY <1>9, Indices
  <2>3. ChatTypeOK'
    BY <1>1, <1>3, <2>2 DEF ChatTyped, ChatTypeOK
  <2> QED  BY <1>1, <1>3, <1>4, <1>9, <2>1, <2>3 DEF ChatTyped, EventOk
<1>11. (Opened' <=> Opened) /\ (AllFree' <=> AllFree) /\ (Unsent' <=> Unsent)
       /\ (Quiet(current) => Quiet(current)')
  BY <1>3, <1>5 DEF Opened, AllFree, Unsent, Quiet
<1>12. /\ \A i \in DOMAIN down' : OfCurrent(i)' <=> OfCurrent(i + 1)
       /\ \A i \in DOMAIN down \ {1} : OfCurrent(i - 1)' <=> OfCurrent(i)
  BY <1>3, <1>4 DEF OfCurrent
<1>13. ASSUME exact, AllFree, current \in Peer, convId[current] = current, Aligned PROVE Aligned'
  <2>1. PICK k, top : k = Len(pane) /\ top = IF Unsent THEN count[current] - 1 ELSE count[current]
    OBVIOUS
  <2>2. /\ k <= top /\ k \in Nat /\ top \in Int /\ top <= count[current] /\ count[current] \in 0..MaxMoves
    BY <1>1, <1>13, <2>1, LenProperties DEF Aligned
  <2>3. /\ pane = History(current, k)
        /\ \A i \in DOMAIN down : OfCurrent(i) => down[i].n \in (k + 1)..top
        /\ \A n \in (k + 1)..top : \E i \in DOMAIN down : OfCurrent(i) /\ down[i].n = n
        /\ \A i, j \in DOMAIN down : OfCurrent(i) /\ OfCurrent(j) /\ i < j => down[i].n < down[j].n
    BY <1>13, <2>1 DEF Aligned
  <2>4. /\ DOMAIN down \subseteq Nat /\ \A i \in DOMAIN down : i >= 1
        /\ \A i \in DOMAIN down : i # 1 => 1 < i
    BY <1>1, Indices
  <2>5. \A i, j \in DOMAIN down' : OfCurrent(i)' /\ OfCurrent(j)' /\ i < j => down'[i].n < down'[j].n
    <3> SUFFICES ASSUME NEW i \in DOMAIN down', NEW j \in DOMAIN down', OfCurrent(i)',
                        OfCurrent(j)', i < j
                 PROVE  down'[i].n < down'[j].n
      OBVIOUS
    <3>1. PICK a, b \in DOMAIN down : a = i + 1 /\ b = j + 1
      BY <1>4
    <3>2. OfCurrent(a) /\ OfCurrent(b) /\ a < b /\ down'[i] = down[a] /\ down'[j] = down[b]
      BY <1>4, <1>12, <3>1
    <3> QED  BY <2>3, <3>2
  <2>6. CASE e.of # current
    <3>1. ~OfCurrent(1) /\ pane' = pane
      BY <1>4, <1>8, <1>13, <2>6 DEF OfCurrent
    <3>2. \A i \in DOMAIN down' : OfCurrent(i)' => down'[i].n \in (k + 1)..top
      BY <1>4, <1>12, <2>3
    <3>3. \A n \in (k + 1)..top : \E i \in DOMAIN down' : OfCurrent(i)' /\ down'[i].n = n
      <4> SUFFICES ASSUME NEW n \in (k + 1)..top
                   PROVE  \E i \in DOMAIN down' : OfCurrent(i)' /\ down'[i].n = n
        OBVIOUS
      <4>1. PICK i \in DOMAIN down \ {1} : OfCurrent(i) /\ down[i].n = n
        BY <2>3, <3>1
      <4>2. PICK j \in DOMAIN down' : j = i - 1
        BY <1>4
      <4> QED  BY <1>4, <1>12, <4>1, <4>2
    <3> QED  BY <1>3, <1>11, <1>13, <2>1, <2>2, <2>3, <2>5, <3>1, <3>2, <3>3 DEF Aligned, History
  <2>7. CASE e.of = current
    <3>1. OfCurrent(1) /\ down[1].n = e.n
      BY <1>3, <1>4, <2>7 DEF OfCurrent
    <3>2. e.n = k + 1 /\ k + 1 <= top
      <4>1. e.n \in (k + 1)..top
        BY <1>4, <2>3, <3>1
      <4>2. PICK i \in DOMAIN down : OfCurrent(i) /\ down[i].n = k + 1
        BY <2>2, <2>3, <4>1
      <4>3. i # 1 => e.n < k + 1
        BY <1>4, <2>3, <2>4, <3>1, <4>2
      <4> QED  BY <2>2, <3>1, <4>1, <4>2, <4>3
    <3>3. pane' = Append(pane, x)
      BY <1>8, <1>13, <2>7 
    <3>4. Len(pane') = k + 1 /\ pane' = History(current, k + 1)
      <4>1. /\ Len(pane') = k + 1 /\ DOMAIN pane' = 1..(k + 1) /\ pane'[k + 1] = x
            /\ \A i \in 1..k : pane'[i] = pane[i]
        <5>1. Len(pane') = k + 1 /\ pane'[k + 1] = x
              /\ \A i \in DOMAIN pane : pane'[i] = pane[i]
          BY <1>1, <1>8, <2>1, <3>3, AppendOf
        <5>2. DOMAIN pane = 1..k /\ DOMAIN pane' = 1..(k + 1)
          BY <1>1, <1>9, <2>1, <5>1, Indices
        <5> QED  BY <5>1, <5>2
      <4>2. \A i \in 1..k : pane[i] = [of |-> current, n |-> i]
        BY <2>3 DEF History
      <4>3. x = [of |-> current, n |-> k + 1]
        BY <1>7, <2>7, <3>2
      <4>4. \A i \in 1..(k + 1) : pane'[i] = [of |-> current, n |-> i]
        <5>1. \A i \in 1..(k + 1) : i \in 1..k \/ i = k + 1
          BY <2>2
        <5> QED  BY <4>1, <4>2, <4>3, <5>1
      <4>5. pane' = [i \in 1..(k + 1) |-> pane'[i]]
        BY <1>9, <4>1, LenProperties
      <4> QED  BY <4>1, <4>4, <4>5 DEF History
    <3>5. \A i \in DOMAIN down' : OfCurrent(i)' => down'[i].n \in (k + 2)..top
      <4> SUFFICES ASSUME NEW i \in DOMAIN down', OfCurrent(i)' PROVE down'[i].n \in (k + 2)..top
        OBVIOUS
      <4>1. PICK a \in DOMAIN down : a = i + 1 /\ a # 1
        BY <1>4, <2>4 
      <4>2. OfCurrent(a) /\ down'[i] = down[a] /\ 1 < a
        BY <1>4, <1>12, <2>4, <4>1
      <4>3. down[a].n \in (k + 1)..top /\ k + 1 < down[a].n
        BY <1>4, <2>3, <3>1, <3>2, <4>2
      <4> QED  BY <2>2, <4>2, <4>3
    <3>6. \A n \in (k + 2)..top : \E i \in DOMAIN down' : OfCurrent(i)' /\ down'[i].n = n
      <4> SUFFICES ASSUME NEW n \in (k + 2)..top
                   PROVE  \E i \in DOMAIN down' : OfCurrent(i)' /\ down'[i].n = n
        OBVIOUS
      <4>1. PICK i \in DOMAIN down : OfCurrent(i) /\ down[i].n = n
        BY <2>2, <2>3
      <4>2. i # 1
        BY <2>2, <3>1, <3>2, <4>1
      <4>3. PICK j \in DOMAIN down' : j = i - 1
        BY <1>4, <4>2
      <4> QED  BY <1>4, <1>12, <4>1, <4>2, <4>3
    <3>7. (k + 1) + 1 = k + 2
      BY <2>2
    <3>8. /\ \A i \in DOMAIN down' : OfCurrent(i)' => down'[i].n \in ((k + 1) + 1)..top
          /\ \A n \in ((k + 1) + 1)..top : \E i \in DOMAIN down' : OfCurrent(i)' /\ down'[i].n = n
      BY <3>5, <3>6, <3>7
    <3>9. \A m \in posted' : m.of = current' => m.n = count'[current']
      BY <1>3, <1>13 DEF Aligned
    <3>10. top = IF Unsent' THEN count'[current'] - 1 ELSE count'[current']
      BY <1>3, <1>11, <2>1
    <3> QED  BY <2>5, <3>2, <3>4, <3>8, <3>9, <3>10, <1>3 DEF Aligned, History
  <2> QED  BY <2>6, <2>7
<1>14. ChatInv'
  BY <1>1, <1>3, <1>11, <1>13 DEF ChatInv
<1> QED  BY <1>5, <1>10, <1>14

LEMMA ChattingKeepsIInv ==
  ASSUME IInv, Chatting
  PROVE  IInv'
<1>1. /\ ChatNext /\ steady' = (steady /\ (current' = current \/ ~Ringing))
      /\ UNCHANGED <<nav, view, fetch, version, own, chosen, patient>>
      /\ UNCHANGED <<calls, up, unacked, incoming, active, joining, script, room, told, single,
                     intact>>
  BY DEF Chatting, viewVars
<1> DEFINE Tokens == /\ OnceEach'
                     /\ \A kind, c : kind # "message" => (Down(kind, c)' <=> Down(kind, c))
<1>2. ASSUME down' = down PROVE Tokens
  BY <1>2 DEF IInv, Once, OnceEach, Down
<1>3. /\ ChatTyped' /\ ChatInv' /\ Tokens /\ moves' \in 0..MaxMoves
  <2>1. moves \in 0..MaxMoves
    BY DEF IInv, ViewsTypeOK
  <2>2. ASSUME NEW o \in Opening, \/ \E p \in Peer : OpenChat(o, p)
                                  \/ ServeDm(o) \/ AskHistory(o) \/ ServeHistory(o)
                                  \/ FailOpening(o)
        PROVE  ChatTyped' /\ ChatInv' /\ Tokens /\ moves' \in 0..MaxMoves
    <3>1. down' = down /\ (moves' = moves \/ Move)
      BY <2>2 DEF OpenChat, ServeDm, AskHistory, ServeHistory, FailOpening
    <3>2. ChatTyped' /\ ChatInv'
      BY <1>1, <2>2, OpeningKeepsChat
    <3> QED  BY <1>2, <2>1, <3>1, <3>2 DEF Move
  <2>3. ASSUME NEW o \in Opening, DrawHistory(o)
        PROVE  ChatTyped' /\ ChatInv' /\ Tokens /\ moves' \in 0..MaxMoves
    <3>1. down' = down /\ moves' = moves
      BY <2>3 DEF DrawHistory
    <3> QED  BY <1>1, <1>2, <2>1, <2>3, <3>1, DrawKeepsChat
  <2>4. ASSUME NEW p \in Peer, JoinRoom(p)
        PROVE  ChatTyped' /\ ChatInv' /\ Tokens /\ moves' \in 0..MaxMoves
    <3>1. down' = down /\ moves' = moves
      BY <2>4 DEF JoinRoom
    <3> QED  BY <1>1, <1>2, <2>1, <2>4, <3>1, JoinKeepsChat
  <2>5. ASSUME NEW p \in Peer, Post(p)
        PROVE  ChatTyped' /\ ChatInv' /\ Tokens /\ moves' \in 0..MaxMoves
    <3>1. down' = down /\ Move
      BY <2>5 DEF Post
    <3>2. moves' \in 0..MaxMoves
      BY <2>1, <3>1 DEF Move
    <3> QED  BY <1>1, <1>2, <2>5, <3>1, <3>2, PostKeepsChat
  <2>6. ASSUME NEW m \in posted, Broadcast(m)
        PROVE  ChatTyped' /\ ChatInv' /\ Tokens /\ moves' \in 0..MaxMoves
    <3>1. moves' = moves
      BY <2>6 DEF Broadcast
    <3> QED  BY <1>1, <2>1, <2>6, <3>1, BroadcastKeepsChat
  <2>7. ASSUME Arrive
        PROVE  ChatTyped' /\ ChatInv' /\ Tokens /\ moves' \in 0..MaxMoves
    <3>1. moves' = moves
      BY <2>7 DEF Arrive
    <3> QED  BY <1>1, <2>1, <2>7, <3>1, ArriveKeepsChat
  <2> QED  BY <1>1, <2>2, <2>3, <2>4, <2>5, <2>6, <2>7 DEF ChatNext
<1>4. ViewsTypeOK' /\ ViewsInv'
  BY <1>1, <1>3 DEF IInv, ViewsTypeOK, ViewsInv, Settled
<1>5. /\ steady' \in BOOLEAN
      /\ steady' => steady /\ (current' = current \/ ~Ringing)
  BY <1>1, Zenon
<1>6. CallTyped' /\ Once' /\ Sides' /\ SteadyInv' /\ SingleInv' /\ IntactInv'
  BY <1>1, <1>3, <1>5, CallsStand
<1> QED  BY <1>3, <1>4, <1>6 DEF IInv

LEMMA ReconnectKeepsIInv ==
  ASSUME IInv, Reconnect, Cut, Move, UNCHANGED viewVars
  PROVE  IInv'
<1>1. /\ exact' = FALSE /\ single' = FALSE /\ intact' = FALSE
      /\ down' = <<>> /\ up' = <<>> /\ unacked' = {} /\ rooms' = {} /\ joins' = {}
      /\ UNCHANGED <<current, convId, pane, opening, count, posted, calls, incoming, active,
                     joining, script, room, told, steady>>
  BY DEF Reconnect, Cut
<1>2. /\ \A kind, c : ~Down(kind, c)' /\ ~Up(kind, c)'
      /\ DOMAIN down' = {} /\ DOMAIN up' = {}
      /\ down' \in Seq(Event) /\ up' \in Seq(Request)
  <2>1. DOMAIN <<>> = {}
    BY EmptySeq, LenProperties
  <2> QED  BY <1>1, <2>1, EmptySeq DEF Down, Up
<1>3. ViewsTypeOK' /\ ViewsInv'
  BY DEF IInv, ViewsTypeOK, ViewsInv, Settled, viewVars, Move
<1>4. ChatTyped' /\ ChatInv'
  BY <1>1, <1>2 DEF IInv, ChatTyped, ChatTypeOK, ChatInv
<1>5. CallTyped'
  BY <1>1, <1>2 DEF IInv, CallTyped, CallTypeOK
<1>6. /\ \A c : ~Pending(c)' /\ (Joins(c)' <=> Joins(c)) /\ (Mine(c)' <=> Mine(c))
      /\ OnceEach'
  BY <1>1, <1>2 DEF Pending, Joins, Mine, OnceEach
<1>7. Once' /\ Sides' /\ SteadyInv' /\ SingleInv' /\ IntactInv'
  BY <1>1, <1>2, <1>6 DEF IInv, Once, Sides, SteadyInv, SingleInv, IntactInv
<1> QED  BY <1>3, <1>4, <1>5, <1>7 DEF IInv

-----------------------------------------------------------------------------
(* The calls. *)

(* A step of a call moves no message. *)
LEMMA ChatStands ==
  ASSUME IInv, UNCHANGED <<current, convId, pane, opening, joins, rooms, count, posted, exact>>,
         UNCHANGED viewVars, moves' = moves \/ Move, DOMAIN calls \subseteq DOMAIN calls',
         \/ down' = down
         \/ TakeEvent /\ Head(down).kind # "message"
         \/ \E e \in Event : /\ e.kind # "message" /\ e.n \in DOMAIN calls'
                             /\ down' = Append(down, e)
  PROVE  ViewsTypeOK' /\ ViewsInv' /\ ChatTyped' /\ ChatInv'
<1>1. /\ ChatTyped /\ ChatInv /\ down \in Seq(Event)
      /\ \A i \in DOMAIN down : EventOk(down[i])
      /\ \A e : EventOk(e) => EventOk(e)'
  BY DEF IInv, ChatTyped, EventOk
<1>2. ViewsTypeOK' /\ ViewsInv'
  <2>1. moves' \in 0..MaxMoves
    BY DEF IInv, ViewsTypeOK, Move
  <2> QED  BY <2>1 DEF IInv, ViewsTypeOK, ViewsInv, Settled, viewVars
<1>3. ASSUME down' \in Seq(Event), (\A i \in DOMAIN down : EventOk(down[i]))'
      PROVE  ChatTyped'
  <2>1. ChatTypeOK'
    BY <1>1 DEF ChatTyped, ChatTypeOK
  <2> QED  BY <1>1, <1>3, <2>1 DEF ChatTyped
<1>4. (Opened' <=> Opened) /\ (AllFree' <=> AllFree) /\ (Unsent' <=> Unsent)
  BY DEF Opened, AllFree, Unsent
<1>5. ASSUME Quiet(current) => Quiet(current)', Aligned => Aligned' PROVE ChatInv'
  BY <1>1, <1>4, <1>5 DEF ChatInv
<1>6. CASE down' = down
  <2>1. (Quiet(current) => Quiet(current)') /\ (Aligned => Aligned')
    BY <1>4, <1>6 DEF Quiet, Aligned, OfCurrent, History
  <2>2. ChatTyped'
    BY <1>1, <1>3, <1>6 DEF EventOk
  <2> QED  BY <1>2, <1>5, <2>1, <2>2
<1>7. CASE TakeEvent /\ Head(down).kind # "message"
  <2>1. PICK e : e = Head(down)
    OBVIOUS
  <2>2. /\ down' \in Seq(Event) /\ e = down[1] /\ e \in Event /\ 1 \in DOMAIN down
        /\ e.kind # "message"
        /\ \A i \in DOMAIN down' : i \in Nat /\ i + 1 \in DOMAIN down /\ down'[i] = down[i + 1]
        /\ \A i \in DOMAIN down \ {1} :
              i \in Nat /\ i - 1 \in DOMAIN down' /\ down'[i - 1] = down[i]
    BY <1>1, <1>7, <2>1, TailOf DEF TakeEvent
  <2>3. /\ \A i \in DOMAIN down' : OfCurrent(i)' <=> OfCurrent(i + 1)
        /\ \A i \in DOMAIN down \ {1} : OfCurrent(i - 1)' <=> OfCurrent(i)
        /\ ~OfCurrent(1)
    BY <2>2 DEF OfCurrent
  <2>4. ChatTyped' /\ (Quiet(current) => Quiet(current)')
    <3>1. (\A i \in DOMAIN down : EventOk(down[i]))'
      BY <1>1, <2>2 DEF EventOk
    <3>2. Quiet(current) => Quiet(current)'
      BY <2>2 DEF Quiet
    <3> QED  BY <1>3, <2>2, <3>1, <3>2
  <2>5. ASSUME Aligned PROVE Aligned'
    <3>1. PICK k, top : k = Len(pane) /\ top = IF Unsent THEN count[current] - 1 ELSE count[current]
      OBVIOUS
    <3>2. /\ k <= top /\ pane = History(current, k)
          /\ \A m \in posted : m.of = current => m.n = count[current]
          /\ \A i \in DOMAIN down : OfCurrent(i) => down[i].n \in (k + 1)..top
          /\ \A n \in (k + 1)..top : \E i \in DOMAIN down : OfCurrent(i) /\ down[i].n = n
          /\ \A i, j \in DOMAIN down : OfCurrent(i) /\ OfCurrent(j) /\ i < j => down[i].n < down[j].n
      BY <2>5, <3>1 DEF Aligned
    <3>3. \A i, j \in DOMAIN down' : OfCurrent(i)' /\ OfCurrent(j)' /\ i < j => down'[i].n < down'[j].n
      <4> SUFFICES ASSUME NEW i \in DOMAIN down', NEW j \in DOMAIN down', OfCurrent(i)',
                          OfCurrent(j)', i < j
                   PROVE  down'[i].n < down'[j].n
        OBVIOUS
      <4>1. PICK a, b \in DOMAIN down : a = i + 1 /\ b = j + 1
        BY <2>2
      <4>2. OfCurrent(a) /\ OfCurrent(b) /\ a < b /\ down'[i] = down[a] /\ down'[j] = down[b]
        BY <2>2, <2>3, <4>1
      <4> QED  BY <3>2, <4>2
    <3>4. \A i \in DOMAIN down' : OfCurrent(i)' => down'[i].n \in (k + 1)..top
      BY <2>2, <2>3, <3>2
    <3>5. \A n \in (k + 1)..top : \E i \in DOMAIN down' : OfCurrent(i)' /\ down'[i].n = n
      <4> SUFFICES ASSUME NEW n \in (k + 1)..top
                   PROVE  \E i \in DOMAIN down' : OfCurrent(i)' /\ down'[i].n = n
        OBVIOUS
      <4>1. PICK i \in DOMAIN down \ {1} : OfCurrent(i) /\ down[i].n = n
        BY <2>3, <3>2
      <4>2. PICK j \in DOMAIN down' : j = i - 1
        BY <2>2
      <4> QED  BY <2>2, <2>3, <4>1, <4>2
    <3> QED  BY <1>4, <3>1, <3>2, <3>3, <3>4, <3>5 DEF Aligned, History
  <2> QED  BY <1>2, <1>5, <2>4, <2>5
<1>8. ASSUME NEW e \in Event, e.kind # "message", e.n \in DOMAIN calls', down' = Append(down, e)
      PROVE  ChatTyped' /\ ChatInv'
  <2>1. /\ down' \in Seq(Event) /\ DOMAIN down' = DOMAIN down \cup {Len(down) + 1}
        /\ down'[Len(down) + 1] = e /\ \A i \in DOMAIN down : down'[i] = down[i]
    BY <1>1, <1>8, AppendOf
  <2>2. /\ \A i \in DOMAIN down' : OfCurrent(i)' => i \in DOMAIN down
        /\ \A i \in DOMAIN down : OfCurrent(i)' <=> OfCurrent(i)
    BY <1>8, <2>1 DEF OfCurrent
  <2>3. ChatTyped'
    <3>1. (\A i \in DOMAIN down : EventOk(down[i]))'
      BY <1>1, <1>8, <2>1 DEF EventOk
    <3> QED  BY <1>3, <2>1, <3>1
  <2>4. Quiet(current) => Quiet(current)'
    BY <1>8, <2>1 DEF Quiet
  <2>5. Aligned => Aligned'
    BY <1>4, <2>1, <2>2 DEF Aligned, History
  <2> QED  BY <1>5, <2>3, <2>4, <2>5
<1> QED  BY <1>2, <1>6, <1>7, <1>8

(* What is about a call is about one that there is. *)
LEMMA Known ==
  ASSUME IInv
  PROVE  /\ down \in Seq(Event) /\ up \in Seq(Request) /\ calls \in Seq(CallRow) /\ OnceEach
         /\ \A c \in DOMAIN calls : c \in Nat \ {0} /\ calls[c] \in CallRow
         /\ \A kind, c : kind # "message" /\ Down(kind, c) => c \in DOMAIN calls
         /\ \A kind, c : kind # "ring" /\ Up(kind, c) => c \in DOMAIN calls
         /\ \A c : Pending(c) \/ Joins(c) \/ c \in told => c \in DOMAIN calls
         /\ incoming # 0 => incoming \in DOMAIN calls
         /\ active # 0 => active \in DOMAIN calls
         /\ incoming \in Nat /\ active \in Nat /\ Len(calls) \in Nat
         /\ DOMAIN calls = 1..Len(calls)
<1>1. /\ ChatTyped /\ CallTyped /\ down \in Seq(Event) /\ up \in Seq(Request)
      /\ calls \in Seq(CallRow) /\ OnceEach
  BY DEF IInv, ChatTyped, CallTyped, Once
<1>2. /\ DOMAIN calls = 1..Len(calls) /\ Len(calls) \in Nat
      /\ \A c \in DOMAIN calls : c \in Nat \ {0} /\ calls[c] \in CallRow
  BY <1>1, Indices
<1>3. \A kind, c : kind # "message" /\ Down(kind, c) => c \in DOMAIN calls
  BY <1>1 DEF ChatTyped, EventOk, Down
<1>4. \A kind, c : kind # "ring" /\ Up(kind, c) => c \in DOMAIN calls
  BY <1>1 DEF CallTyped, RequestOk, Up
<1>5. \A c : Pending(c) \/ Joins(c) \/ c \in told => c \in DOMAIN calls
  BY <1>1, <1>3 DEF CallTyped, CallTypeOK, Pending, Joins
<1>6. incoming \in 0..Len(calls) /\ active \in 0..Len(calls)
  BY <1>1 DEF CallTyped, CallTypeOK
<1> QED  BY <1>1, <1>2, <1>3, <1>4, <1>5, <1>6

ChatStill == UNCHANGED <<viewVars, current, convId, pane, opening, joins, rooms, count, posted,
                         exact>>

LEMMA StartCallKeepsIInv ==
  ASSUME IInv, StartCall, ChatStill
  PROVE  IInv'
<1>1. /\ ChatTyped /\ CallTyped /\ current \in Peer
      /\ UNCHANGED <<current, down, calls, unacked, incoming, active, joining, script, room,
                     told, steady, intact>>
  BY DEF StartCall, ChatStill, IInv, ChatTyped, ChatTypeOK
<1>2. PICK x : x = [kind |-> "ring", call |-> 0, peer |-> current]
  OBVIOUS
<1>3. x \in Request /\ x.kind = "ring" /\ x.peer = current /\ up' = Append(up, x)
  BY <1>1, <1>2 DEF StartCall, Request
<1>4. PICK N : N = Len(up) + 1
  OBVIOUS
<1>5. /\ up \in Seq(Request) /\ up' \in Seq(Request) /\ DOMAIN up' = DOMAIN up \cup {N}
      /\ up'[N] = x /\ \A i \in DOMAIN up : up'[i] = up[i]
      /\ \A kind, c : kind # "ring" => (Up(kind, c)' <=> Up(kind, c))
  BY <1>3, <1>4, Known, Emitted
<1>6. /\ \A kind, c : Down(kind, c)' <=> Down(kind, c)
      /\ \A c : Pending(c)' <=> Pending(c)
      /\ \A c : Joins(c)' <=> Joins(c)
      /\ \A c : Mine(c)' <=> Mine(c)
      /\ \A c : Over(c)' <=> Over(c)
      /\ \A c : Alive(c)' <=> Alive(c)
      /\ OnceEach' <=> OnceEach
  BY <1>1 DEF Down, Pending, Joins, Mine, Over, Alive, OnceEach
<1>7. /\ single' \in BOOLEAN
      /\ single' => single /\ ~Ringing /\ \A c \in DOMAIN calls : ~Alive(c)
  BY Zenon DEF StartCall, Alive
<1>8. CallTyped'
  <2>1. CallTypeOK'
    BY <1>1, <1>7 DEF CallTyped, CallTypeOK
  <2> QED  BY <1>1, <1>3, <1>5, <2>1 DEF CallTyped, RequestOk
<1>9. Once' /\ Sides' /\ IntactInv'
  BY <1>1, <1>5, <1>6 DEF IInv, Once, Sides, IntactInv
<1>10. SteadyInv'
  BY <1>1, <1>3, <1>5, <1>6 DEF IInv, SteadyInv
<1>11. SingleInv'
  <2>1. ~Ringing => /\ \A i \in DOMAIN up : up[i].kind # "ring"
                    /\ \A c : ~Pending(c)
    BY DEF Ringing, Pending, Down
  <2> QED  BY <1>1, <1>5, <1>6, <1>7, <2>1 DEF SingleInv
<1>12. ViewsTypeOK' /\ ViewsInv' /\ ChatTyped' /\ ChatInv'
  BY <1>1, ChatStands DEF StartCall, ChatStill
<1> QED  BY <1>8, <1>9, <1>10, <1>11, <1>12 DEF IInv

LEMMA AnsweredKeepsIInv ==
  ASSUME IInv, NEW j \in Joining, Answered(j), ChatStill
  PROVE  IInv'
<1>1. PICK e : e = Head(down)
  OBVIOUS
<1>2. PICK c : c = e.n
  OBVIOUS
<1>3. PICK x : x = [pc |-> "meet", peer |-> current, call |-> c]
  OBVIOUS
<1>4. /\ ChatTyped /\ CallTyped /\ TakeEvent /\ e.kind = "ack" /\ active' = c
      /\ joining[j].pc = "free" /\ joining' = [joining EXCEPT ![j] = x]
      /\ UNCHANGED <<current, calls, up, unacked, incoming, script, room, told, steady, single>>
  BY <1>1, <1>2, <1>3 DEF Answered, JoinMeeting, ChatStill, IInv
<1>5. /\ intact' \in BOOLEAN
      /\ intact' => intact /\ c \notin told
  BY <1>1, <1>2, Zenon DEF Answered
<1>6. /\ OnceEach' /\ ~Down("ack", c)' /\ Down("ack", c) /\ c \in DOMAIN calls
      /\ \A kind, d : Down(kind, d)' => Down(kind, d)
      /\ \A kind, d : Down(kind, d) => Down(kind, d)' \/ (kind = "ack" /\ d = c)
  BY <1>1, <1>2, <1>4, Known, Taken
<1>7. /\ \A kind, d : Up(kind, d)' <=> Up(kind, d)
      /\ \A d : Mine(d)' <=> Mine(d)
      /\ \A d : Over(d)' <=> Over(d)
      /\ \A d : Alive(d)' <=> Alive(d)
  BY <1>4 DEF Up, Mine, Over, Alive
<1>8. /\ x.pc = "meet" /\ x.peer = current /\ x.call = c /\ current \in Peer \cup {None}
      /\ x \in [pc: {"free", "meet", "load"}, peer: Peer \cup {None}, call: 0..Len(calls)]
      /\ joining'[j] = x /\ \A i \in Joining \ {j} : joining'[i] = joining[i]
  BY <1>3, <1>4, <1>6, Known DEF CallTyped, CallTypeOK, ChatTyped, ChatTypeOK
<1>9. \A d : Joins(d)' => Joins(d) \/ d = c
  BY <1>4, <1>8 DEF Joins
<1>10. /\ Pending(c) /\ Mine(c) /\ ~Pending(c)'
       /\ \A d : Pending(d)' => Pending(d)
       /\ \A d : Pending(d) => Pending(d)' \/ d = c
  BY <1>4, <1>6 DEF Pending, IInv, Once, Sides
<1>11. CallTyped'
  <2>1. joining' \in [Joining -> [pc: {"free", "meet", "load"}, peer: Peer \cup {None},
                                  call: 0..Len(calls)]]
    BY <1>4, <1>8 DEF CallTyped, CallTypeOK
  <2>2. active' \in 0..Len(calls)
    BY <1>4, <1>6, Known
  <2>3. CallTypeOK'
    BY <1>4, <1>5, <2>1, <2>2 DEF CallTyped, CallTypeOK
  <2>4. \A i \in Joining : joining'[i].pc # "free" => joining'[i].call \in DOMAIN calls
    BY <1>4, <1>6, <1>8 DEF CallTyped
  <2> QED  BY <1>4, <2>3, <2>4 DEF CallTyped, RequestOk
<1>12. Once'
  BY <1>4, <1>6, <1>7, <1>9, <1>10 DEF IInv, Once, Sides
<1>13. Sides'
  BY <1>4, <1>6, <1>7, <1>10 DEF IInv, Sides
<1>14. SteadyInv'
  <2>1. steady => calls[c].peer = current
    BY <1>6, <1>10 DEF IInv, SteadyInv
  <2> QED  BY <1>4, <1>6, <1>8, <1>10, <2>1 DEF IInv, SteadyInv
<1>15. SingleInv'
  BY <1>4, <1>6, <1>7, <1>10 DEF IInv, SingleInv
<1>16. IntactInv'
  BY <1>4, <1>5, <1>6, <1>7, <1>9, <1>10 DEF IInv, IntactInv, Once
<1>17. ViewsTypeOK' /\ ViewsInv' /\ ChatTyped' /\ ChatInv'
  BY <1>1, <1>4, ChatStands DEF Answered, ChatStill
<1> QED  BY <1>11, <1>12, <1>13, <1>14, <1>15, <1>16, <1>17 DEF IInv

(* The modal of an incoming call is shown, or hidden. *)
LEMMA ModalKeepsIInv ==
  ASSUME IInv, ShowIncoming \/ HideIncoming, ChatStill
  PROVE  IInv'
<1>1. PICK e : e = Head(down)
  OBVIOUS
<1>2. PICK c : c = e.n
  OBVIOUS
<1>3. /\ ChatTyped /\ CallTyped /\ TakeEvent
      /\ \/ e.kind = "incoming" /\ incoming' \in {incoming, c}
         \/ e.kind = "cancelled" /\ incoming' = 0
      /\ UNCHANGED <<current, moves, calls, up, unacked, active, joining, script, room, told, steady,
                     single, intact>>
  BY <1>1, <1>2 DEF ShowIncoming, HideIncoming, callHistory, ChatStill, IInv
<1>4. /\ OnceEach' /\ Down(e.kind, c) /\ c \in DOMAIN calls
      /\ e.kind = "incoming" => ~Down("incoming", c)'
      /\ \A kind, d : Down(kind, d)' => Down(kind, d)
      /\ \A kind, d : Down(kind, d) => Down(kind, d)' \/ (kind = e.kind /\ d = c)
  BY <1>1, <1>2, <1>3, Known, Taken
<1>5. /\ \A kind, d : Up(kind, d)' <=> Up(kind, d)
      /\ \A d : Mine(d)' <=> Mine(d)
      /\ \A d : Over(d)' <=> Over(d)
      /\ \A d : Alive(d)' <=> Alive(d)
      /\ \A d : Joins(d)' <=> Joins(d)
  BY <1>3 DEF Up, Mine, Over, Alive, Joins
<1>6. \A d : Pending(d)' <=> Pending(d)
  BY <1>3, <1>4 DEF Pending
<1>7. CallTyped'
  <2>1. incoming' \in 0..Len(calls)
    BY <1>3, <1>4, Known DEF CallTyped, CallTypeOK
  <2> QED  BY <1>3, <2>1 DEF CallTyped, CallTypeOK, RequestOk
<1>8. Once'
  <2>1. Once
    BY DEF IInv
  <2>2. \A d \in DOMAIN calls : Down("incoming", d)' =>
           incoming' # d /\ ~Up("accept", d)' /\ ~Up("decline", d)' /\ ~Joins(d)'
    BY <1>3, <1>4, <1>5, <2>1, Known DEF Once
  <2>3. incoming' # 0 => \/ incoming' = incoming
                         \/ incoming' = c /\ Down("incoming", c)
    BY <1>3, <1>4
  <2>4. incoming' # 0 => ~Up("accept", incoming') /\ ~Up("decline", incoming') /\ ~Joins(incoming')
    BY <1>4, <2>1, <2>3 DEF Once
  <2>5. PICK g : g = incoming'
    OBVIOUS
  <2>6. incoming' # 0 => ~Up("accept", g)' /\ ~Up("decline", g)' /\ ~Joins(g)'
    BY <1>5, <2>4, <2>5
  <2> QED  BY <1>3, <1>4, <1>5, <1>6, <2>1, <2>2, <2>5, <2>6 DEF Once
<1>9. Sides'
  BY <1>3, <1>4, <1>5, <1>6 DEF IInv, Sides
<1>10. SteadyInv' /\ SingleInv' /\ IntactInv'
  <2>1. \A d : Down("over", d)' <=> Down("over", d)
    BY <1>3, <1>4
  <2> QED  BY <1>3, <1>5, <1>6, <2>1 DEF IInv, SteadyInv, SingleInv, IntactInv
<1>11. ViewsTypeOK' /\ ViewsInv' /\ ChatTyped' /\ ChatInv'
  BY <1>1, <1>3, ChatStands DEF ChatStill
<1> QED  BY <1>7, <1>8, <1>9, <1>10, <1>11 DEF IInv

(* joinMeeting behind its awaits. *)
LEMMA JoiningKeepsIInv ==
  ASSUME IInv, NEW j \in Joining, LoadScript \/ MeetAnswered(j) \/ OpenRoom(j), ChatStill
  PROVE  IInv'
<1> DEFINE Join == [pc: {"free", "meet", "load"}, peer: Peer \cup {None}, call: 0..Len(calls)]
<1>1. /\ ChatTyped /\ CallTyped /\ joining \in [Joining -> Join] /\ joining[j] \in Join
      /\ UNCHANGED <<current, moves, down, calls, up, unacked, incoming, active, told, steady,
                     single, intact>>
  BY DEF LoadScript, MeetAnswered, OpenRoom, callHistory, ChatStill, IInv, CallTyped, CallTypeOK
<1>2. /\ joining' \in [Joining -> Join]
      /\ \A i \in Joining : joining'[i].pc # "free" =>
            /\ joining[i].pc # "free"
            /\ joining'[i].call = joining[i].call /\ joining'[i].peer = joining[i].peer
  <2>1. Off \in Join /\ Off.pc = "free"
    BY Known DEF Off
  <2>2. CASE joining' = [joining EXCEPT ![j] = Off]
    BY <1>1, <2>1, <2>2
  <2>3. CASE joining[j].pc = "meet" /\ joining' = [joining EXCEPT ![j].pc = "load"]
    <3>1. PICK x : x = [joining[j] EXCEPT !.pc = "load"]
      OBVIOUS
    <3>2. /\ joining' = [joining EXCEPT ![j] = x] /\ x \in Join /\ x.pc = "load"
          /\ x.call = joining[j].call /\ x.peer = joining[j].peer
      BY <1>1, <2>3, <3>1
    <3> QED  BY <1>1, <2>3, <3>2
  <2>4. CASE joining' = joining
    BY <1>1, <2>4
  <2> QED  BY <2>2, <2>3, <2>4 DEF LoadScript, MeetAnswered, OpenRoom
<1>3. \/ room' = room
      \/ /\ joining[j].pc # "free" /\ room'.call = joining[j].call
         /\ room'.peer = joining[j].peer
         /\ room' \in [peer: Peer \cup {None}, call: 0..Len(calls)]
  <2>1. CASE OpenRoom(j) /\ script = "loaded"
    <3>1. PICK x : x = [peer |-> joining[j].peer, call |-> joining[j].call]
      OBVIOUS
    <3>2. room' = x /\ joining[j].pc # "free"
      BY <2>1, <3>1 DEF OpenRoom
    <3> QED  BY <1>1, <3>1, <3>2
  <2> QED  BY <2>1 DEF LoadScript, MeetAnswered, OpenRoom
<1>4. script' \in {"unasked", "loading", "loaded", "failed"}
  BY <1>1 DEF CallTyped, CallTypeOK, LoadScript, MeetAnswered, OpenRoom
<1>5. CallTyped'
  <2>1. CallTypeOK'
    BY <1>1, <1>2, <1>3, <1>4 DEF CallTyped, CallTypeOK
  <2>2. /\ \A i \in Joining : joining'[i].pc # "free" => joining'[i].call \in DOMAIN calls
        /\ room' # NoRoom => room'.call \in DOMAIN calls
    BY <1>1, <1>2, <1>3 DEF CallTyped
  <2> QED  BY <1>1, <2>1, <2>2 DEF CallTyped, RequestOk, NoRoom
<1>6. /\ \A kind, d : Down(kind, d)' <=> Down(kind, d)
      /\ \A kind, d : Up(kind, d)' <=> Up(kind, d)
      /\ \A d : Mine(d)' <=> Mine(d)
      /\ \A d : Over(d)' <=> Over(d)
      /\ \A d : Alive(d)' <=> Alive(d)
      /\ \A d : Pending(d)' <=> Pending(d)
      /\ OnceEach' <=> OnceEach
  BY <1>1 DEF Down, Up, Mine, Over, Alive, Pending, OnceEach
<1>7. \A d : Joins(d)' => Joins(d)
  BY <1>2, <1>3 DEF Joins, NoRoom
<1>8. Once' /\ Sides'
  BY <1>1, <1>6, <1>7 DEF IInv, Once, Sides
<1>9. SteadyInv'
  BY <1>1, <1>2, <1>3, <1>6 DEF IInv, SteadyInv, NoRoom
<1>10. SingleInv' /\ IntactInv'
  BY <1>1, <1>6, <1>7 DEF IInv, SingleInv, IntactInv
<1>11. ViewsTypeOK' /\ ViewsInv' /\ ChatTyped' /\ ChatInv'
  BY <1>1, ChatStands DEF ChatStill
<1> QED  BY <1>5, <1>8, <1>9, <1>10, <1>11 DEF IInv

LEMMA AcceptKeepsIInv ==
  ASSUME IInv, NEW j \in Joining, Accept(j), ChatStill
  PROVE  IInv'
<1>1. PICK c : c = incoming
  OBVIOUS
<1>2. PICK p : p = calls[c].peer
  OBVIOUS
<1>3. PICK r : r = [kind |-> "accept", call |-> c, peer |-> None]
  OBVIOUS
<1>4. PICK x : x = [pc |-> "meet", peer |-> p, call |-> c]
  OBVIOUS
<1>5. /\ ChatTyped /\ CallTyped /\ Once /\ Sides /\ c # 0 /\ incoming' = 0 /\ up' = Append(up, r)
      /\ joining[j].pc = "free" /\ joining' = [joining EXCEPT ![j] = x]
      /\ UNCHANGED <<current, down, calls, unacked, active, script, room, told, steady, single, intact>>
  BY <1>1, <1>2, <1>3, <1>4 DEF Accept, Emit, JoinMeeting, callHistory, ChatStill, IInv
<1>6. c \in DOMAIN calls /\ calls[c] \in CallRow /\ p \in Peer /\ c \in 0..Len(calls) /\ c \in Nat
  BY <1>1, <1>2, <1>5, Known DEF CallRow
<1>7. r \in Request /\ r.kind = "accept" /\ r.call = c
  BY <1>3, <1>6 DEF Request
<1>8. /\ x.pc = "meet" /\ x.peer = p /\ x.call = c
      /\ x \in [pc: {"free", "meet", "load"}, peer: Peer \cup {None}, call: 0..Len(calls)]
      /\ joining'[j] = x /\ \A i \in Joining \ {j} : joining'[i] = joining[i]
  BY <1>4, <1>5, <1>6 DEF CallTyped, CallTypeOK
<1>9. PICK N : N = Len(up) + 1
  OBVIOUS
<1>10. /\ up \in Seq(Request) /\ up' \in Seq(Request) /\ DOMAIN up' = DOMAIN up \cup {N}
       /\ up'[N] = r /\ \A i \in DOMAIN up : up'[i] = up[i]
       /\ \A kind, d : Up(kind, d)' <=> Up(kind, d) \/ (kind = "accept" /\ d = c)
  BY <1>5, <1>7, <1>9, Known, Emitted
<1>11. /\ \A kind, d : Down(kind, d)' <=> Down(kind, d)
       /\ \A d : Mine(d)' <=> Mine(d)
       /\ \A d : Over(d)' <=> Over(d)
       /\ \A d : Alive(d)' <=> Alive(d)
       /\ \A d : Pending(d)' <=> Pending(d)
       /\ OnceEach' <=> OnceEach
  BY <1>5 DEF Down, Mine, Over, Alive, Pending, OnceEach
<1>12. \A d : Joins(d)' => Joins(d) \/ d = c
  BY <1>5, <1>8 DEF Joins
<1>13. /\ ~Mine(c) /\ ~Pending(c) /\ ~Up("hangup", c) /\ ~Up("decline", c) /\ ~Joins(c)
       /\ ~Down("incoming", c)
  BY <1>1, <1>5, <1>6 DEF Once, Sides
<1>14. CallTyped'
  <2>1. joining' \in [Joining -> [pc: {"free", "meet", "load"}, peer: Peer \cup {None},
                                  call: 0..Len(calls)]]
    BY <1>5, <1>8 DEF CallTyped, CallTypeOK
  <2>2. CallTypeOK'
    BY <1>5, <2>1 DEF CallTyped, CallTypeOK
  <2>3. \A i \in Joining : joining'[i].pc # "free" => joining'[i].call \in DOMAIN calls
    BY <1>5, <1>6, <1>8 DEF CallTyped
  <2> QED  BY <1>5, <1>6, <1>7, <1>10, <2>2, <2>3 DEF CallTyped, RequestOk
<1>15. Once'
  BY <1>5, <1>10, <1>11, <1>12, <1>13 DEF Once
<1>16. Sides'
  BY <1>5, <1>10, <1>11, <1>13 DEF Sides
<1>17. SteadyInv'
  BY <1>2, <1>5, <1>7, <1>8, <1>10, <1>11 DEF IInv, SteadyInv
<1>18. SingleInv'
  BY <1>5, <1>7, <1>10, <1>11 DEF IInv, SingleInv
<1>19. IntactInv'
  BY <1>5, <1>10, <1>11, <1>12, <1>13 DEF IInv, IntactInv
<1>20. ViewsTypeOK' /\ ViewsInv' /\ ChatTyped' /\ ChatInv'
  BY <1>5, ChatStands DEF Accept, ChatStill
<1> QED  BY <1>14, <1>15, <1>16, <1>17, <1>18, <1>19, <1>20 DEF IInv

LEMMA DeclineKeepsIInv ==
  ASSUME IInv, Decline, ChatStill
  PROVE  IInv'
<1>1. PICK c : c = incoming
  OBVIOUS
<1>2. PICK r : r = [kind |-> "decline", call |-> c, peer |-> None]
  OBVIOUS
<1>3. /\ ChatTyped /\ CallTyped /\ Once /\ Sides /\ c # 0 /\ incoming' = 0 /\ up' = Append(up, r)
      /\ UNCHANGED <<current, down, calls, unacked, active, joining, script, room, told, steady,
                     single, intact>>
  BY <1>1, <1>2 DEF Decline, Emit, callHistory, ChatStill, IInv
<1>4. c \in DOMAIN calls /\ c \in Nat
  BY <1>1, <1>3, Known
<1>5. r \in Request /\ r.kind = "decline" /\ r.call = c
  BY <1>2, <1>4 DEF Request
<1>6. PICK N : N = Len(up) + 1
  OBVIOUS
<1>7. /\ up \in Seq(Request) /\ up' \in Seq(Request) /\ DOMAIN up' = DOMAIN up \cup {N}
      /\ up'[N] = r /\ \A i \in DOMAIN up : up'[i] = up[i]
      /\ \A kind, d : Up(kind, d)' <=> Up(kind, d) \/ (kind = "decline" /\ d = c)
  BY <1>3, <1>5, <1>6, Known, Emitted
<1>8. /\ \A kind, d : Down(kind, d)' <=> Down(kind, d)
      /\ \A d : Mine(d)' <=> Mine(d)
      /\ \A d : Over(d)' <=> Over(d)
      /\ \A d : Alive(d)' <=> Alive(d)
      /\ \A d : Pending(d)' <=> Pending(d)
      /\ \A d : Joins(d)' <=> Joins(d)
      /\ OnceEach' <=> OnceEach
  BY <1>3 DEF Down, Mine, Over, Alive, Pending, Joins, OnceEach
<1>9. ~Mine(c) /\ ~Joins(c) /\ ~Down("incoming", c)
  BY <1>1, <1>3, <1>4 DEF Once, Sides
<1>10. CallTyped'
  BY <1>3, <1>4, <1>5, <1>7 DEF CallTyped, CallTypeOK, RequestOk
<1>11. Once' /\ Sides'
  BY <1>3, <1>7, <1>8, <1>9 DEF Once, Sides
<1>12. SteadyInv' /\ SingleInv' /\ IntactInv'
  BY <1>3, <1>5, <1>7, <1>8 DEF IInv, SteadyInv, SingleInv, IntactInv
<1>13. ViewsTypeOK' /\ ViewsInv' /\ ChatTyped' /\ ChatInv'
  BY <1>3, ChatStands DEF Decline, ChatStill
<1> QED  BY <1>10, <1>11, <1>12, <1>13 DEF IInv

(* endMeeting, whoever ends the call. *)
LEMMA EndingKeepsIInv ==
  ASSUME IInv, PressEnd \/ CallOver, ChatStill
  PROVE  IInv'
<1>1. PICK e, a : e = Head(down) /\ a = active
  OBVIOUS
<1>2. PICK r : r = [kind |-> "hangup", call |-> a, peer |-> None]
  OBVIOUS
<1>3. /\ ChatTyped /\ CallTyped /\ Once /\ Sides /\ active' = 0 /\ room' = NoRoom
      /\ a = 0 => up' = up
      /\ a # 0 => up' = Append(up, r)
      /\ \/ down' = down /\ told' = told /\ Move
         \/ /\ TakeEvent /\ e.kind = "over" /\ told' = told \cup {e.n}
            /\ moves' = moves
      /\ UNCHANGED <<current, calls, unacked, incoming, joining, script, steady, single>>
  BY <1>1, <1>2 DEF PressEnd, CallOver, EndMeeting, Emit, ChatStill, IInv
<1>4. /\ intact' \in BOOLEAN
      /\ intact' => intact /\ \A j \in Joining : joining[j].pc = "free"
  BY Zenon DEF PressEnd, CallOver
<1>5. a # 0 => /\ a \in DOMAIN calls /\ a \in Nat /\ r \in Request /\ r.kind = "hangup"
               /\ r.call = a /\ Mine(a) /\ ~Pending(a)
  <2>1. a # 0 => a \in DOMAIN calls /\ a \in Nat /\ Mine(a) /\ ~Pending(a)
    BY <1>1, <1>3, Known DEF Sides, Once
  <2> QED  BY <1>2, <2>1 DEF Request
<1>6. /\ up' \in Seq(Request)
      /\ \A i \in DOMAIN up' : (up'[i] = r /\ a # 0) \/ (i \in DOMAIN up /\ up'[i] = up[i])
      /\ \A kind, d : Up(kind, d)' <=> Up(kind, d) \/ (a # 0 /\ kind = "hangup" /\ d = a)
  <2>1. CASE a = 0
    <3>1. up' = up /\ up \in Seq(Request)
      BY <1>3, <2>1, Known
    <3> QED  BY <2>1, <3>1 DEF Up
  <2>2. CASE a # 0
    <3>1. up \in Seq(Request) /\ r \in Request /\ up' = Append(up, r)
      BY <1>3, <1>5, <2>2, Known
    <3>2. PICK N : N = Len(up) + 1
      OBVIOUS
    <3>3. /\ up' \in Seq(Request) /\ DOMAIN up' = DOMAIN up \cup {N} /\ up'[N] = r
          /\ \A i \in DOMAIN up : up'[i] = up[i]
          /\ \A kind, d : Up(kind, d)' <=> Up(kind, d) \/ (kind = r.kind /\ d = r.call)
      BY <3>1, <3>2, Emitted
    <3>4. r.kind = "hangup" /\ r.call = a
      BY <1>5, <2>2
    <3>5. \A i \in DOMAIN up' : (up'[i] = r /\ a # 0) \/ (i \in DOMAIN up /\ up'[i] = up[i])
      BY <2>2, <3>3
    <3>6. \A kind, d : Up(kind, d)' <=> Up(kind, d) \/ (a # 0 /\ kind = "hangup" /\ d = a)
      BY <2>2, <3>3, <3>4
    <3> QED  BY <3>3, <3>5, <3>6
  <2> QED  BY <2>1, <2>2
<1>7. /\ OnceEach'
      /\ \A kind, d : Down(kind, d)' => Down(kind, d)
      /\ \A kind, d : kind # "over" => (Down(kind, d) => Down(kind, d)')
      /\ \A d : Down("over", d) => Down("over", d)' \/ d \in told'
      /\ told \subseteq told' /\ told' \subseteq DOMAIN calls
  <2>1. CASE down' = down /\ told' = told
    BY <1>3, <2>1 DEF Once, OnceEach, Down, CallTyped, CallTypeOK
  <2>2. CASE TakeEvent /\ e.kind = "over" /\ told' = told \cup {e.n}
    <3>1. /\ OnceEach' /\ Down(e.kind, e.n)
          /\ \A kind, d : Down(kind, d)' => Down(kind, d)
          /\ \A kind, d : Down(kind, d) => Down(kind, d)' \/ (kind = e.kind /\ d = e.n)
      BY <1>1, <2>2, Known, Taken
    <3>2. e.n \in DOMAIN calls
      BY <2>2, <3>1, Known
    <3> QED  BY <1>3, <2>2, <3>1, <3>2 DEF CallTyped, CallTypeOK
  <2> QED  BY <1>3, <2>1, <2>2
<1>8. /\ \A d : Mine(d)' <=> Mine(d)
      /\ \A d : Over(d)' <=> Over(d)
      /\ \A d : Alive(d)' <=> Alive(d)
      /\ \A d : Joins(d)' => Joins(d)
      /\ \A d : intact' => ~Joins(d)'
  BY <1>3, <1>4 DEF Mine, Over, Alive, Joins
<1>9. \A d : Pending(d)' <=> Pending(d)
  BY <1>3, <1>7 DEF Pending
<1>10. CallTyped'
  <2>1. room' \in [peer: Peer \cup {None}, call: 0..Len(calls)] /\ active' \in 0..Len(calls)
    <3>1. 0 \in 0..Len(calls)
      BY Known
    <3> QED  BY <1>3, <3>1 DEF NoRoom
  <2>2. CallTypeOK'
    BY <1>3, <1>4, <1>7, <2>1 DEF CallTyped, CallTypeOK
  <2>3. \A i \in DOMAIN up' : RequestOk(up'[i])
    BY <1>3, <1>5, <1>6 DEF CallTyped, RequestOk
  <2> QED  BY <1>3, <1>6, <2>2, <2>3 DEF CallTyped, RequestOk, NoRoom
<1>11. Once'
  <2>1. \A kind, d : kind # "hangup" => (Up(kind, d)' <=> Up(kind, d))
    BY <1>6
  <2>2. \A c \in DOMAIN calls : Pending(c)' => active' # c /\ ~Up("hangup", c)'
    BY <1>3, <1>5, <1>6, <1>9, Known DEF Once
  <2> QED  BY <1>3, <1>7, <1>8, <1>9, <2>1, <2>2 DEF Once
<1>12. Sides'
  BY <1>3, <1>5, <1>6, <1>7, <1>8, <1>9 DEF Sides
<1>13. SteadyInv'
  BY <1>3, <1>5, <1>6, <1>9 DEF IInv, SteadyInv, NoRoom
<1>14. SingleInv'
  <2>1. \A d \in DOMAIN calls : (single /\ Alive(d)) => Pending(d) \/ Up("hangup", d)'
    BY <1>1, <1>3, <1>6, Known DEF IInv, SingleInv
  <2> QED  BY <1>3, <1>5, <1>6, <1>8, <1>9, <2>1 DEF IInv, SingleInv
<1>15. IntactInv'
  BY <1>3, <1>4, <1>7, <1>8, <1>9 DEF IInv, IntactInv
<1>16. ViewsTypeOK' /\ ViewsInv' /\ ChatTyped' /\ ChatInv'
  BY <1>1, <1>3, ChatStands DEF ChatStill
<1> QED  BY <1>10, <1>11, <1>12, <1>13, <1>14, <1>15, <1>16 DEF IInv

-----------------------------------------------------------------------------
(* The server. *)

LEMMA MadeCall ==
  ASSUME IInv, NEW p \in Peer, NEW by \in {"me", "peer"}, MakeCall(p, by),
         NEW c, c = Len(calls) + 1
  PROVE  /\ calls' \in Seq(CallRow) /\ DOMAIN calls' = DOMAIN calls \cup {c}
         /\ Len(calls') = Len(calls) + 1 /\ Len(calls') <= MaxCalls
         /\ \A d \in DOMAIN calls : calls'[d] = calls[d]
         /\ calls'[c].peer = p /\ calls'[c].by = by /\ calls'[c].status = "rings"
         /\ \A d \in DOMAIN calls' : calls'[d] \in CallRow
         /\ c \notin DOMAIN calls /\ c # 0 /\ c \in Nat
         /\ \A d \in DOMAIN calls : d # c
<1>1. PICK x : x = [peer |-> p, by |-> by, status |-> "rings"]
  OBVIOUS
<1>2. x \in CallRow /\ x.peer = p /\ x.by = by /\ x.status = "rings"
  BY <1>1 DEF CallRow
<1>3. calls \in Seq(CallRow) /\ calls' = Append(calls, x) /\ Len(calls) < MaxCalls
  BY <1>1, Known DEF MakeCall
<1>4. /\ calls' \in Seq(CallRow) /\ Len(calls') = Len(calls) + 1 /\ Len(calls) \in Nat
      /\ DOMAIN calls' = DOMAIN calls \cup {c} /\ c \notin DOMAIN calls /\ calls'[c] = x
      /\ \A d \in DOMAIN calls : calls'[d] = calls[d]
  BY <1>2, <1>3, AppendOf
<1>5. \A d \in DOMAIN calls' : calls'[d] \in CallRow
  BY <1>4, Indices
<1> QED  BY <1>2, <1>3, <1>4, <1>5

LEMMA ChangedCall ==
  ASSUME IInv, NEW c \in DOMAIN calls, NEW st \in {"rings", "taken", "over"}, Becomes(c, st)
  PROVE  /\ calls' \in Seq(CallRow) /\ DOMAIN calls' = DOMAIN calls /\ Len(calls') = Len(calls)
         /\ \A d \in DOMAIN calls : calls'[d] \in CallRow
         /\ \A d \in DOMAIN calls \ {c} : calls'[d] = calls[d]
         /\ calls'[c].peer = calls[c].peer /\ calls'[c].by = calls[c].by
         /\ calls'[c].status = st
<1>1. PICK x : x = [calls[c] EXCEPT !.status = st]
  OBVIOUS
<1>2. calls \in Seq(CallRow) /\ c \in 1..Len(calls) /\ calls[c] \in CallRow /\ DOMAIN calls = 1..Len(calls)
  BY Known
<1>3. x \in CallRow /\ x.peer = calls[c].peer /\ x.by = calls[c].by /\ x.status = st
  BY <1>1, <1>2 DEF CallRow
<1>4. calls' = [calls EXCEPT ![c] = x]
  BY <1>1 DEF Becomes
<1>5. calls' \in Seq(CallRow) /\ Len(calls') = Len(calls)
  BY <1>2, <1>3, <1>4, ExceptSeq
<1>6. /\ DOMAIN calls' = DOMAIN calls /\ calls'[c] = x
      /\ \A d \in DOMAIN calls \ {c} : calls'[d] = calls[d]
      /\ \A d \in DOMAIN calls : calls'[d] \in CallRow
  <2>1. DOMAIN calls' = DOMAIN calls /\ calls'[c] = x
        /\ \A d \in DOMAIN calls \ {c} : calls'[d] = calls[d]
    BY <1>2, <1>4
  <2> QED  BY <1>2, <1>3, <2>1, Known
<1> QED  BY <1>3, <1>5, <1>6

(* What the page keeps of its calls is not touched by the server. *)
PageStill == UNCHANGED <<incoming, active, joining, script, room, told, steady, single>>

LEMMA RowsTyped ==
  ASSUME IInv, PageStill, calls' \in Seq(CallRow), DOMAIN calls \subseteq DOMAIN calls',
         \A d \in DOMAIN calls' : calls'[d] \in CallRow, Len(calls') \in Nat,
         Len(calls') >= Len(calls), Len(calls') <= MaxCalls, unacked' \subseteq DOMAIN calls',
         up' \in Seq(Request), (\A i \in DOMAIN up : RequestOk(up[i]))', intact' \in BOOLEAN
  PROVE  CallTyped'
<1>1. CallTyped /\ 0..Len(calls) \subseteq 0..Len(calls')
  <2>1. Len(calls) \in Nat
    BY Known
  <2> QED  BY <2>1 DEF IInv
<1>2. /\ incoming' \in 0..Len(calls') /\ active' \in 0..Len(calls')
      /\ joining' \in [Joining -> [pc: {"free", "meet", "load"}, peer: Peer \cup {None},
                                   call: 0..Len(calls')]]
      /\ room' \in [peer: Peer \cup {None}, call: 0..Len(calls')]
  BY <1>1 DEF PageStill, CallTyped, CallTypeOK
<1>3. CallTypeOK'
  BY <1>1, <1>2 DEF PageStill, CallTyped, CallTypeOK, CallRow
<1> QED  BY <1>1, <1>3 DEF PageStill, CallTyped

LEMMA RequestsKnown ==
  ASSUME IInv, DOMAIN calls \subseteq DOMAIN calls',
         \/ up' = up
         \/ up # <<>> /\ up' = Tail(up)
  PROVE  up' \in Seq(Request) /\ (\A i \in DOMAIN up : RequestOk(up[i]))'
<1>1. /\ up \in Seq(Request) /\ \A i \in DOMAIN up : RequestOk(up[i])
      /\ \A x : RequestOk(x) => RequestOk(x)'
  BY DEF IInv, CallTyped, RequestOk
<1>2. CASE up' = up
  BY <1>1, <1>2 DEF RequestOk
<1>3. CASE up # <<>> /\ up' = Tail(up)
  <2>1. /\ up' \in Seq(Request)
        /\ \A i \in DOMAIN up' : i \in Nat /\ i + 1 \in DOMAIN up /\ up'[i] = up[i + 1]
    BY <1>1, <1>3, TailOf
  <2>2. \A i \in DOMAIN up' : \E k \in DOMAIN up : up'[i] = up[k]
    BY <2>1
  <2> QED  BY <1>1, <2>1, <2>2 DEF RequestOk
<1> QED  BY <1>2, <1>3

LEMMA SteadyKept ==
  ASSUME IInv, PageStill, UNCHANGED current, DOMAIN calls \subseteq DOMAIN calls',
         \A d \in DOMAIN calls : calls'[d].peer = calls[d].peer,
         \A i \in DOMAIN up' : \E k \in DOMAIN up : up'[i] = up[k],
         \A d : Pending(d)' => Pending(d) \/ (steady => calls'[d].peer = current)
  PROVE  SteadyInv'
<1>1. SteadyInv /\ CallTyped /\ \A d : Pending(d) => d \in DOMAIN calls
  BY Known DEF IInv
<1>2. ASSUME steady' PROVE SteadyInv'
  <2>1. steady
    BY <1>2 DEF PageStill
  <2>2. \A i \in DOMAIN up' : up'[i].kind = "ring" => up'[i].peer = current'
    BY <1>1, <2>1 DEF SteadyInv
  <2>3. \A d \in DOMAIN calls' : Pending(d)' => calls'[d].peer = current'
    BY <1>1, <2>1 DEF SteadyInv
  <2>4. /\ \A j \in Joining : joining'[j].pc # "free" =>
              joining'[j].peer = calls'[joining'[j].call].peer
        /\ room' # NoRoom => room'.peer = calls'[room'.call].peer
    BY <1>1, <2>1 DEF PageStill, SteadyInv, CallTyped
  <2> QED  BY <2>2, <2>3, <2>4 DEF SteadyInv, NoRoom
<1> QED  BY <1>2 DEF SteadyInv

LEMMA ServeRingKeepsIInv ==
  ASSUME IInv, ServeRing, ChatStill
  PROVE  IInv'
<1>1. PICK x, c : x = Head(up) /\ c = Len(calls) + 1
  OBVIOUS
<1>2. /\ up # <<>> /\ x.kind = "ring" /\ up' = Tail(up) /\ PageStill
      /\ \/ UNCHANGED <<calls, unacked>>
         \/ MakeCall(x.peer, "me") /\ unacked' = unacked \cup {c}
      /\ UNCHANGED <<moves, down, intact, current>>
  BY <1>1 DEF ServeRing, pageCalls, PageStill, ChatStill
<1>3. /\ up' \in Seq(Request) /\ x \in Request /\ 1 \in DOMAIN up /\ x = up[1]
      /\ \A kind, d : kind # "ring" => (Up(kind, d)' <=> Up(kind, d))
      /\ \A i \in DOMAIN up' : i \in Nat /\ i + 1 \in DOMAIN up /\ up'[i] = up[i + 1]
  BY <1>1, <1>2, Known, Handled
<1>4. \A i \in DOMAIN up' : \E k \in DOMAIN up : up'[i] = up[k] /\ k # 1
  <2> SUFFICES ASSUME NEW i \in DOMAIN up' PROVE \E k \in DOMAIN up : up'[i] = up[k] /\ k # 1
    OBVIOUS
  <2>1. PICK k \in DOMAIN up : k = i + 1
    BY <1>3
  <2>2. i \in 1..Len(up')
    BY <1>3, Indices
  <2> QED  BY <1>3, <2>1, <2>2
<1>5. x.peer \in Peer
  BY <1>2, <1>3 DEF IInv, CallTyped, RequestOk
<1>6. /\ \A kind, d : Down(kind, d)' <=> Down(kind, d)
      /\ \A d : Joins(d)' <=> Joins(d)
      /\ OnceEach' <=> OnceEach
  BY <1>2 DEF Down, Joins, OnceEach, PageStill
<1>7. /\ OnceEach /\ CallTyped /\ Once /\ Sides /\ SteadyInv /\ SingleInv /\ IntactInv
      /\ Len(calls) <= MaxCalls /\ Len(calls) \in Nat /\ intact \in BOOLEAN
  BY Known DEF IInv, CallTyped, CallTypeOK
<1>8. single => \A i \in DOMAIN up' : up'[i].kind # "ring"
  BY <1>2, <1>3, <1>4, <1>7 DEF SingleInv
<1>9. single => \A d \in DOMAIN calls : ~Alive(d) /\ ~Pending(d)
  BY <1>2, <1>3, <1>7 DEF SingleInv
<1>10. CASE UNCHANGED <<calls, unacked>>
  <2>1. /\ \A d : Mine(d)' <=> Mine(d)
        /\ \A d : Over(d)' <=> Over(d)
        /\ \A d : Alive(d)' <=> Alive(d)
        /\ \A d : Pending(d)' <=> Pending(d)
    BY <1>2, <1>6, <1>10 DEF Mine, Over, Alive, Pending
  <2>2. CallTyped'
    BY <1>2, <1>7, <1>10, RequestsKnown, RowsTyped, Known DEF CallTyped, CallTypeOK
  <2>3. Once' /\ Sides'
    BY <1>2, <1>3, <1>6, <1>7, <1>10, <2>1 DEF Once, Sides, PageStill
  <2>4. SteadyInv'
    BY <1>2, <1>4, <1>10, <2>1, SteadyKept
  <2>5. SingleInv' /\ IntactInv'
    BY <1>2, <1>3, <1>6, <1>7, <1>8, <1>10, <2>1 DEF SingleInv, IntactInv, PageStill
  <2>6. ViewsTypeOK' /\ ViewsInv' /\ ChatTyped' /\ ChatInv'
    BY <1>2, <1>10, ChatStands DEF ChatStill
  <2> QED  BY <2>2, <2>3, <2>4, <2>5, <2>6 DEF IInv
<1>11. CASE MakeCall(x.peer, "me") /\ unacked' = unacked \cup {c}
  <2>1. PICK p \in Peer, by \in {"me", "peer"} : p = x.peer /\ by = "me"
    BY <1>5
  <2>2. /\ calls' \in Seq(CallRow) /\ DOMAIN calls' = DOMAIN calls \cup {c}
        /\ Len(calls') = Len(calls) + 1 /\ Len(calls') <= MaxCalls
        /\ \A d \in DOMAIN calls : calls'[d] = calls[d]
        /\ calls'[c].peer = p /\ calls'[c].by = "me" /\ calls'[c].status = "rings"
        /\ \A d \in DOMAIN calls' : calls'[d] \in CallRow
        /\ c \notin DOMAIN calls /\ c # 0
    BY <1>1, <1>11, <2>1, MadeCall
  <2>3. /\ \A d \in DOMAIN calls : Mine(d)' <=> Mine(d)
        /\ \A d \in DOMAIN calls : Over(d)' <=> Over(d)
        /\ \A d \in DOMAIN calls : Alive(d)' <=> Alive(d)
        /\ Mine(c)' /\ ~Over(c)' /\ Alive(c)'
    BY <2>2 DEF Mine, Over, Alive
  <2>4. /\ \A kind : kind # "message" => ~Down(kind, c)
        /\ \A kind : kind # "ring" => ~Up(kind, c)
        /\ ~Pending(c) /\ ~Joins(c) /\ incoming # c /\ active # c
    BY <2>2, Known
  <2>5. /\ Pending(c)' /\ \A d : d # c => (Pending(d)' <=> Pending(d))
    BY <1>2, <1>6, <1>11 DEF Pending
  <2>6. CallTyped'
    <3>1. unacked' \subseteq DOMAIN calls'
      BY <1>7, <1>11, <2>2 DEF CallTyped, CallTypeOK
    <3>2. up' \in Seq(Request) /\ (\A i \in DOMAIN up : RequestOk(up[i]))'
      BY <1>2, <2>2, RequestsKnown
    <3> QED  BY <1>2, <1>7, <2>2, <3>1, <3>2, RowsTyped
  <2>7. Once'
    BY <1>2, <1>3, <1>6, <1>7, <1>11, <2>2, <2>4, <2>5 DEF Once, PageStill
  <2>8. Sides'
    BY <1>2, <1>3, <1>6, <1>7, <2>2, <2>3, <2>4, <2>5, Known DEF Sides, PageStill
  <2>9. SteadyInv'
    <3>1. steady => calls'[c].peer = current
      BY <1>2, <1>3, <1>7, <2>1, <2>2 DEF SteadyInv
    <3> QED  BY <1>2, <1>4, <2>2, <2>5, <3>1, SteadyKept
  <2>10. SingleInv'
    BY <1>2, <1>3, <1>7, <1>8, <1>9, <2>2, <2>3, <2>5 DEF SingleInv, PageStill
  <2>11. IntactInv'
    BY <1>2, <1>3, <1>6, <1>7, <2>2, <2>3, <2>4, <2>5 DEF IntactInv, PageStill
  <2>12. ViewsTypeOK' /\ ViewsInv' /\ ChatTyped' /\ ChatInv'
    BY <1>2, <2>2, ChatStands DEF ChatStill
  <2> QED  BY <2>6, <2>7, <2>8, <2>9, <2>10, <2>11, <2>12 DEF IInv
<1> QED  BY <1>2, <1>10, <1>11

LEMMA AckKeepsIInv ==
  ASSUME IInv, NEW c \in DOMAIN calls, Ack(c), ChatStill
  PROVE  IInv'
<1>1. PICK e : e = [kind |-> "ack", of |-> None, n |-> c]
  OBVIOUS
<1>2. /\ c \in unacked /\ unacked' = unacked \ {c} /\ down' = Append(down, e) /\ PageStill
      /\ UNCHANGED <<moves, calls, up, intact, current>>
  BY <1>1 DEF Ack, Push, pageCalls, PageStill, ChatStill
<1>3. /\ OnceEach /\ CallTyped /\ Once /\ Sides /\ SteadyInv /\ SingleInv /\ IntactInv
      /\ down \in Seq(Event)
  BY Known DEF IInv
<1>4. e \in Event /\ e.kind = "ack" /\ e.n = c
  BY <1>1, Known DEF Event
<1>5. /\ down' \in Seq(Event) /\ OnceEach'
      /\ \A kind, d : Down(kind, d)' <=> (Down(kind, d) \/ (kind = "ack" /\ d = c))
  <2>1. ~Down("ack", c)
    BY <1>2, <1>3 DEF Once
  <2> QED  BY <1>2, <1>3, <1>4, <2>1, Pushed
<1>6. /\ \A kind, d : Up(kind, d)' <=> Up(kind, d)
      /\ \A d : Mine(d)' <=> Mine(d)
      /\ \A d : Over(d)' <=> Over(d)
      /\ \A d : Alive(d)' <=> Alive(d)
      /\ \A d : Joins(d)' <=> Joins(d)
  BY <1>2 DEF Up, Mine, Over, Alive, Joins, PageStill
<1>7. \A d : Pending(d)' <=> Pending(d)
  BY <1>2, <1>5 DEF Pending
<1>8. CallTyped'
  BY <1>2, <1>3 DEF CallTyped, CallTypeOK, RequestOk, PageStill
<1>9. Once' /\ Sides'
  BY <1>2, <1>3, <1>5, <1>6, <1>7 DEF Once, Sides, PageStill
<1>10. SteadyInv' /\ SingleInv' /\ IntactInv'
  BY <1>2, <1>3, <1>5, <1>6, <1>7 DEF SteadyInv, SingleInv, IntactInv, PageStill
<1>11. ViewsTypeOK' /\ ViewsInv' /\ ChatTyped' /\ ChatInv'
  BY <1>2, <1>4, ChatStands DEF ChatStill
<1> QED  BY <1>8, <1>9, <1>10, <1>11 DEF IInv

LEMMA RingMeKeepsIInv ==
  ASSUME IInv, NEW p \in Peer, RingMe(p), ChatStill
  PROVE  IInv'
<1>1. PICK c : c = Len(calls) + 1
  OBVIOUS
<1>2. PICK e : e = [kind |-> "incoming", of |-> None, n |-> c]
  OBVIOUS
<1>3. /\ MakeCall(p, "peer") /\ Move /\ down' = Append(down, e) /\ PageStill
      /\ UNCHANGED <<up, unacked, intact, current>>
  BY <1>1, <1>2 DEF RingMe, Push, pageCalls, PageStill, ChatStill
<1>4. /\ OnceEach /\ CallTyped /\ Once /\ Sides /\ SteadyInv /\ SingleInv /\ IntactInv
      /\ down \in Seq(Event) /\ Len(calls) \in Nat /\ intact \in BOOLEAN
      /\ unacked \subseteq DOMAIN calls
  BY Known DEF IInv, CallTyped, CallTypeOK
<1>5. PICK by \in {"me", "peer"} : by = "peer"
  OBVIOUS
<1>6. /\ calls' \in Seq(CallRow) /\ DOMAIN calls' = DOMAIN calls \cup {c}
      /\ Len(calls') = Len(calls) + 1 /\ Len(calls') <= MaxCalls
      /\ \A d \in DOMAIN calls : calls'[d] = calls[d]
      /\ calls'[c].peer = p /\ calls'[c].by = "peer" /\ calls'[c].status = "rings"
      /\ \A d \in DOMAIN calls' : calls'[d] \in CallRow
      /\ c \notin DOMAIN calls /\ c # 0 /\ c \in Nat
  BY <1>1, <1>3, <1>5, MadeCall
<1>7. e \in Event /\ e.kind = "incoming" /\ e.n = c
  BY <1>2, <1>6 DEF Event
<1>8. /\ \A kind : kind # "message" => ~Down(kind, c)
      /\ \A kind : kind # "ring" => ~Up(kind, c)
      /\ ~Pending(c) /\ ~Joins(c) /\ incoming # c /\ active # c
  BY <1>6, Known
<1>9. /\ down' \in Seq(Event) /\ OnceEach'
      /\ \A kind, d : Down(kind, d)' <=> (Down(kind, d) \/ (kind = "incoming" /\ d = c))
  BY <1>3, <1>4, <1>7, <1>8, Pushed
<1>10. /\ \A kind, d : Up(kind, d)' <=> Up(kind, d)
       /\ \A d : Joins(d)' <=> Joins(d)
       /\ \A d \in DOMAIN calls : Mine(d)' <=> Mine(d)
       /\ \A d \in DOMAIN calls : Over(d)' <=> Over(d)
       /\ \A d \in DOMAIN calls : Alive(d)' <=> Alive(d)
       /\ ~Mine(c)' /\ ~Over(c)' /\ ~Alive(c)'
  BY <1>3, <1>6 DEF Up, Joins, Mine, Over, Alive, PageStill
<1>11. \A d : Pending(d)' <=> Pending(d)
  BY <1>3, <1>9 DEF Pending
<1>12. CallTyped'
  <2>1. up' \in Seq(Request) /\ (\A i \in DOMAIN up : RequestOk(up[i]))'
    BY <1>3, <1>6, RequestsKnown
  <2> QED  BY <1>3, <1>4, <1>6, <2>1, RowsTyped
<1>13. Once'
  BY <1>3, <1>4, <1>6, <1>8, <1>9, <1>10, <1>11 DEF Once, PageStill
<1>14. Sides'
  BY <1>3, <1>4, <1>6, <1>8, <1>9, <1>10, <1>11, Known DEF Sides, PageStill
<1>15. SteadyInv'
  BY <1>3, <1>6, <1>11, SteadyKept
<1>16. SingleInv'
  BY <1>3, <1>4, <1>6, <1>8, <1>10, <1>11 DEF SingleInv, PageStill
<1>17. IntactInv'
  BY <1>3, <1>4, <1>6, <1>8, <1>9, <1>10, <1>11 DEF IntactInv, PageStill
<1>18. ViewsTypeOK' /\ ViewsInv' /\ ChatTyped' /\ ChatInv'
  BY <1>3, <1>6, <1>7, ChatStands DEF ChatStill
<1> QED  BY <1>12, <1>13, <1>14, <1>15, <1>16, <1>17, <1>18 DEF IInv

LEMMA PeerKeepsIInv ==
  ASSUME IInv, NEW c \in DOMAIN calls, PeerAccepts(c) \/ PeerEnds(c), ChatStill
  PROVE  IInv'
<1> DEFINE Hidden == ~Mine(c) /\ calls[c].status = "rings"
<1>1. /\ OnceEach /\ CallTyped /\ Once /\ Sides /\ SteadyInv /\ SingleInv /\ IntactInv
      /\ down \in Seq(Event) /\ Len(calls) \in Nat /\ intact \in BOOLEAN
      /\ unacked \subseteq DOMAIN calls /\ calls[c] \in CallRow /\ Len(calls) <= MaxCalls
  BY Known DEF IInv, CallTyped, CallTypeOK
<1>2. /\ PageStill /\ UNCHANGED <<moves, up, unacked, intact, current>>
  BY DEF PeerAccepts, PeerEnds, pageCalls, PageStill, ChatStill
<1>3. PICK st \in {"rings", "taken", "over"}, kind \in {"none", "cancelled", "over"} :
         /\ Becomes(c, st)
         /\ \/ st = "taken" /\ kind = "none" /\ Mine(c) /\ calls[c].status = "rings"
            \/ st = "over" /\ kind = IF Hidden THEN "cancelled" ELSE "over"
         /\ IF kind = "none" THEN down' = down
            ELSE down' = Append(down, [kind |-> kind, of |-> None, n |-> c])
  <2>1. CASE PeerAccepts(c)
    <3>1. PICK x : x = [calls[c] EXCEPT !.by = "me", !.status = "rings"]
      OBVIOUS
    <3>2. calls[c] = x /\ x.by = "me" /\ x.status = "rings"
      BY <1>1, <2>1, <3>1 DEF PeerAccepts, CallRow
    <3>3. Becomes(c, "taken") /\ down' = down
      BY <2>1 DEF PeerAccepts
    <3> QED  BY <3>2, <3>3 DEF Mine
  <2>2. CASE PeerEnds(c)
    BY <2>2 DEF PeerEnds, Push
  <2> QED  BY <2>1, <2>2
<1>4. /\ calls' \in Seq(CallRow) /\ DOMAIN calls' = DOMAIN calls /\ Len(calls') = Len(calls)
      /\ \A d \in DOMAIN calls : calls'[d] \in CallRow
      /\ \A d \in DOMAIN calls \ {c} : calls'[d] = calls[d]
      /\ calls'[c].peer = calls[c].peer /\ calls'[c].by = calls[c].by
      /\ calls'[c].status = st
  BY <1>3, ChangedCall
<1>5. PICK e : e = [kind |-> kind, of |-> None, n |-> c]
  OBVIOUS
<1>6. kind # "none" => /\ down' = Append(down, e) /\ e \in Event /\ e.kind = kind /\ e.n = c
                       /\ e.kind # "message" /\ e.kind \notin {"ack", "incoming"}
  <2>1. c \in Nat
    BY Known
  <2> QED  BY <1>3, <1>5, <2>1 DEF Event
<1>7. /\ OnceEach'
      /\ \A k, d : Down(k, d)' <=> Down(k, d) \/ (kind # "none" /\ k = kind /\ d = c)
  <2>1. CASE kind = "none"
    BY <1>1, <1>3, <2>1 DEF OnceEach, Down
  <2>2. CASE kind # "none"
    BY <1>1, <1>6, <2>2, Pushed
  <2> QED  BY <2>1, <2>2
<1>8. /\ \A k, d : Up(k, d)' <=> Up(k, d)
      /\ \A d : Joins(d)' <=> Joins(d)
      /\ \A d \in DOMAIN calls : Mine(d)' <=> Mine(d)
      /\ \A d \in DOMAIN calls : d # c => (Over(d)' <=> Over(d))
      /\ \A d \in DOMAIN calls : Alive(d)' => Alive(d)
  BY <1>2, <1>3, <1>4 DEF Up, Joins, Mine, Over, Alive, PageStill
<1>9. \A d : Pending(d)' <=> Pending(d)
  BY <1>2, <1>3, <1>7 DEF Pending
<1>10. CallTyped'
  <2>1. up' \in Seq(Request) /\ (\A i \in DOMAIN up : RequestOk(up[i]))'
    BY <1>2, <1>4, RequestsKnown
  <2> QED  BY <1>1, <1>2, <1>4, <2>1, RowsTyped
<1>11. Once'
  BY <1>1, <1>2, <1>3, <1>4, <1>7, <1>8, <1>9 DEF Once, PageStill
<1>12. Sides'
  BY <1>1, <1>2, <1>3, <1>4, <1>7, <1>8, <1>9, Known DEF Sides, PageStill
<1>13. SteadyInv'
  BY <1>2, <1>4, <1>9, SteadyKept
<1>14. SingleInv'
  BY <1>1, <1>2, <1>4, <1>8, <1>9 DEF SingleInv, PageStill
<1>15. IntactInv'
  <2>1. ASSUME intact', NEW d \in DOMAIN calls, d # c
        PROVE  /\ (Pending(d) /\ Over(d) => Down("over", d) \/ d \in told)'
               /\ (Joins(d) /\ Over(d) => Down("over", d) \/ Up("accept", d))'
               /\ (Joins(d) /\ ~Mine(d) /\ calls[d].status = "rings" => Up("accept", d))'
               /\ (Up("hangup", d) => ~Joins(d))'
    BY <1>1, <1>2, <1>4, <1>7, <1>8, <1>9, <2>1 DEF IntactInv, PageStill
  <2>2. ASSUME intact'
        PROVE  /\ (Pending(c) /\ Over(c) => Down("over", c) \/ c \in told)'
               /\ (Joins(c) /\ Over(c) => Down("over", c) \/ Up("accept", c))'
               /\ (Joins(c) /\ ~Mine(c) /\ calls[c].status = "rings" => Up("accept", c))'
               /\ (Up("hangup", c) => ~Joins(c))'
    <3>1. Pending(c) => Mine(c)
      BY <1>1 DEF Sides
    <3>2. Over(c)' <=> st = "over"
      BY <1>4 DEF Over
    <3>3. calls'[c].status # "rings"
      BY <1>3, <1>4
    <3> QED  BY <1>1, <1>2, <1>3, <1>7, <1>8, <1>9, <2>2, <3>1, <3>2, <3>3 DEF IntactInv
  <2> QED  BY <1>4, <2>1, <2>2 DEF IntactInv
<1>16. ViewsTypeOK' /\ ViewsInv' /\ ChatTyped' /\ ChatInv'
  BY <1>2, <1>3, <1>4, <1>6, ChatStands DEF ChatStill
<1> QED  BY <1>10, <1>11, <1>12, <1>13, <1>14, <1>15, <1>16 DEF IInv

LEMMA ServeRestKeepsIInv ==
  ASSUME IInv, ServeRest, ChatStill
  PROVE  IInv'
<1>1. PICK x : x = Head(up)
  OBVIOUS
<1>2. PICK c : c = x.call
  OBVIOUS
<1>3. /\ up # <<>> /\ x.kind # "ring" /\ up' = Tail(up) /\ PageStill
      /\ UNCHANGED <<moves, down, unacked, current>>
  BY <1>1 DEF ServeRest, pageCalls, PageStill, ChatStill
<1>4. /\ OnceEach /\ CallTyped /\ Once /\ Sides /\ SteadyInv /\ SingleInv /\ IntactInv
      /\ Len(calls) \in Nat /\ Len(calls) <= MaxCalls /\ calls \in Seq(CallRow)
      /\ unacked \subseteq DOMAIN calls
  BY Known DEF IInv, CallTyped, CallTypeOK
<1>5. /\ up' \in Seq(Request) /\ x \in Request /\ Up(x.kind, c) /\ x = up[1]
      /\ \A kind, d : Up(kind, d)' => Up(kind, d)
      /\ \A kind, d : Up(kind, d) => Up(kind, d)' \/ (kind = x.kind /\ d = c)
      /\ \A i \in DOMAIN up' : i \in Nat /\ i + 1 \in DOMAIN up /\ up'[i] = up[i + 1]
  BY <1>1, <1>2, <1>3, Known, Handled
<1>6. c \in DOMAIN calls /\ calls[c] \in CallRow /\ x.kind \in {"accept", "decline", "hangup"}
  BY <1>3, <1>5, Known DEF Request
<1>7. \/ x.kind = "accept" /\ calls[c].status = "rings" /\ Becomes(c, "taken")
      \/ x.kind = "decline" /\ calls[c].status = "rings" /\ Becomes(c, "over")
      \/ x.kind = "hangup" /\ Becomes(c, "over")
      \/ x.kind \in {"accept", "decline"} /\ calls[c].status # "rings" /\ calls' = calls
  BY <1>1, <1>2, <1>6 DEF ServeRest
<1>8. /\ intact' \in BOOLEAN
      /\ intact' => intact
      /\ intact' => ~(x.kind = "accept" /\ calls[c].status # "rings")
  BY <1>1, <1>2, Zenon DEF ServeRest
<1>9. /\ calls' \in Seq(CallRow) /\ DOMAIN calls' = DOMAIN calls /\ Len(calls') = Len(calls)
      /\ \A d \in DOMAIN calls : calls'[d] \in CallRow
      /\ \A d \in DOMAIN calls \ {c} : calls'[d] = calls[d]
      /\ calls'[c].peer = calls[c].peer /\ calls'[c].by = calls[c].by
      /\ \/ x.kind = "accept" /\ calls'[c].status = "taken" /\ calls[c].status = "rings"
         \/ x.kind \in {"decline", "hangup"} /\ calls'[c].status = "over"
         \/ x.kind \in {"accept", "decline"} /\ calls' = calls /\ calls[c].status # "rings"
  <2>1. CASE calls' = calls
    BY <1>4, <1>6, <1>7, <2>1, Known, ChangedCall
  <2>2. ASSUME NEW st \in {"rings", "taken", "over"}, Becomes(c, st)
        PROVE  /\ calls' \in Seq(CallRow) /\ DOMAIN calls' = DOMAIN calls
               /\ Len(calls') = Len(calls)
               /\ \A d \in DOMAIN calls : calls'[d] \in CallRow
               /\ \A d \in DOMAIN calls \ {c} : calls'[d] = calls[d]
               /\ calls'[c].peer = calls[c].peer /\ calls'[c].by = calls[c].by
               /\ calls'[c].status = st
    BY <1>6, <2>2, ChangedCall
  <2> QED  BY <1>7, <2>1, <2>2
<1>10. /\ \A kind, d : Down(kind, d)' <=> Down(kind, d)
       /\ OnceEach' <=> OnceEach
       /\ \A d : Joins(d)' <=> Joins(d)
       /\ \A d : Pending(d)' <=> Pending(d)
  BY <1>3 DEF Down, OnceEach, Joins, Pending, PageStill
<1>11. /\ \A d \in DOMAIN calls : Mine(d)' <=> Mine(d)
       /\ \A d \in DOMAIN calls : d # c => (Over(d)' <=> Over(d))
       /\ \A d \in DOMAIN calls : Alive(d)' => Alive(d)
       /\ x.kind = "hangup" => ~Alive(c)'
  BY <1>6, <1>9 DEF Mine, Over, Alive
<1>12. CallTyped'
  <2>1. up' \in Seq(Request) /\ (\A i \in DOMAIN up : RequestOk(up[i]))'
    BY <1>3, <1>9, RequestsKnown
  <2> QED  BY <1>3, <1>4, <1>8, <1>9, <2>1, RowsTyped
<1>13. Once'
  BY <1>3, <1>4, <1>5, <1>9, <1>10 DEF Once, PageStill
<1>14. Sides'
  BY <1>3, <1>4, <1>5, <1>9, <1>10, <1>11, Known DEF Sides, PageStill
<1>15. SteadyInv'
  <2>1. \A i \in DOMAIN up' : \E k \in DOMAIN up : up'[i] = up[k]
    BY <1>5
  <2> QED  BY <1>3, <1>6, <1>9, <1>10, <2>1, SteadyKept
<1>16. SingleInv'
  <2>1. ASSUME single', NEW i \in DOMAIN up', up'[i].kind = "ring"
        PROVE  /\ \A d \in DOMAIN calls : ~Alive(d)' /\ ~Pending(d)'
               /\ \A k \in DOMAIN up' : up'[k].kind = "ring" => k = i
    <3>1. PICK a \in DOMAIN up : a = i + 1 /\ up[a].kind = "ring" /\ i \in Nat
      BY <1>5, <2>1
    <3>2. single
      BY <1>3, <2>1 DEF PageStill
    <3>3. \A d \in DOMAIN calls : ~Alive(d)' /\ ~Pending(d)'
      BY <1>4, <1>10, <1>11, <3>1, <3>2 DEF SingleInv
    <3>4. ASSUME NEW k \in DOMAIN up', up'[k].kind = "ring" PROVE k = i
      <4>1. PICK b \in DOMAIN up : b = k + 1 /\ up[b].kind = "ring" /\ k \in Nat
        BY <1>5, <3>4
      <4>2. a = b
        BY <1>4, <3>1, <3>2, <4>1 DEF SingleInv
      <4> QED  BY <3>1, <4>1, <4>2
    <3> QED  BY <3>3, <3>4
  <2>2. ASSUME single', NEW d \in DOMAIN calls, Alive(d)'
        PROVE  Pending(d)' \/ active' = d \/ Up("hangup", d)'
    <3>1. single /\ active' = active
      BY <1>3, <2>2 DEF PageStill
    <3>2. Pending(d) \/ active = d \/ Up("hangup", d)
      BY <1>4, <1>11, <2>2, <3>1 DEF SingleInv
    <3>3. Up("hangup", d) => Up("hangup", d)'
      BY <1>5, <1>11, <2>2
    <3> QED  BY <1>10, <3>1, <3>2, <3>3
  <2>3. single' => \A d, g \in DOMAIN calls : Pending(d)' /\ Alive(g)' => d = g
    BY <1>3, <1>4, <1>10, <1>11 DEF SingleInv, PageStill
  <2> QED  BY <1>9, <2>1, <2>2, <2>3 DEF SingleInv
<1>17. IntactInv'
  <2>1. ASSUME intact', NEW d \in DOMAIN calls, d # c
        PROVE  /\ (Pending(d) /\ Over(d) => Down("over", d) \/ d \in told)'
               /\ (Joins(d) /\ Over(d) => Down("over", d) \/ Up("accept", d))'
               /\ (Joins(d) /\ ~Mine(d) /\ calls[d].status = "rings" => Up("accept", d))'
               /\ (Up("hangup", d) => ~Joins(d))'
    BY <1>3, <1>4, <1>5, <1>8, <1>9, <1>10, <1>11, <2>1 DEF IntactInv, PageStill
  <2>2. ASSUME intact'
        PROVE  /\ (Pending(c) /\ Over(c) => Down("over", c) \/ c \in told)'
               /\ (Joins(c) /\ Over(c) => Down("over", c) \/ Up("accept", c))'
               /\ (Joins(c) /\ ~Mine(c) /\ calls[c].status = "rings" => Up("accept", c))'
               /\ (Up("hangup", c) => ~Joins(c))'
    <3>1. intact /\ told' = told /\ (Over(c)' <=> calls'[c].status = "over")
          /\ (Over(c) <=> calls[c].status = "over")
      BY <1>3, <1>8, <2>2 DEF PageStill, Over
    <3>2. CASE x.kind = "accept"
      <4>1. calls'[c].status = "taken"
        BY <1>8, <1>9, <2>2, <3>2
      <4> QED  BY <1>4, <1>5, <1>6, <1>10, <3>1, <4>1 DEF IntactInv
    <3>3. CASE x.kind = "decline"
      <4>1. ~Joins(c) /\ ~Pending(c)
        BY <1>4, <1>5, <1>6, <3>3 DEF Once, Sides
      <4> QED  BY <1>10, <4>1
    <3>4. CASE x.kind = "hangup"
      <4>1. ~Joins(c) /\ ~Pending(c)
        BY <1>4, <1>5, <1>6, <3>1, <3>4 DEF Once, IntactInv
      <4> QED  BY <1>10, <4>1
    <3> QED  BY <1>6, <3>2, <3>3, <3>4
  <2> QED  BY <1>9, <2>1, <2>2 DEF IntactInv
<1>18. ViewsTypeOK' /\ ViewsInv' /\ ChatTyped' /\ ChatInv'
  BY <1>3, <1>9, ChatStands DEF ChatStill
<1> QED  BY <1>12, <1>13, <1>14, <1>15, <1>16, <1>17, <1>18 DEF IInv

-----------------------------------------------------------------------------
(* The invariant holds always. *)

LEMMA CallingKeepsIInv ==
  ASSUME IInv, CallingOnly
  PROVE  IInv'
<1>1. CallNext /\ ChatStill
  BY DEF CallingOnly, ChatStill
<1>2. ASSUME NEW j \in Joining, Answered(j) \/ Accept(j) \/ MeetAnswered(j) \/ OpenRoom(j)
      PROVE  IInv'
  BY <1>1, <1>2, AnsweredKeepsIInv, AcceptKeepsIInv, JoiningKeepsIInv
<1>3. CASE LoadScript
  <2>1. CASE \E j \in Joining : TRUE
    BY <1>1, <1>3, <2>1, JoiningKeepsIInv
  <2>2. CASE ~\E j \in Joining : TRUE
    <3>1. /\ ChatTyped /\ CallTyped /\ script' \in {"unasked", "loading", "loaded", "failed"}
          /\ UNCHANGED <<current, moves, down, calls, up, unacked, incoming, active, joining, room,
                         told, steady, single, intact>>
      BY <1>1, <1>3 DEF LoadScript, callHistory, ChatStill, IInv
    <3>2. CallTyped'
      BY <3>1 DEF CallTyped, CallTypeOK, RequestOk
    <3>3. /\ \A kind, d : Down(kind, d)' <=> Down(kind, d)
          /\ \A kind, d : Up(kind, d)' <=> Up(kind, d)
          /\ \A d : Mine(d)' <=> Mine(d)
          /\ \A d : Over(d)' <=> Over(d)
          /\ \A d : Alive(d)' <=> Alive(d)
          /\ \A d : Pending(d)' <=> Pending(d)
          /\ \A d : Joins(d)' <=> Joins(d)
          /\ OnceEach' <=> OnceEach
      BY <3>1 DEF Down, Up, Mine, Over, Alive, Pending, Joins, OnceEach
    <3>4. Once' /\ Sides' /\ SteadyInv' /\ SingleInv' /\ IntactInv'
      BY <3>1, <3>3 DEF IInv, Once, Sides, SteadyInv, SingleInv, IntactInv
    <3>5. ViewsTypeOK' /\ ViewsInv' /\ ChatTyped' /\ ChatInv'
      BY <1>1, <3>1, ChatStands DEF ChatStill
    <3> QED  BY <3>2, <3>4, <3>5 DEF IInv
  <2> QED  BY <2>1, <2>2
<1>4. ASSUME NEW c \in DOMAIN calls, Ack(c) \/ PeerAccepts(c) \/ PeerEnds(c) PROVE IInv'
  BY <1>1, <1>4, AckKeepsIInv, PeerKeepsIInv
<1>5. ASSUME NEW p \in Peer, RingMe(p) PROVE IInv'
  BY <1>1, <1>5, RingMeKeepsIInv
<1>6. CASE StartCall
  BY <1>1, <1>6, StartCallKeepsIInv
<1>7. CASE ShowIncoming \/ HideIncoming
  BY <1>1, <1>7, ModalKeepsIInv
<1>8. CASE Decline
  BY <1>1, <1>8, DeclineKeepsIInv
<1>9. CASE PressEnd \/ CallOver
  BY <1>1, <1>9, EndingKeepsIInv
<1>10. CASE ServeRing
  BY <1>1, <1>10, ServeRingKeepsIInv
<1>11. CASE ServeRest
  BY <1>1, <1>11, ServeRestKeepsIInv
<1> QED
  BY <1>1, <1>2, <1>3, <1>4, <1>5, <1>6, <1>7, <1>8, <1>9, <1>10, <1>11 DEF CallNext

LEMMA InitIInv ==
  ASSUME Init
  PROVE  IInv
<1>1. /\ <<>> \in Seq(Message) /\ <<>> \in Seq(Event) /\ <<>> \in Seq(Request)
      /\ <<>> \in Seq(CallRow) /\ Len(<<>>) = 0 /\ DOMAIN <<>> = {}
  <2>1. \A S : <<>> \in Seq(S) /\ Len(<<>>) = 0
    BY EmptySeq
  <2>2. DOMAIN <<>> = 1..0
    BY <2>1, LenProperties
  <2> QED  BY <2>1, <2>2
<1>2. 0 \in 0..MaxMoves /\ 1 \in 1..(MaxMoves + 1) /\ 0 \in 0..1 /\ 0 \in 0..0
  OBVIOUS
<1>3. ViewsTypeOK /\ ViewsInv
  <2>1. /\ ViewsInit /\ view.of = Chat /\ view.seen = 0
        /\ view \in [of: Item \cup {Chat, Bell}, seen: 0..1]
        /\ Free.pc = "free"
        /\ Free \in [pc: {"free", "change", "changed", "read", "answered"},
                     of: Item \cup {Bell}, seen: 0..1]
    BY <1>2 DEF Init, ViewsInit, Free
  <2>2. ViewsTypeOK
    BY <1>2, <2>1 DEF ViewsInit, ViewsTypeOK
  <2>3. ViewsInv
    BY <2>1 DEF ViewsInit, ViewsInv, Settled
  <2> QED  BY <2>2, <2>3
<1>4. /\ ChatInit /\ CallInit
  BY DEF Init
<1>5. /\ exact \in BOOLEAN
      /\ exact => current # None
  BY <1>4, Zenon DEF ChatInit
<1>6. /\ Idle \in Slot /\ Idle.pc = "free"
  BY <1>2 DEF Idle, Slot
<1>7. /\ opening \in [Opening -> Slot] /\ \A o \in Opening : opening[o].pc = "free"
      /\ convId \in [Peer -> Peer \cup {None}] /\ count \in [Peer -> 0..MaxMoves]
      /\ \A p \in Peer : count[p] = 0
      /\ current \in Peer => convId[current] = current
      /\ current \in Peer \cup {None} /\ rooms \subseteq Peer
      /\ pane = <<>> /\ down = <<>> /\ joins = {} /\ posted = {}
  BY <1>2, <1>4, <1>6 DEF ChatInit
<1>8. ChatTyped
  <2>1. ChatTypeOK
    BY <1>1, <1>5, <1>7 DEF ChatTypeOK, Slot
  <2> QED  BY <1>1, <1>7, <2>1 DEF ChatTyped
<1>9. ChatInv
  <2>1. ~Unsent /\ DOMAIN down = {}
    BY <1>1, <1>7 DEF Unsent
  <2>2. ASSUME current \in Peer PROVE Aligned
    <3>1. <<>> = History(current, 0)
      <4>1. PICK h : h = History(current, 0)
        OBVIOUS
      <4>2. h \in Seq(Message) /\ Len(h) = 0
        BY <2>2, <4>1, <1>2, HistoryOf
      <4> QED  BY <4>1, <4>2, EmptySeq
    <3>2. Len(pane) = 0 /\ count[current] = 0 /\ pane = History(current, 0)
      BY <1>1, <1>7, <2>2, <3>1
    <3>3. \A n \in (0 + 1)..0 : FALSE
      OBVIOUS
    <3> QED  BY <1>7, <2>1, <3>2, <3>3 DEF Aligned
  <2> QED  BY <1>5, <1>7, <2>1, <2>2 DEF ChatInv, Opened
<1>10. CallTyped
  <2>1. /\ Off \in [pc: {"free", "meet", "load"}, peer: Peer \cup {None}, call: 0..0]
        /\ NoRoom \in [peer: Peer \cup {None}, call: 0..0] /\ Off.pc = "free"
    BY <1>2 DEF Off, NoRoom
  <2>2. CallTypeOK
    BY <1>1, <1>2, <1>4, <2>1 DEF CallInit, CallTypeOK
  <2> QED  BY <1>1, <1>4, <2>1, <2>2 DEF CallInit, CallTyped
<1>11. /\ \A kind, c : ~Down(kind, c) /\ ~Up(kind, c)
       /\ \A c : ~Pending(c) /\ ~Joins(c)
       /\ OnceEach
  BY <1>1, <1>4, <1>7 DEF CallInit, Down, Up, Pending, Joins, OnceEach, Off
<1>12. Once /\ Sides /\ SteadyInv /\ SingleInv /\ IntactInv
  BY <1>1, <1>4, <1>11 DEF CallInit, Once, Sides, SteadyInv, SingleInv, IntactInv, Off, NoRoom
<1> QED  BY <1>3, <1>8, <1>9, <1>10, <1>12 DEF IInv

LEMMA StepKeepsIInv ==
  ASSUME IInv, [Next]_vars
  PROVE  IInv'
<1>1. CASE ViewsNext /\ UNCHANGED <<chatVars, callVars>>
  BY <1>1, ViewsKeepIInv
<1>2. CASE Chatting
  BY <1>2, ChattingKeepsIInv
<1>3. CASE CallingOnly
  BY <1>3, CallingKeepsIInv
<1>4. CASE Reconnect /\ Cut /\ Move /\ UNCHANGED viewVars
  BY <1>4, ReconnectKeepsIInv
<1>5. CASE UNCHANGED vars
  <2>1. UNCHANGED <<chatVars, callVars>> /\ UNCHANGED viewVars /\ moves' = moves
    BY <1>5 DEF vars
  <2>2. ViewsTypeOK' /\ ViewsInv'
    BY <2>1 DEF IInv, ViewsTypeOK, ViewsInv, Settled, viewVars
  <2> QED  BY <2>1, <2>2, Frame DEF IInv
<1> QED  BY <1>1, <1>2, <1>3, <1>4, <1>5 DEF Next

LEMMA Invariant == Spec => []IInv
<1>1. Init => IInv
  BY InitIInv
<1>2. IInv /\ [Next]_vars => IInv'
  BY StepKeepsIInv
<1> QED  BY <1>1, <1>2, PTL DEF Spec

-----------------------------------------------------------------------------
(* What follows. *)

(* Every variable of the page, its views, its chat and its calls, keeps its  *)
(* type, for any contacts, entries and bounds.                               *)
THEOREM PageTypeCorrect == Spec => []TypeOK
<1>1. IInv => TypeOK
  BY DEF IInv, ChatTyped, CallTyped, TypeOK
<1> QED  BY <1>1, Invariant, PTL

(* buildNav and the buttons of the views: a user who waits for each view     *)
(* before the next click sees the entry clicked last, with what this page    *)
(* has changed already in it.                                                *)
THEOREM ViewCorrect == Spec => []ViewCurrent
<1>1. IInv => ViewCurrent
  BY DEF IInv, ViewsInv, ViewCurrent
<1> QED  BY <1>1, Invariant, PTL

(* openChat and socket.on('message'): the pane of a chat that was waited for *)
(* shows the whole conversation of the contact in its header, in order, each *)
(* message once, whatever the other rooms of the socket bring.               *)
THEOREM PaneCorrect == Spec => []PaneExact
<1>1. ASSUME IInv, exact, Opened, Quiet(current)
      PROVE  convId[current] = current /\ pane = History(current, count[current])
  <2>1. current \in Peer /\ AllFree /\ convId[current] = current /\ Aligned
    BY <1>1 DEF IInv, ChatInv, Opened, AllFree
  <2>2. ~Unsent /\ \A i \in DOMAIN down : ~OfCurrent(i)
    BY <1>1 DEF Quiet, Unsent, OfCurrent
  <2>3. PICK k, N : k = Len(pane) /\ N = count[current]
    OBVIOUS
  <2>4. k \in Nat /\ N \in Nat
    BY <1>1, <2>1, <2>3, LenProperties DEF IInv, ChatTyped, ChatTypeOK
  <2>5. k <= N /\ pane = History(current, k) /\ \A n \in (k + 1)..N : FALSE
    BY <2>1, <2>2, <2>3 DEF Aligned
  <2>6. k = N
    BY <2>4, <2>5
  <2> QED  BY <2>1, <2>3, <2>5, <2>6
<1>2. IInv => PaneExact
  BY <1>1 DEF PaneExact
<1> QED  BY <1>2, Invariant, PTL

(* joinMeeting: the meeting in the overlay is with the other party of the    *)
(* call it was opened for.                                                   *)
THEOREM RoomCorrect == Spec => []RightRoom
<1>1. IInv => RightRoom
  BY DEF IInv, SteadyInv, RightRoom
<1> QED  BY <1>1, Invariant, PTL

(* startCall and endMeeting: a page at rest that notes no call has left none *)
(* of its calls alive at the server.                                         *)
THEOREM NoCallLeftCorrect == Spec => []NoCallLeft
<1>1. ASSUME IInv, single, Still, active = 0, NEW c \in DOMAIN calls, Mine(c)
      PROVE  calls[c].status = "over"
  <2>1. DOMAIN up = {} /\ DOMAIN down = {} /\ unacked = {}
    <3>1. DOMAIN <<>> = {}
      BY EmptySeq, LenProperties
    <3> QED  BY <1>1, <3>1 DEF Still
  <2>2. ~Pending(c) /\ ~Up("hangup", c) /\ active # c
    BY <1>1, <2>1, Known DEF Pending, Down, Up
  <2> QED  BY <1>1, <2>2 DEF IInv, SingleInv, Alive
<1>2. IInv => NoCallLeft
  BY <1>1 DEF NoCallLeft
<1> QED  BY <1>2, Invariant, PTL

(* endMeeting and the events of the socket: a meeting does not outlive its   *)
(* call.                                                                     *)
THEOREM RoomGoneCorrect == Spec => []RoomGone
<1>1. ASSUME IInv, intact, Still, room # NoRoom
      PROVE  calls[room.call].status # "over"
  <2>1. PICK c : c = room.call
    OBVIOUS
  <2>2. c \in DOMAIN calls /\ Joins(c)
    BY <1>1, <2>1 DEF IInv, CallTyped, Joins
  <2>3. DOMAIN up = {} /\ DOMAIN down = {}
    <3>1. DOMAIN <<>> = {}
      BY EmptySeq, LenProperties
    <3> QED  BY <1>1, <3>1 DEF Still
  <2>4. ~Down("over", c) /\ ~Up("accept", c)
    BY <2>3 DEF Down, Up
  <2> QED  BY <1>1, <2>1, <2>2, <2>4 DEF IInv, IntactInv, Over
<1>2. IInv => RoomGone
  BY <1>1 DEF RoomGone
<1> QED  BY <1>2, Invariant, PTL
=============================================================================
