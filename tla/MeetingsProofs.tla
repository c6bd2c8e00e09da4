---------------------------- MODULE MeetingsProofs ----------------------------
(***************************************************************************)
(* The guarantees of the meeting routes for any users, batches and         *)
(* requests.  The admin requests are those of Messaging, so its inductive  *)
(* invariant IInv holds here too; what a meeting request may rely on is    *)
(* stated, as for the chat routes, by facts that no later step takes away. *)
(***************************************************************************)
EXTENDS Meetings, MessagingProofs

USE RbacAssumption, MessagingAssumption

MeetHandler == [pc: MeetRunning \cup {"new", "done"},
                me: Principal \cup {Nobody}, peer: UserId \cup {Nobody},
                room: Room \cup {NoConv}, moderator: BOOLEAN]

(* What a request that is about to make or answer a room has found out.    *)
Granted(x, d) ==
    \/ x.me.id \in SeedAdmins
    \/ x.room.kind = "dm" /\ (x.peer \in SeedAdmins \/ x.peer \in d)
    \/ x.room.kind = "batch" /\ <<x.me.id, x.room.batch>> \in everInBatch

(* The texts of a room are sorted. *)
RoomSorted(c) == c.kind = "dm" => c.a <= c.b

MeetKnows(x, d) ==
    /\ x.pc \in MeetRunning =>
           x.me \in Principal /\ x.room \in Room /\ CopyFacts(x.me) /\ RoomSorted(x.room)
    /\ x.pc \in {"peer", "map"} => x.peer \in UserId /\ x.room.kind = "dm"
    /\ x.pc = "teach" => x.room.kind = "batch"
    /\ x.pc \in {"upsert", "answer"} => Granted(x, d)

(* The history has whoever the user is mapped with at this moment. *)
SeesMapped(x, d) == x.pc \in MeetRunning => MappedWith(x.me.id, mappings) \subseteq d

RequestsInv ==
    /\ m \in [Meet -> MeetHandler]
    /\ mapped \in [Meet -> SUBSET UserId]
    /\ \A q \in Meet : /\ MeetKnows(m[q], mapped[q]) /\ SeesMapped(m[q], mapped[q])
                       /\ m[q].pc = "answer" => m[q].room \in meetings

RoomsInv ==
    /\ meetings \subseteq Room
    /\ tokens \subseteq Token
    /\ \A room \in meetings : RoomSorted(room)
    /\ \A t \in tokens : t.room \in meetings

MInv == IInv /\ RequestsInv /\ RoomsInv

-----------------------------------------------------------------------------

(* A room is one of two records. *)
LEMMA RoomCases ==
  ASSUME NEW c \in Room
  PROVE  /\ c.kind = "dm" => c = [kind |-> "dm", a |-> c.a, b |-> c.b]
                             /\ c.a \in Text /\ c.b \in Text
         /\ c.kind = "batch" => c.batch \in Batch
         /\ c.kind = "dm" \/ c.kind = "batch"
  BY DEF Room

(* Two sorted rooms of one pair are one, if they go by the ids themselves.  *)
LEMMA RoomUnique ==
  ASSUME NEW s \in Room, NEW t \in Room, s.kind = "dm", t.kind = "dm",
         RoomSorted(s), RoomSorted(t), Party(s) = Party(t),
         {s.a, s.b, t.a, t.b} \subseteq UserId
  PROVE  s = t
<1>1. {s.a, s.b} = {t.a, t.b}
  BY DEF Party
<1>2. s.a \in Nat /\ s.b \in Nat /\ t.a \in Nat /\ t.b \in Nat
  OBVIOUS
<1>3. s.a = t.a /\ s.b = t.b
  BY <1>1, <1>2 DEF RoomSorted
<1> QED  BY <1>3, RoomCases

LEMMA MInvImplies == MInv => MeetTypeOK /\ MeetWithinGrant /\ NoHiddenRoom
<1> SUFFICES ASSUME MInv PROVE MeetTypeOK /\ MeetWithinGrant /\ NoHiddenRoom
  OBVIOUS
<1>1. MeetTypeOK
  BY IInvImplies DEF MInv, RequestsInv, RoomsInv, MeetKnows, MeetHandler, MeetTypeOK
<1>2. MeetWithinGrant
  BY DEF MInv, RequestsInv, MeetKnows, Granted, MeetWithinGrant
<1>3. NoHiddenRoom
  BY RoomUnique DEF MInv, RoomsInv, NoHiddenRoom
<1> QED  BY <1>1, <1>2, <1>3

LEMMA InitMInv == MeetInit => MInv
<1> SUFFICES ASSUME MeetInit PROVE MInv
  OBVIOUS
<1>1. MeetNew \in MeetHandler /\ MeetNew.pc = "new"
  BY DEF MeetNew, Meeting, MeetHandler
<1> QED  BY <1>1, InitIInv DEF MeetInit, MInv, RequestsInv, RoomsInv, MeetKnows,
            SeesMapped, MeetRunning

(* The room of a caller and the text of a path. *)
LEMMA RoomOfPair ==
  ASSUME NEW u \in UserId, NEW text \in Text
  PROVE  /\ RoomForPair(u, text) \in Room /\ RoomSorted(RoomForPair(u, text))
         /\ RoomForPair(u, text).kind = "dm"
<1>1. PICK first, second \in Text :
        /\ first = IF u < text THEN u ELSE text
        /\ second = IF u < text THEN text ELSE u
  OBVIOUS
<1>2. first <= second
  BY <1>1
<1>3. RoomForPair(u, text) = [kind |-> "dm", a |-> first, b |-> second]
  BY <1>1 DEF RoomForPair
<1> QED  BY <1>2, <1>3 DEF Room, RoomSorted

LEMMA MeetDoneKnows == MeetDone \in MeetHandler /\ MeetDone.pc = "done"
  BY DEF MeetDone, Meeting, MeetHandler

-----------------------------------------------------------------------------
(* Stability: knowledge survives whatever others do, because rooms, history *)
(* and the mappings noted while a request runs are never taken away.        *)

LEMMA KnowsStable ==
  ASSUME NEW x \in MeetHandler, NEW d, NEW e, MeetKnows(x, d),
         x.pc \in MeetRunning => d \subseteq e, everInBatch \subseteq everInBatch'
  PROVE  MeetKnows(x, e)'
  BY DEF MeetKnows, Granted, CopyFacts, SeedAdmins, RoomSorted, MeetRunning

(* One request moves, or none; the tables may change. *)
LEMMA RequestMoves ==
  ASSUME RequestsInv, RecordMapped, NEW q \in Meet, NEW x \in MeetHandler,
         m' = [m EXCEPT ![q] = x], MeetKnows(x, mapped[q]),
         x.pc = "answer" => x.room \in meetings',
         meetings \subseteq meetings', everInBatch \subseteq everInBatch'
  PROVE  RequestsInv'
<1>1. m' \in [Meet -> MeetHandler]
  BY DEF RequestsInv
<1>2. mapped' \in [Meet -> SUBSET UserId]
  BY DEF RecordMapped, RequestsInv, MappedWith
<1>3. ASSUME NEW p \in Meet
      PROVE  /\ MeetKnows(m[p], mapped[p])' /\ SeesMapped(m[p], mapped[p])'
             /\ m'[p].pc = "answer" => m'[p].room \in meetings'
  <2>1. mapped'[p] = IF m'[p].pc \in MeetRunning
                     THEN mapped[p] \cup MappedWith(m'[p].me.id, mappings') ELSE {}
    BY DEF RecordMapped
  <2>2. m'[p] \in MeetHandler /\ MeetKnows(m'[p], mapped[p])
    BY <1>1 DEF RequestsInv
  <2>3. MeetKnows(m[p], mapped[p])'
    BY <2>1, <2>2, KnowsStable
  <2>4. SeesMapped(m[p], mapped[p])'
    BY <2>1 DEF SeesMapped
  <2> QED  BY <2>3, <2>4 DEF RequestsInv
<1> QED  BY <1>1, <1>2, <1>3 DEF RequestsInv

LEMMA RequestsStay ==
  ASSUME RequestsInv, RecordMapped, m' = m, meetings \subseteq meetings',
         everInBatch \subseteq everInBatch'
  PROVE  RequestsInv'
<1>1. CASE Meet = {}
  BY <1>1 DEF RequestsInv, RecordMapped
<1>2. CASE Meet # {}
  <2>1. PICK q \in Meet : TRUE
    BY <1>2
  <2> QED  BY <2>1, RequestMoves DEF RequestsInv
<1> QED  BY <1>1, <1>2

(* A step of the meeting routes changes nothing that IInv speaks of. *)
LEMMA ElsewhereKeepsIInv ==
  ASSUME IInv, Elsewhere
  PROVE  IInv' /\ everInBatch' = everInBatch /\ RecordMapped
  BY StepIInv DEF Elsewhere, directory, chat, history, vars

(* A step that moves one request and makes no room. *)
LEMMA QuietMeet ==
  ASSUME MInv, Elsewhere, NEW q \in Meet, NEW x \in MeetHandler,
         m' = [m EXCEPT ![q] = x], MeetKnows(x, mapped[q]),
         x.pc = "answer" => x.room \in meetings,
         UNCHANGED <<meetings, tokens>>
  PROVE  MInv'
<1>1. IInv' /\ everInBatch' = everInBatch /\ RecordMapped
  BY ElsewhereKeepsIInv DEF MInv
<1>2. RequestsInv'
  BY <1>1, RequestMoves DEF MInv
<1>3. RoomsInv'
  BY DEF MInv, RoomsInv, RoomSorted
<1> QED  BY <1>1, <1>2, <1>3 DEF MInv

LEMMA RefuseOnly ==
  ASSUME MInv, Elsewhere, NEW q \in Meet, Refuse(q), UNCHANGED <<meetings, tokens>>
  PROVE  MInv'
<1>1. MeetKnows(MeetDone, mapped[q])
  BY MeetDoneKnows DEF MeetKnows, MeetRunning
<1> QED  BY <1>1, MeetDoneKnows, QuietMeet DEF Refuse

(* Going on to another statement keeps the rest of the request. *)
LEMMA GoOnly ==
  ASSUME MInv, Elsewhere, NEW q \in Meet, NEW pc \in {"map", "upsert"}, Go(q, pc),
         UNCHANGED <<meetings, tokens>>, m[q].pc \in {"peer", "map", "teach"},
         pc = "map" => m[q].pc = "peer",
         pc = "upsert" => Granted(m[q], mapped[q])
  PROVE  MInv'
<1> DEFINE x == [m[q] EXCEPT !.pc = pc]
<1>1. m[q] \in MeetHandler /\ MeetKnows(m[q], mapped[q]) /\ m' = [m EXCEPT ![q] = x]
  BY DEF MInv, RequestsInv, Go
<1>2. /\ x \in MeetHandler /\ x.pc = pc /\ x.me = m[q].me /\ x.peer = m[q].peer
      /\ x.room = m[q].room
  BY <1>1 DEF MeetHandler, MeetRunning
<1> HIDE DEF x
<1>3. MeetKnows(x, mapped[q])
  BY <1>1, <1>2 DEF MeetKnows, MeetRunning, Granted
<1> QED  BY <1>1, <1>2, <1>3, QuietMeet

-----------------------------------------------------------------------------
(* One lemma for the first statements, one for the rest. *)

LEMMA MeetAuthKeepsMInv ==
  ASSUME MInv, NEW q \in Meet, NEW u \in UserId, NEW next \in MeetHandler,
         MeetAuth(q, u, next),
         users[u].active => /\ MeetKnows(next, {})
                            /\ next.pc = "answer" => next.room \in meetings
  PROVE  MInv'
<1>1. CASE ~users[u].active
  BY <1>1, RefuseOnly DEF MeetAuth
<1>2. CASE users[u].active
  <2>1. MeetKnows(next, mapped[q])
    BY <1>2 DEF MeetKnows, Granted
  <2> QED  BY <1>2, <2>1, QuietMeet DEF MeetAuth
<1> QED  BY <1>1, <1>2

LEMMA MeetStarts ==
  ASSUME MInv, NEW q \in Meet, NEW u \in UserId,
         \/ \E text \in Text : MeetPeer(q, u, text)
         \/ \E b \in Batch : MeetBatch(q, u, b)
         \/ \E room \in meetings : Monitor(q, u, room)
  PROVE  MInv'
<1>1. users[u].active => /\ Me(u) \in Principal /\ CopyFacts(Me(u))
                         /\ Me(u).id = u /\ Me(u).role = users[u].role
  BY MeFacts DEF MInv
<1>2. MeetKnows(MeetDone, {})
  BY MeetDoneKnows DEF MeetKnows, MeetRunning
<1>3. ASSUME NEW next, MeetAuth(q, u, next), ~users[u].active
      PROVE  MInv'
  BY <1>3, RefuseOnly DEF MeetAuth
<1>4. /\ Nobody \in UserId \cup {Nobody} /\ UserId \subseteq UserId \cup {Nobody}
      /\ {"peer", "teach", "upsert", "answer"} \subseteq MeetRunning
  BY DEF MeetRunning
<1>5. Moderates(u) \in BOOLEAN
  BY DEF Moderates
<1>6. ASSUME NEW text \in Text, MeetPeer(q, u, text), users[u].active
      PROVE  MInv'
  <2> DEFINE pc == IF users[u].role = "admin" THEN "upsert" ELSE "peer"
             x  == Meeting(pc, Me(u), UserOf[text], RoomForPair(u, text), Moderates(u))
  <2>1. CASE u = text
    BY <1>2, <1>6, <2>1, MeetDoneKnows, MeetAuthKeepsMInv DEF MeetPeer
  <2>2. CASE u # text
    <3>1. MeetAuth(q, u, x)
      BY <1>6, <2>2 DEF MeetPeer
    <3>2. /\ x \in MeetHandler /\ x.pc = pc /\ x.me = Me(u) /\ x.peer = UserOf[text]
          /\ x.room = RoomForPair(u, text)
      <4>1. /\ pc \in MeetRunning /\ UserOf[text] \in UserId \cup {Nobody} /\ Me(u) \in Principal
            /\ RoomForPair(u, text) \in Room
        BY <1>1, <1>4, <1>6, RoomOfPair
      <4> HIDE DEF pc
      <4> QED  BY <1>5, <4>1 DEF Meeting, MeetHandler
    <3>3. MeetKnows(x, {})
      <4>1. /\ x.pc \in {"upsert", "peer"}
            /\ x.pc = "upsert" => Me(u).role = "admin"
        BY <1>1, <1>6, <3>2
      <4>2. /\ Me(u) \in Principal /\ CopyFacts(Me(u)) /\ x.me = Me(u) /\ x.peer = UserOf[text]
            /\ x.room \in Room /\ RoomSorted(x.room) /\ x.room.kind = "dm"
        BY <1>1, <1>6, <3>2, RoomOfPair
      <4> HIDE DEF x, pc
      <4> QED  BY <4>1, <4>2 DEF MeetKnows, Granted, CopyFacts
    <3>4. x.pc # "answer"
      BY <3>2
    <3> HIDE DEF x
    <3> QED  BY <3>1, <3>2, <3>3, <3>4, MeetAuthKeepsMInv
  <2> QED  BY <2>1, <2>2
<1>7. ASSUME NEW b \in Batch, MeetBatch(q, u, b), users[u].active
      PROVE  MInv'
  <2> DEFINE pc == MayMeetBatch(Me(u), b)
             x  == Meeting(pc, Me(u), Nobody, RoomForBatch(b), Moderates(u))
  <2>1. CASE pc = "done"
    BY <1>2, <1>7, <2>1, MeetDoneKnows, MeetAuthKeepsMInv DEF MeetBatch
  <2>2. CASE pc # "done"
    <3>1. MeetAuth(q, u, x)
      BY <1>7, <2>2 DEF MeetBatch
    <3>2. /\ pc \in {"upsert", "teach"}
          /\ pc = "upsert" => \/ Me(u).role = "admin"
                              \/ Me(u).role = "student" /\ Me(u).batch = b
      BY <2>2 DEF MayMeetBatch
    <3>3. /\ RoomForBatch(b) \in Room /\ RoomForBatch(b).kind = "batch"
          /\ RoomForBatch(b).batch = b
      BY DEF RoomForBatch, Room
    <3>4. /\ x \in MeetHandler /\ x.pc = pc /\ x.me = Me(u) /\ x.room = RoomForBatch(b)
      <4>1. pc \in MeetRunning /\ Me(u) \in Principal
        BY <1>1, <1>4, <1>7, <3>2
      <4> HIDE DEF pc
      <4> QED  BY <1>4, <1>5, <3>3, <4>1 DEF Meeting, MeetHandler
    <3>5. MeetKnows(x, {})
      <4> HIDE DEF x, pc
      <4> QED  BY <1>1, <1>7, <3>2, <3>3, <3>4 DEF MeetKnows, Granted, CopyFacts, RoomSorted
    <3>6. x.pc # "answer"
      BY <3>2, <3>4
    <3> HIDE DEF x
    <3> QED  BY <3>1, <3>4, <3>5, <3>6, MeetAuthKeepsMInv
  <2> QED  BY <2>1, <2>2
<1>8. ASSUME NEW room \in meetings, Monitor(q, u, room), users[u].active
      PROVE  MInv'
  <2> DEFINE x == Meeting("answer", Me(u), Nobody, room, TRUE)
  <2>1. CASE users[u].role # "admin"
    BY <1>2, <1>8, <2>1, MeetDoneKnows, MeetAuthKeepsMInv DEF Monitor
  <2>2. CASE users[u].role = "admin"
    <3>1. MeetAuth(q, u, x) /\ room \in Room /\ RoomSorted(room)
      BY <1>8, <2>2 DEF Monitor, MInv, RoomsInv
    <3>2. /\ x \in MeetHandler /\ x.pc = "answer" /\ x.me = Me(u) /\ x.room = room
      <4>1. Me(u) \in Principal
        BY <1>1, <1>8
      <4> QED  BY <1>4, <3>1, <4>1 DEF Meeting, MeetHandler
    <3>3. MeetKnows(x, {})
      <4> HIDE DEF x
      <4> QED  BY <1>1, <1>8, <2>2, <3>1, <3>2 DEF MeetKnows, Granted, CopyFacts
    <3> HIDE DEF x
    <3> QED  BY <1>8, <3>1, <3>2, <3>3, MeetAuthKeepsMInv
  <2> QED  BY <2>1, <2>2
<1> QED  BY <1>3, <1>6, <1>7, <1>8 DEF MeetPeer, MeetBatch, Monitor

LEMMA MeetGoesOn ==
  ASSUME MInv, NEW q \in Meet,
         \/ MeetSelectPeer(q) \/ MeetSelectMap(q) \/ MeetTeach(q)
         \/ UpsertMeeting(q) \/ AnswerToken(q) \/ FailMeet(q)
  PROVE  MInv'
<1>0. /\ m[q] \in MeetHandler /\ MeetKnows(m[q], mapped[q]) /\ SeesMapped(m[q], mapped[q])
      /\ DirectoryInv
  BY DEF MInv, RequestsInv, IInv
<1>1. CASE MeetSelectPeer(q)
  <2> DEFINE row == users[m[q].peer]
  <2>1. CASE Go(q, "upsert") /\ row.role = "admin"
    <3>1. Granted(m[q], mapped[q])
      BY <1>0, <1>1, <2>1 DEF MeetSelectPeer, MeetKnows, Granted, DirectoryInv
    <3> QED  BY <1>1, <2>1, <3>1, GoOnly DEF MeetSelectPeer
  <2>2. CASE Go(q, "map")
    BY <1>1, <2>2, GoOnly DEF MeetSelectPeer
  <2>3. CASE Refuse(q)
    BY <1>1, <2>3, RefuseOnly DEF MeetSelectPeer
  <2> QED  BY <1>1, <2>1, <2>2, <2>3 DEF MeetSelectPeer
<1>2. CASE MeetSelectMap(q)
  <2>1. CASE MappedNow(m[q].me, m[q].peer)
    <3>1. m[q].peer \in MappedWith(m[q].me.id, mappings)
      BY <1>0, <1>2, <2>1
         DEF MeetSelectMap, MeetKnows, MappedNow, AreMapped, MappedWith
    <3>2. Granted(m[q], mapped[q])
      BY <1>0, <1>2, <3>1 DEF MeetSelectMap, MeetKnows, SeesMapped, Granted, MeetRunning
    <3> QED  BY <1>2, <2>1, <3>2, GoOnly DEF MeetSelectMap
  <2>2. CASE ~MappedNow(m[q].me, m[q].peer)
    BY <1>2, <2>2, RefuseOnly DEF MeetSelectMap
  <2> QED  BY <2>1, <2>2
<1>3. CASE MeetTeach(q)
  <2> DEFINE b == m[q].room.batch
  <2>1. CASE Teaches(m[q].me.id, b)
    <3>1. m[q].me \in Principal /\ m[q].room \in Room /\ m[q].room.kind = "batch"
      BY <1>0, <1>3 DEF MeetTeach, MeetKnows, MeetRunning
    <3>2. m[q].me.id \in UserId /\ b \in Batch
      BY <3>1, RoomCases DEF Principal
    <3>3. <<m[q].me.id, b>> \in everInBatch
      BY <1>0, <2>1, <3>2 DEF DirectoryInv, InBatch
    <3> QED  BY <1>3, <2>1, <3>1, <3>3, GoOnly DEF MeetTeach, Granted
  <2>2. CASE ~Teaches(m[q].me.id, b)
    BY <1>3, <2>2, RefuseOnly DEF MeetTeach
  <2> QED  BY <2>1, <2>2
<1>4. CASE UpsertMeeting(q)
  <2> DEFINE x == [m[q] EXCEPT !.pc = "answer"]
  <2>1. /\ IInv' /\ everInBatch' = everInBatch /\ RecordMapped
        /\ meetings' = meetings \cup {m[q].room} /\ tokens' = tokens
        /\ m' = [m EXCEPT ![q] = x]
    BY <1>4, ElsewhereKeepsIInv DEF UpsertMeeting, MInv, RequestsInv, Go
  <2>2. /\ x \in MeetHandler /\ x.pc = "answer" /\ x.me = m[q].me /\ x.peer = m[q].peer
        /\ x.room = m[q].room
    BY <1>0 DEF MeetHandler, MeetRunning
  <2> HIDE DEF x
  <2>3. MeetKnows(x, mapped[q]) /\ m[q].room \in Room /\ RoomSorted(m[q].room)
    BY <1>0, <1>4, <2>2 DEF UpsertMeeting, MeetKnows, MeetRunning, Granted
  <2>4. RequestsInv'
    BY <2>1, <2>2, <2>3, RequestMoves DEF MInv
  <2>5. RoomsInv'
    BY <2>1, <2>3 DEF MInv, RoomsInv, RoomSorted
  <2> QED  BY <2>1, <2>4, <2>5 DEF MInv
<1>5. CASE AnswerToken(q)
  <2> DEFINE t == [user |-> m[q].me.id, room |-> m[q].room, moderator |-> m[q].moderator]
  <2>1. /\ IInv' /\ everInBatch' = everInBatch /\ RecordMapped
        /\ meetings' = meetings /\ tokens' = tokens \cup {t}
        /\ m' = [m EXCEPT ![q] = MeetDone]
    BY <1>5, ElsewhereKeepsIInv DEF AnswerToken, MInv, Refuse
  <2>2. /\ m[q].me \in Principal /\ m[q].room \in Room /\ m[q].room \in meetings
        /\ m[q].moderator \in BOOLEAN
    BY <1>0, <1>5 DEF AnswerToken, MeetKnows, MeetRunning, MeetHandler, MInv, RequestsInv
  <2>3. t \in Token /\ t.room \in meetings
    BY <2>2 DEF Token, Principal
  <2> HIDE DEF t
  <2>4. RequestsInv'
    <3>1. MeetKnows(MeetDone, mapped[q])
      BY MeetDoneKnows DEF MeetKnows, MeetRunning
    <3> QED  BY <2>1, <3>1, MeetDoneKnows, RequestMoves DEF MInv
  <2>5. RoomsInv'
    BY <2>1, <2>3 DEF MInv, RoomsInv, RoomSorted
  <2> QED  BY <2>1, <2>4, <2>5 DEF MInv
<1>6. CASE FailMeet(q)
  BY <1>6, RefuseOnly DEF FailMeet
<1> QED  BY <1>1, <1>2, <1>3, <1>4, <1>5, <1>6

(* Every admin request records what it sees and does. *)
LEMMA AdminRecords ==
  ASSUME NEW r \in Request, AdminSteps(r)
  PROVE  Record
  BY DEF AdminSteps, CreateUser, PatchUser, DeactivateUser, AssignMapping, RemoveMapping,
     AdminAuth, Authenticate, CreateInsert, PatchUpdate, ClearFlag, SelectTutor,
     SelectStudent, AssignInsert, RemoveDelete

LEMMA StepMInv == MInv /\ [MeetNext]_<<vars, meetVars>> => MInv'
<1> SUFFICES ASSUME MInv, [MeetNext]_<<vars, meetVars>>
             PROVE  MInv'
  OBVIOUS
<1>1. CASE UNCHANGED <<vars, meetVars>>
  <2>1. IInv' /\ everInBatch' = everInBatch /\ mappings' = mappings
    BY <1>1, StepIInv DEF MInv, vars, history
  <2>2. /\ meetings' = meetings /\ tokens' = tokens /\ m' = m /\ mapped' = mapped
    BY <1>1 DEF meetVars
  <2>3. RoomsInv'
    BY <2>2 DEF MInv, RoomsInv, RoomSorted
  <2>4. RequestsInv'
    BY <2>1, <2>2 DEF MInv, RequestsInv, MeetKnows, Granted, SeesMapped, MappedWith,
       CopyFacts, SeedAdmins, RoomSorted
  <2> QED  BY <2>1, <2>3, <2>4 DEF MInv
<1>2. ASSUME NEW q \in Meet, MeetSteps(q)
      PROVE  MInv'
  BY <1>2, MeetStarts, MeetGoesOn DEF MeetSteps
<1>3. ASSUME NEW r \in Request, AdminSteps(r), UNCHANGED <<meetings, tokens, m>>,
             RecordMapped
      PROVE  MInv'
  <2>1. IInv'
    BY <1>3, StepIInv DEF MInv, Next
  <2>2. everInBatch \subseteq everInBatch'
    BY <1>3, AdminRecords DEF Record
  <2>3. RequestsInv'
    BY <1>3, <2>2, RequestsStay DEF MInv
  <2>4. RoomsInv'
    BY <1>3 DEF MInv, RoomsInv, RoomSorted
  <2> QED  BY <2>1, <2>3, <2>4 DEF MInv
<1> QED  BY <1>1, <1>2, <1>3 DEF MeetNext

LEMMA MeetInductive == MeetSpec => []MInv
  BY InitMInv, StepMInv, PTL DEF MeetSpec

-----------------------------------------------------------------------------
(* Types, and what a request for a room holds at each of its statements.    *)
THEOREM MeetTypeCorrect == MeetSpec => []MeetTypeOK
  BY MeetInductive, MInvImplies, PTL

(* POST /meetings/dm/:peerId and /batch/:batch: revoking a mapping cuts off *)
(* calls, however the queries of a request and the writes of the admin are  *)
(* interleaved.                                                             *)
THEOREM MeetGranted == MeetSpec => []MeetWithinGrant
  BY MeetInductive, MInvImplies, PTL

(* POST /meetings/monitor/:meetingId and /dm/:peerId: there is no room that *)
(* an admin cannot name, and no second room of a pair whose two go by the   *)
(* ids that the server hands out.                                           *)
THEOREM RoomsKnown == MeetSpec => []NoHiddenRoom
  BY MeetInductive, MInvImplies, PTL

(* As long as clients know no other spelling of an id, which is so of the   *)
(* page of this repository, jitsi.js is right: a pair has one room.         *)
THEOREM OneRoom == Text = UserId => (MeetSpec => []OneRoomPerPair)
<1> SUFFICES ASSUME Text = UserId PROVE MeetSpec => []OneRoomPerPair
  OBVIOUS
<1>1. MInv => OneRoomPerPair
  BY RoomUnique, RoomCases DEF MInv, RoomsInv, OneRoomPerPair
<1> QED  BY <1>1, MeetInductive, PTL
=============================================================================
