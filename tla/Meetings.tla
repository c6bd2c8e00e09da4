------------------------------- MODULE Meetings -------------------------------
(***************************************************************************)
(* The meeting routes (meetings.routes.js, services/jitsi.js) among the    *)
(* admin requests of Messaging that change users and mappings.  A row of   *)
(* the meetings table is its room, which is unique; a room token lets its  *)
(* user into its room until it expires, whatever happens later.            *)
(***************************************************************************)
EXTENDS Messaging

CONSTANT Meet       \* the requests to the meeting routes; each runs once

VARIABLES
    meetings,       \* the meetings table
    tokens,         \* the room tokens that have been answered
    m,              \* the local state of each request of Meet
    mapped          \* history: with whom its user was mapped while it ran

meetVars == <<meetings, tokens, m, mapped>>

(* A room is opaque: a hash of two texts or of a batch; it stands for them.  *)
Room == [kind: {"dm"}, a: Text, b: Text] \cup [kind: {"batch"}, batch: Batch]

Token == [user: UserId, room: Room, moderator: BOOLEAN]

MeetRunning == {"peer", "map", "teach", "upsert", "answer"}

Meeting(pc, me, peer, room, mod) ==
    [pc |-> pc, me |-> me, peer |-> peer, room |-> room, moderator |-> mod]

MeetNew  == Meeting("new", Nobody, Nobody, NoConv, FALSE)
MeetDone == Meeting("done", Nobody, Nobody, NoConv, FALSE)

MeetTypeOK ==
    /\ TypeOK
    /\ meetings \subseteq Room
    /\ tokens \subseteq Token
    /\ m \in [Meet -> [pc: MeetRunning \cup {"new", "done"},
                       me: Principal \cup {Nobody}, peer: UserId \cup {Nobody},
                       room: Room \cup {NoConv}, moderator: BOOLEAN]]
    /\ \A q \in Meet : m[q].pc \in MeetRunning => m[q].me \in Principal /\ m[q].room \in Room
    /\ \A q \in Meet : m[q].pc \in {"peer", "map"} => m[q].peer \in UserId
    /\ \A q \in Meet : m[q].pc = "answer" => m[q].room \in meetings
    /\ mapped \in [Meet -> SUBSET UserId]

MeetInit ==
    /\ Init
    /\ meetings = {}
    /\ tokens = {}
    /\ m = [q \in Meet |-> MeetNew]
    /\ mapped = [q \in Meet |-> {}]

-----------------------------------------------------------------------------

(* The histories record; every step ends with one of these. *)
RecordMapped ==
    mapped' = [q \in Meet |->
        IF m'[q].pc \in MeetRunning
        THEN mapped[q] \cup MappedWith(m'[q].me.id, mappings') ELSE {}]

Elsewhere == UNCHANGED <<directory, chat, h, history>> /\ RecordMapped

Go(q, pc) == m' = [m EXCEPT ![q].pc = pc]

Refuse(q) == m' = [m EXCEPT ![q] = MeetDone]

(* authenticate, and what the handler does before its first query. *)
MeetAuth(q, u, next) ==
    /\ m[q].pc = "new"
    /\ IF users[u].active THEN m' = [m EXCEPT ![q] = next] ELSE Refuse(q)
    /\ UNCHANGED <<meetings, tokens>>
    /\ Elsewhere

Moderates(u) == users[u].role # "student"

\* Mutation of RoomForPair: the two texts are not sorted.
RoomForPairUnsorted(x, y) == [kind |-> "dm", a |-> x, b |-> y]

(* The texts are sorted, so both sides of a call get the same room if both   *)
(* spell the other's id as the server does.                                  *)
RoomForPair(x, y) ==
    [kind |-> "dm", a |-> IF x < y THEN x ELSE y, b |-> IF x < y THEN y ELSE x]

RoomForBatch(b) == [kind |-> "batch", batch |-> b]

(* POST /meetings/dm/:peerId: as for a DM, the queries go by the id that the *)
(* text of the path means, the room by the text itself.                      *)
MeetPeer(q, u, text) ==
    MeetAuth(q, u,
        IF u = text THEN MeetDone
        ELSE Meeting(IF users[u].role = "admin" THEN "upsert" ELSE "peer",
                     Me(u), UserOf[text], RoomForPair(u, text), Moderates(u)))

(* canCommunicate, query by query, as in POST /messages/dm/:peerId. *)
MeetSelectPeer(q) ==
    LET row == users[m[q].peer] IN
    /\ m[q].pc = "peer"
    /\ \/ row.active /\ row.role = "admin" /\ Go(q, "upsert")
       \/ row.active /\ OpposedRoles(m[q].me, row) /\ Go(q, "map")
       \/ ~(row.active /\ (row.role = "admin" \/ OpposedRoles(m[q].me, row))) /\ Refuse(q)
    /\ UNCHANGED <<meetings, tokens>>
    /\ Elsewhere

MeetSelectMap(q) ==
    /\ m[q].pc = "map"
    /\ IF MappedNow(m[q].me, m[q].peer) THEN Go(q, "upsert") ELSE Refuse(q)
    /\ UNCHANGED <<meetings, tokens>>
    /\ Elsewhere

\* Mutation of MayMeetBatch: the tutor is let in like the admin.
MayMeetBatchAll(me, b) ==
    IF me.role = "student" /\ me.batch # b THEN "done" ELSE "upsert"

(* POST /meetings/batch/:batch: canAccessConversation, which needs a query   *)
(* for a tutor only.                                                         *)
MayMeetBatch(me, b) ==
    IF me.role = "admin" \/ (me.role = "student" /\ me.batch = b) THEN "upsert"
    ELSE IF me.role = "tutor" THEN "teach" ELSE "done"

MeetBatch(q, u, b) ==
    MeetAuth(q, u,
        IF MayMeetBatch(Me(u), b) = "done" THEN MeetDone
        ELSE Meeting(MayMeetBatch(Me(u), b), Me(u), Nobody, RoomForBatch(b), Moderates(u)))

MeetTeach(q) ==
    /\ m[q].pc = "teach"
    /\ IF Teaches(m[q].me.id, m[q].room.batch) THEN Go(q, "upsert") ELSE Refuse(q)
    /\ UNCHANGED <<meetings, tokens>>
    /\ Elsewhere

(* insert ... on conflict (room) do update: the first row of a room stays.   *)
UpsertMeeting(q) ==
    /\ m[q].pc = "upsert"
    /\ meetings' = meetings \cup {m[q].room}
    /\ Go(q, "answer")
    /\ UNCHANGED tokens
    /\ Elsewhere

(* POST /meetings/monitor/:meetingId: of a row the admin was shown; rows are *)
(* never deleted.                                                            *)
Monitor(q, u, room) ==
    MeetAuth(q, u,
        IF users[u].role # "admin" THEN MeetDone
        ELSE Meeting("answer", Me(u), Nobody, room, TRUE))

(* The row has been logged, logActivity swallows its errors: the token.      *)
AnswerToken(q) ==
    /\ m[q].pc = "answer"
    /\ tokens' = tokens \cup
           {[user |-> m[q].me.id, room |-> m[q].room, moderator |-> m[q].moderator]}
    /\ Refuse(q)
    /\ UNCHANGED meetings
    /\ Elsewhere

\* Mutation of FailMeet: the error of the upsert is swallowed like the audit's.
FailMeetOnward(q) ==
    /\ m[q].pc \in MeetRunning \ {"answer"}
    /\ IF m[q].pc = "upsert" THEN Go(q, "answer") ELSE Refuse(q)
    /\ UNCHANGED <<meetings, tokens>>
    /\ Elsewhere

(* Any statement may fail, which is a 500.  No answer after the upsert can.  *)
FailMeet(q) ==
    /\ m[q].pc \in MeetRunning \ {"answer"}
    /\ Refuse(q)
    /\ UNCHANGED <<meetings, tokens>>
    /\ Elsewhere

MeetSteps(q) ==
    \/ \E u \in UserId, text \in Text : MeetPeer(q, u, text)
    \/ \E u \in UserId, b \in Batch : MeetBatch(q, u, b)
    \/ \E u \in UserId, room \in meetings : Monitor(q, u, room)
    \/ MeetSelectPeer(q) \/ MeetSelectMap(q) \/ MeetTeach(q)
    \/ UpsertMeeting(q) \/ AnswerToken(q) \/ FailMeet(q)

MeetNext ==
    \/ \E q \in Meet : MeetSteps(q)
    \/ /\ \E r \in Request : AdminSteps(r)
       /\ UNCHANGED <<meetings, tokens, m>>
       /\ RecordMapped

MeetSpec == MeetInit /\ [][MeetNext]_<<vars, meetVars>>

-----------------------------------------------------------------------------
(* What the routes guarantee. *)

(* docs/ARCHITECTURE.md: "revoking a mapping instantly cuts off chat and     *)
(* calls".  For calls this is so: a request that is about to make or answer  *)
(* the room of two users who are not admins has found them mapped since it   *)
(* began.  The room of a batch goes to who has been in it or taught it.      *)
(* Others can only be monitors.                                              *)
MeetWithinGrant ==
    \A q \in Meet : m[q].pc \in {"upsert", "answer"} =>
        \/ m[q].me.id \in SeedAdmins
        \/ m[q].room.kind = "dm" /\ (m[q].peer \in SeedAdmins \/ m[q].peer \in mapped[q])
        \/ m[q].room.kind = "batch" /\ <<m[q].me.id, m[q].room.batch>> \in everInBatch

Party(room) == {UserOf[room.a], UserOf[room.b]}

(* README: the admin can join any active meeting.  Whoever holds the token   *)
(* of a room, the room has its row, which is what an admin names to monitor  *)
(* it; and two who call each other, one each way, meet in one room if both   *)
(* use the ids that the server hands out.                                    *)
NoHiddenRoom ==
    /\ \A t \in tokens : t.room \in meetings
    /\ \A s, t \in meetings :
        (/\ s.kind = "dm" /\ t.kind = "dm" /\ Party(s) = Party(t)
         /\ {s.a, s.b, t.a, t.b} \subseteq UserId) => s = t

-----------------------------------------------------------------------------
(* What a comment says and the code does only for ids of one spelling. *)

(* jitsi.js of roomForPair: "Deterministic, opaque room name for a DM".  A   *)
(* pair of users has one room, whoever of the two starts the meeting.        *)
OneRoomPerPair ==
    \A s, t \in meetings :
        (s.kind = "dm" /\ t.kind = "dm" /\ Party(s) = Party(t)) => s = t
=============================================================================
