------------------------------- MODULE Messaging -------------------------------
(***************************************************************************)
(* The chat routes of messages.routes.js together with the admin routes    *)
(* that change what they depend on (users and mappings), statement by      *)
(* statement.  req.user is read once, by authenticate; every later check   *)
(* of a request combines that copy with what the tables say by then.       *)
(*                                                                         *)
(* A request runs once.  Answers are not kept: "done" stands for all of    *)
(* them, and what a request achieved is in the tables and in "seen".       *)
(***************************************************************************)
EXTENDS Rbac

CONSTANTS
    Request,    \* the requests of a behaviour
    Seed,       \* the users table seed.js leaves
    SeedMappings,
    NoConv,
    Nobody      \* no principal, no id

ASSUME MessagingAssumption ==
    /\ Seed \in [UserId -> UserRow]
    /\ SeedMappings \subseteq UserId \X UserId
    /\ Nobody \notin UserId \cup Principal
    /\ NoConv \notin Conv

(* No route makes an admin, so whoever is one was seeded as one. *)
SeedAdmins == {u \in UserId : Seed[u].role = "admin"}

VARIABLES
    convs,      \* the conversations table
    messages,   \* who has a message in which conversation
    seen,       \* who has been sent the messages of which conversation
    h,          \* the local state of each request
    during,     \* history: with whom a running request's user was mapped
                \* at some moment since the request began
    everMapped, \* history: every mapping there has been
    everInBatch \* history: who has been a student of which batch, or mapped
                \* to one

history == <<during, everMapped, everInBatch>>
vars == <<users, mappings, convs, messages, seen, h, history>>

-----------------------------------------------------------------------------

Running ==
    {"peer", "map", "find", "insert",                    \* POST /dm/:peerId
     "sendSelect", "sendTeach", "send",                  \* POST .../messages
     "readSelect", "readTeach", "read",                  \* GET  .../messages
     "create", "patch", "flag", "tutor", "student", "assign", "unassign"}

Handler == [pc: Running \cup {"new", "done"},
            me: Principal \cup {Nobody},
            peer: UserId \cup {Nobody},
            other: UserId \cup {Nobody},
            conv: Conv \cup {NoConv}]

At(pc, me, peer, other, conv) ==
    [pc |-> pc, me |-> me, peer |-> peer, other |-> other, conv |-> conv]

New  == At("new", Nobody, Nobody, Nobody, NoConv)
Done == At("done", Nobody, Nobody, Nobody, NoConv)

(* The types, and what a running request knows: who is asking, whom or     *)
(* what about.                                                             *)
TypeOK ==
    /\ users \in [UserId -> UserRow]
    /\ mappings \subseteq UserId \X UserId
    /\ convs \subseteq Conv
    /\ messages \subseteq [conv: Conv, sender: UserId]
    /\ seen \subseteq UserId \X Conv
    /\ h \in [Request -> Handler]
    /\ \A r \in Request :
        /\ h[r].pc \in Running => h[r].me \in Principal
        /\ h[r].pc \in {"peer", "map", "find", "insert"} =>
               h[r].peer \in UserId /\ h[r].conv \in Conv
        /\ h[r].pc \in {"create", "patch", "flag"} => h[r].peer \in UserId
        /\ h[r].pc \in {"tutor", "student", "assign", "unassign"} =>
               h[r].peer \in UserId /\ h[r].other \in UserId
        /\ h[r].pc \in {"sendSelect", "readSelect"} => h[r].conv \in convs
        /\ h[r].pc \in {"send", "read"} => h[r].conv \in convs
        /\ h[r].pc \in {"sendTeach", "readTeach"} =>
               h[r].conv \in convs /\ h[r].conv.kind = "batch"
    /\ during \in [Request -> SUBSET UserId]
    /\ everMapped \subseteq UserId \X UserId
    /\ everInBatch \subseteq UserId \X Batch

InBatch ==
    {p \in UserId \X Batch :
        \/ Teaches(p[1], p[2])
        \/ users[p[1]].role = "student" /\ users[p[1]].batch = p[2]}

Init ==
    /\ users = Seed
    /\ mappings = SeedMappings
    /\ convs = {}
    /\ messages = {}
    /\ seen = {}
    /\ h = [r \in Request |-> New]
    /\ during = [r \in Request |-> {}]
    /\ everMapped = mappings
    /\ everInBatch = InBatch

MappedWith(u, pairs) == {v \in UserId : <<u, v>> \in pairs \/ <<v, u>> \in pairs}

(* The history variables only record; every step ends with this. *)
Record ==
    /\ during' = [r \in Request |->
           IF h'[r].pc \in Running
           THEN during[r] \cup MappedWith(h'[r].me.id, mappings')
           ELSE {}]
    /\ everMapped' = everMapped \cup mappings'
    /\ everInBatch' = everInBatch \cup InBatch'

Goto(r, pc) == h' = [h EXCEPT ![r].pc = pc]
Finish(r) == h' = [h EXCEPT ![r] = Done]

directory == <<users, mappings>>
chat == <<convs, messages, seen>>

(* authenticate: one fresh read of the caller's row. *)
Authenticate(r, u, next) ==
    /\ h[r].pc = "new"
    /\ IF users[u].active THEN h' = [h EXCEPT ![r] = next] ELSE Finish(r)
    /\ UNCHANGED <<directory, chat>>
    /\ Record

-----------------------------------------------------------------------------
(* POST /messages/dm/:peerId: canCommunicate in up to two queries, then      *)
(* getOrCreateDm in up to two more.                                          *)

\* Mutation of DmRow: the two texts are not sorted.
DmRowUnsorted(x, y) == [kind |-> "dm", a |-> UserOf[x], b |-> UserOf[y]]

(* The row of a pair: the texts are sorted, and the columns keep the ids.    *)
DmRow(x, y) ==
    LET first  == IF x < y THEN x ELSE y
        second == IF x < y THEN y ELSE x
    IN  [kind |-> "dm", a |-> UserOf[first], b |-> UserOf[second]]

(* The path has any text for the peer: the test of oneself and the sort go   *)
(* by the text, which nothing normalises, and the queries by the id.  The    *)
(* row is settled by the two texts; it is looked up and inserted later.      *)
OpenDm(r, u, text) ==
    Authenticate(r, u,
        IF u = text THEN Done
        ELSE At(IF users[u].role = "admin" THEN "find" ELSE "peer",
                Me(u), UserOf[text], Nobody, DmRow(u, text)))

(* What canCommunicate decides from the other's row alone: to go on, or to   *)
(* look at the mapping, or to refuse.                                        *)
OpposedRoles(me, row) ==
    {me.role, row.role} = {"tutor", "student"}

OpenPeer(r) ==
    LET row == users[h[r].peer] IN
    /\ h[r].pc = "peer"
    /\ \/ row.active /\ row.role = "admin" /\ Goto(r, "find")
       \/ row.active /\ OpposedRoles(h[r].me, row) /\ Goto(r, "map")
       \/ ~(row.active /\ (row.role = "admin" \/ OpposedRoles(h[r].me, row))) /\ Finish(r)
    /\ UNCHANGED <<directory, chat>>
    /\ Record

\* Mutation of MappedNow: the promise of areMapped is not awaited, and a
\* promise is true.
MappedPromise(me, peer) == TRUE

(* areMapped: the caller's role of back then says which of the two teaches.  *)
MappedNow(me, peer) ==
    IF me.role = "tutor" THEN AreMapped(me.id, peer) ELSE AreMapped(peer, me.id)

OpenMap(r) ==
    /\ h[r].pc = "map"
    /\ IF MappedNow(h[r].me, h[r].peer) THEN Goto(r, "find") ELSE Finish(r)
    /\ UNCHANGED <<directory, chat>>
    /\ Record

OpenFind(r) ==
    /\ h[r].pc = "find"
    /\ IF h[r].conv \in convs THEN Finish(r) ELSE Goto(r, "insert")
    /\ UNCHANGED <<directory, chat>>
    /\ Record

(* insert ... on conflict do update; a peer without a row breaks the         *)
(* foreign key, which is a 500.                                              *)
OpenInsert(r) ==
    /\ h[r].pc = "insert"
    /\ convs' = IF users[h[r].peer] = NoRow THEN convs
                ELSE convs \cup {h[r].conv}
    /\ Finish(r)
    /\ UNCHANGED <<directory, messages, seen>>
    /\ Record

-----------------------------------------------------------------------------
(* GET and POST /messages/conversations/:id/messages: select the row, run    *)
(* canAccessConversation (a query only for a tutor and a batch), then read   *)
(* or insert.  A client names a row it has been told of, and rows are never  *)
(* deleted: the 404 of an unknown id changes nothing and is left out.        *)

Send(r, u, c) ==
    Authenticate(r, u, At("sendSelect", Me(u), Nobody, Nobody, c))

Read(r, u, c) ==
    Authenticate(r, u, At("readSelect", Me(u), Nobody, Nobody, c))

\* Mutation of Admitted: any student may use any batch channel.
AdmittedAnyBatch(me, c) ==
    \/ c.kind = "dm" /\ IsMember(me.id, c)
    \/ c.kind = "batch" /\ me.role = "student"

(* What canAccessConversation answers without a query.  The admin's own      *)
(* clause is the caller's.                                                   *)
Admitted(me, c) ==
    \/ c.kind = "dm" /\ IsMember(me.id, c)
    \/ c.kind = "batch" /\ me.role = "student" /\ me.batch = c.batch

\* Mutation of AsksMappings: the kind of the conversation is not looked at.
AsksMappingsAlways(me, c) == me.role = "tutor"

(* A tutor and a batch: the answer is that of a query, TeachQuery below.     *)
AsksMappings(me, c) == c.kind = "batch" /\ me.role = "tutor"

Refused(me, c) == me.role # "admin" /\ ~Admitted(me, c) /\ ~AsksMappings(me, c)

\* Mutation of MonitorOnly: the second guard of the route is left out.
MonitorMayPost(me, c) == FALSE

(* "admin is monitor-only in this conversation" *)
MonitorOnly(me, c) == c.kind = "dm" /\ ~IsMember(me.id, c)

SendSelect(r) ==
    LET me == h[r].me
        c  == h[r].conv
    IN
    /\ h[r].pc = "sendSelect"
    /\ \/ me.role = "admin" /\ ~MonitorOnly(me, c) /\ Goto(r, "send")
       \/ me.role = "admin" /\ MonitorOnly(me, c) /\ Finish(r)
       \/ me.role # "admin" /\ Admitted(me, c) /\ Goto(r, "send")
       \/ AsksMappings(me, c) /\ Goto(r, "sendTeach")
       \/ Refused(me, c) /\ Finish(r)
    /\ UNCHANGED <<directory, chat>>
    /\ Record

ReadSelect(r) ==
    LET me == h[r].me
        c  == h[r].conv
    IN
    /\ h[r].pc = "readSelect"
    /\ \/ (me.role = "admin" \/ Admitted(me, c)) /\ Goto(r, "read")
       \/ AsksMappings(me, c) /\ Goto(r, "readTeach")
       \/ Refused(me, c) /\ Finish(r)
    /\ UNCHANGED <<directory, chat>>
    /\ Record

TeachQuery(r, pc, next) ==
    /\ h[r].pc = pc
    /\ IF Teaches(h[r].me.id, h[r].conv.batch) THEN Goto(r, next) ELSE Finish(r)
    /\ UNCHANGED <<directory, chat>>
    /\ Record

SendTeach(r) == TeachQuery(r, "sendTeach", "send")
ReadTeach(r) == TeachQuery(r, "readTeach", "read")

SendInsert(r) ==
    /\ h[r].pc = "send"
    /\ messages' = messages \cup {[conv |-> h[r].conv, sender |-> h[r].me.id]}
    /\ Finish(r)
    /\ UNCHANGED <<directory, convs, seen>>
    /\ Record

ReadRows(r) ==
    /\ h[r].pc = "read"
    /\ seen' = seen \cup {<<h[r].me.id, h[r].conv>>}
    /\ Finish(r)
    /\ UNCHANGED <<directory, convs, messages>>
    /\ Record

(* External: getOrCreateBatch, which nothing under src/ calls; batch rows    *)
(* come from the socket server.                                              *)
EnsureBatchChannel(b) ==
    /\ convs' = convs \cup {[kind |-> "batch", batch |-> b]}
    /\ UNCHANGED <<directory, messages, seen, h>>
    /\ Record

-----------------------------------------------------------------------------
(* The admin surface: authenticate, requireRole('admin'), the statements.    *)

AdminAuth(r, a, next) ==
    Authenticate(r, a, IF users[a].role = "admin" THEN next ELSE Done)

(* POST /admin/users: a new id, with a role of userSchema. *)
CreateUser(r, a, u) ==
    users[u] = NoRow /\ AdminAuth(r, a, At("create", Me(a), u, Nobody, NoConv))

CreateInsert(r) ==
    /\ h[r].pc = "create"
    /\ IF users[h[r].peer] = NoRow
       THEN \E role \in {"tutor", "student"}, b \in Batch \cup {NoBatch} :
               users' = [users EXCEPT ![h[r].peer] =
                            [role |-> role, batch |-> b, active |-> TRUE]]
       ELSE UNCHANGED users                 \* the username is taken: a 500
    /\ Finish(r)
    /\ UNCHANGED <<mappings, chat>>
    /\ Record

(* PATCH /admin/users/:id: any subset of the fields, of any row, whatever    *)
(* its mappings.                                                             *)
PatchUser(r, a, u) == AdminAuth(r, a, At("patch", Me(a), u, Nobody, NoConv))

PatchUpdate(r) ==
    LET u == h[r].peer IN
    /\ h[r].pc = "patch"
    /\ \E role \in {"tutor", "student", users[u].role},
          b \in Batch \cup {NoBatch} :
          users' = IF users[u] = NoRow THEN users           \* 404
                   ELSE [users EXCEPT ![u].role = role, ![u].batch = b]
    /\ Finish(r)
    /\ UNCHANGED <<mappings, chat>>
    /\ Record

(* DELETE /admin/users/:id, its first statement; the second one only touches *)
(* refresh_tokens, see Sessions.                                             *)
DeactivateUser(r, a, u) == AdminAuth(r, a, At("flag", Me(a), u, Nobody, NoConv))

ClearFlag(r) ==
    /\ h[r].pc = "flag"
    /\ users' = IF users[h[r].peer] = NoRow THEN users     \* no row to update
                ELSE [users EXCEPT ![h[r].peer].active = FALSE]
    /\ Finish(r)
    /\ UNCHANGED <<mappings, chat>>
    /\ Record

(* POST /admin/mappings: the roles of the two are read one after the other,  *)
(* and the pair is inserted on the strength of both.  (The code tests both   *)
(* roles after the second select, which changes nothing.)                    *)
AssignMapping(r, a, t, s) == AdminAuth(r, a, At("tutor", Me(a), t, s, NoConv))

SelectTutor(r) ==
    /\ h[r].pc = "tutor"
    /\ IF users[h[r].peer].role = "tutor" THEN Goto(r, "student") ELSE Finish(r)
    /\ UNCHANGED <<directory, chat>>
    /\ Record

SelectStudent(r) ==
    /\ h[r].pc = "student"
    /\ IF users[h[r].other].role = "student" THEN Goto(r, "assign") ELSE Finish(r)
    /\ UNCHANGED <<directory, chat>>
    /\ Record

AssignInsert(r) ==
    /\ h[r].pc = "assign"
    /\ mappings' = mappings \cup {<<h[r].peer, h[r].other>>}
    /\ Finish(r)
    /\ UNCHANGED <<users, chat>>
    /\ Record

(* DELETE /admin/mappings/:id.  The id is that of a row the admin has seen;  *)
(* once the row is deleted the other requests that name it have nothing left *)
(* to delete, even if the pair is assigned again under a new id.             *)
RemoveMapping(r, a, t, s) ==
    AreMapped(t, s) /\ AdminAuth(r, a, At("unassign", Me(a), t, s, NoConv))

RemoveDelete(r) ==
    LET SameRow(q) == /\ h[q].pc = "unassign"
                      /\ h[q].peer = h[r].peer /\ h[q].other = h[r].other
    IN
    /\ h[r].pc = "unassign"
    /\ mappings' = mappings \ {<<h[r].peer, h[r].other>>}
    /\ h' = [q \in Request |-> IF SameRow(q) THEN Done ELSE h[q]]
    /\ UNCHANGED <<users, chat>>
    /\ Record

(* Any statement may fail: a 500, or a 401 from authenticate. *)
Fail(r) ==
    /\ h[r].pc \in Running
    /\ Finish(r)
    /\ UNCHANGED <<directory, chat>>
    /\ Record

-----------------------------------------------------------------------------

OpenSteps(r) ==
    \/ \E u \in UserId, text \in Text : OpenDm(r, u, text)
    \/ OpenPeer(r) \/ OpenMap(r) \/ OpenFind(r) \/ OpenInsert(r)

ChatSteps(r) ==
    \/ \E u \in UserId, c \in convs : Send(r, u, c) \/ Read(r, u, c)
    \/ SendSelect(r) \/ SendTeach(r) \/ SendInsert(r)
    \/ ReadSelect(r) \/ ReadTeach(r) \/ ReadRows(r)

AdminSteps(r) ==
    \/ \E a, u \in UserId : CreateUser(r, a, u) \/ PatchUser(r, a, u)
                            \/ DeactivateUser(r, a, u)
    \/ \E a, t, s \in UserId : AssignMapping(r, a, t, s) \/ RemoveMapping(r, a, t, s)
    \/ CreateInsert(r) \/ PatchUpdate(r) \/ ClearFlag(r)
    \/ SelectTutor(r) \/ SelectStudent(r) \/ AssignInsert(r) \/ RemoveDelete(r)

Next ==
    \/ \E r \in Request : OpenSteps(r) \/ ChatSteps(r) \/ AdminSteps(r) \/ Fail(r)
    \/ \E b \in Batch : EnsureBatchChannel(b)

Spec == Init /\ [][Next]_vars

-----------------------------------------------------------------------------
(* What the server guarantees. *)

SamePair(c, d) == c.kind = "dm" /\ d.kind = "dm" /\ {c.a, c.b} = {d.a, d.b}

(* One of the two can be written so that it sorts on the other side of the  *)
(* other's id.                                                              *)
SortsApart(u, v) ==
    \E x \in Text : \/ UserOf[x] = u /\ ((x < v) # (u < v))
                    \/ UserOf[x] = v /\ ((x < u) # (v < u))

(* getOrCreateDm: however many requests of both of them create it at the    *)
(* same time, a pair of users has at most one DM row, unless one of the two *)
(* ids has a spelling that the sort puts elsewhere; only then two.          *)
SecondDmIsRespelt ==
    \A c, d \in convs : SamePair(c, d) => c = d \/ SortsApart(c.a, c.b)

(* Revocation reaches the opening of chats: a request that is about to look *)
(* up or create the DM of two users who are not admins has found them       *)
(* mapped at some moment since it began, though its queries are spread out  *)
(* over other requests' writes.                                             *)
OpenWithinGrant ==
    \A r \in Request : h[r].pc \in {"find", "insert"} =>
        \/ h[r].me.id \in SeedAdmins
        \/ h[r].peer \in SeedAdmins
        \/ h[r].peer \in during[r]

(* schema.sql: a DM is "tied to a mapping or to admin".  For ever: the rows *)
(* stay when the mapping goes, so the mapping is one there has been.        *)
DmTied ==
    \A c \in convs : c.kind = "dm" =>
        \/ c.a \in SeedAdmins \/ c.b \in SeedAdmins
        \/ <<c.a, c.b>> \in everMapped \/ <<c.b, c.a>> \in everMapped

(* Nobody but its two members ever has a message in a DM: not the admin who *)
(* monitors it, not a user whose role changed while the request ran.        *)
OnlyMembersPost ==
    \A m \in messages : m.conv.kind = "dm" => IsMember(m.sender, m.conv)

(* The messages of a DM are only ever sent to its members and to admins.    *)
OnlyMembersRead ==
    \A u \in UserId, c \in Conv :
        (<<u, c>> \in seen /\ c.kind = "dm") => IsMember(u, c) \/ u \in SeedAdmins

(* Who posts in or reads a batch channel is an admin, or has been a student *)
(* of the batch or mapped to one, at the latest while the request ran.      *)
BatchTied ==
    \A u \in UserId, c \in Conv :
        (c.kind = "batch" /\ (<<u, c>> \in seen \/ [conv |-> c, sender |-> u] \in messages))
            => u \in SeedAdmins \/ <<u, c.batch>> \in everInBatch

(* A DM is a matter of its members: in the tables and in the answers.       *)
MembersOnly == OnlyMembersPost /\ OnlyMembersRead

(* Every chat, of either kind, goes back to a mapping, a batch or an admin. *)
EveryChatTied == DmTied /\ BatchTied

-----------------------------------------------------------------------------
(* Messaging implements Channels. *)

(* The order of the two columns is no matter of the promise. *)
ChannelOf(c) ==
    IF c.kind = "dm" THEN [kind |-> "dm", members |-> {c.a, c.b}] ELSE c

mappedPairs == {{p[1], p[2]} : p \in mappings}

channels == {ChannelOf(c) : c \in convs}

posted == {<<m.sender, ChannelOf(m.conv)>> : m \in messages}

shown == {<<p[1], ChannelOf(p[2])>> : p \in seen}

(* A handler whose remaining tests cannot fail any more.  For what the copy  *)
(* of the caller's row decides this is so from authenticate on.              *)
Opens(x) == x.pc \in {"find", "insert"}

Posts(x) ==
    \/ x.pc = "send"
    \/ /\ x.pc = "sendSelect"
       /\ IF x.me.role = "admin" THEN ~MonitorOnly(x.me, x.conv) ELSE Admitted(x.me, x.conv)

Reads(x) ==
    \/ x.pc = "read"
    \/ x.pc = "readSelect" /\ (x.me.role = "admin" \/ Admitted(x.me, x.conv))

PermitOf(x) ==
    IF Opens(x)
    THEN [to |-> "open", by |-> x.me.id,
          channel |-> [kind |-> "dm", members |-> {x.me.id, x.peer}]]
    ELSE [to |-> IF Posts(x) THEN "post" ELSE "read", by |-> x.me.id,
          channel |-> ChannelOf(x.conv)]

Holds(x) == Opens(x) \/ Posts(x) \/ Reads(x)

permits == {PermitOf(h[r]) : r \in {q \in Request : Holds(h[q])}}

Promise == INSTANCE Channels
    WITH User <- UserId, mapped <- mappedPairs,
         attends <- InBatch, admins <- ActiveAdmins

(* Each answer of canCommunicate and canAccessConversation, and each test of *)
(* a route, though put together from a copy of a row and one or two queries  *)
(* with other requests' writes in between, is the right one of one moment of *)
(* the request; and nothing is opened, posted or shown without it.  Every    *)
(* step is one of Channels.                                                  *)
KeepsPromise == Promise!Spec

-----------------------------------------------------------------------------
(* What the comments and documents say and the code does not do. *)

(* schema.sql of the members of a DM: "the canonical member pair (sorted)   *)
(* so a pair maps to one row".  The unique constraint is on the order that  *)
(* getOrCreateDm happened to sort the texts in, so this is so only as long  *)
(* as every id has one spelling.                                            *)
OneDmPerPair == \A c, d \in convs : SamePair(c, d) => c = d

(* docs/ARCHITECTURE.md: "revoking a mapping instantly cuts off chat and    *)
(* calls".  A message that a tutor or student posts in a DM with another    *)
(* should at least need a mapping at some moment of the request.            *)
OtherMember(u, c) == IF c.a = u THEN c.b ELSE c.a

RevokedCannotPost ==
    [][\A r \in Request :
        (h[r].pc = "send" /\ messages' # messages /\ h'[r].pc = "done"
            /\ h[r].conv.kind = "dm" /\ SeedAdmins \cap {h[r].conv.a, h[r].conv.b} = {})
        => OtherMember(h[r].me.id, h[r].conv) \in during[r]]_vars
=============================================================================
