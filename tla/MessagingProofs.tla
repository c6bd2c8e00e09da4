---------------------------- MODULE MessagingProofs ----------------------------
(***************************************************************************)
(* The chat guarantees of Messaging for any users, batches and requests.   *)
(*                                                                         *)
(* Each handler decides on a copy of its caller's row and on answers of    *)
(* earlier queries.  HandlerFacts says what such a handler may still rely  *)
(* on; all of it is stable, because it speaks of the history variables and *)
(* of rows that are never deleted, not of what the tables say now.         *)
(***************************************************************************)
EXTENDS Messaging, TLAPS

USE RbacAssumption, MessagingAssumption

-----------------------------------------------------------------------------
(* What the permission helpers return, for every users table and every set   *)
(* of mappings, typed or not by role: PATCH may leave any role on any row.   *)

(* canCommunicate is symmetric between two active accounts, so a call or a    *)
(* DM that one side may start is one the other side may answer.               *)
LEMMA MutualAlways ==
  ASSUME users \in [UserId -> UserRow]
  PROVE  CommunicationIsMutual
<1> SUFFICES ASSUME NEW u \in UserId, NEW v \in UserId, users[u].active, users[v].active,
                    CanCommunicate(Me(u), v)
             PROVE  CanCommunicate(Me(v), u)
  BY DEF CommunicationIsMutual
<1>1. u # v /\ UserOf[u] = u /\ UserOf[v] = v
  BY DEF CanCommunicate, Me
<1>2. CASE users[u].role = "admin" \/ users[v].role = "admin"
  BY <1>1, <1>2 DEF CanCommunicate, Me
<1>3. CASE users[u].role # "admin" /\ users[v].role # "admin"
  <2>1. MappedPeers(Me(u), v, users[v].role)
    BY <1>1, <1>3 DEF CanCommunicate, Me
  <2>2. MappedPeers(Me(v), u, users[u].role)
    BY <2>1 DEF MappedPeers, Me
  <2> QED  BY <1>1, <2>2 DEF CanCommunicate, Me
<1> QED  BY <1>2, <1>3

(* The contact list contains everyone the user may reach. *)
LEMMA ContactsComplete ==
  ASSUME users \in [UserId -> UserRow]
  PROVE  ReachableIsContact
<1> SUFFICES ASSUME NEW u \in UserId, NEW v \in UserId, users[u].active, users[v].active,
                    CanCommunicate(Me(u), v)
             PROVE  v \in PeersOf(Me(u))
  BY DEF ReachableIsContact, Contacts
<1>0. users[u] \in UserRow /\ users[u] # NoRow
  BY DEF NoRow
<1>1. u # v /\ UserOf[u] = u /\ UserOf[v] = v
  BY DEF CanCommunicate, Me
<1>2. CASE users[u].role = "admin"
  BY <1>1, <1>2 DEF PeersOf, Me
<1>3. CASE users[u].role = "tutor"
  BY <1>1, <1>3 DEF PeersOf, CanCommunicate, MappedPeers, Me, StudentsOf, ActiveAdmins
<1>4. CASE users[u].role = "student"
  BY <1>1, <1>4 DEF PeersOf, CanCommunicate, MappedPeers, Me, TutorsOf, ActiveAdmins
<1> QED  BY <1>0, <1>2, <1>3, <1>4 DEF UserRow, Role

(* GET /messages/conversations and canAccessConversation agree for whoever is *)
(* not a tutor; a student without a batch gets no channel from either, since  *)
(* no channel has the label null.                                             *)
LEMMA ListAlways ==
  ASSUME users \in [UserId -> UserRow]
  PROVE  ListMatchesAccess
<1> SUFFICES ASSUME NEW u \in UserId, NEW c \in Conv,
                    users[u].active, users[u].role # "tutor"
             PROVE  Listed(Me(u), c) <=> CanAccessConversation(Me(u), c)
  BY DEF ListMatchesAccess
<1>1. users[u].role \in {"admin", "student"}
  <2>1. users[u] \in UserRow /\ users[u] # NoRow
    BY DEF NoRow
  <2> QED  BY <2>1 DEF UserRow, Role
<1>2. CASE users[u].role = "admin"
  BY <1>2 DEF Listed, CanAccessConversation, Me
<1>3. CASE users[u].role = "student"
  BY <1>3 DEF Listed, CanAccessConversation, Me
<1> QED  BY <1>1, <1>2, <1>3

-----------------------------------------------------------------------------

(* The type of a handler that is past its first statement. *)
HandlerTyped(x) ==
    /\ x.pc \in Running => x.me \in Principal
    /\ x.pc \in {"peer", "map", "find", "insert"} => x.peer \in UserId /\ x.conv \in Conv
    /\ x.pc \in {"create", "patch", "flag"} => x.peer \in UserId
    /\ x.pc \in {"tutor", "student", "assign", "unassign"} =>
           x.peer \in UserId /\ x.other \in UserId
    /\ x.pc \in {"sendSelect", "readSelect"} => x.conv \in convs
    /\ x.pc \in {"send", "read"} => x.conv \in convs
    /\ x.pc \in {"sendTeach", "readTeach"} => x.conv \in convs /\ x.conv.kind = "batch"

(* The copy of the caller's row: an admin was seeded as one, and a student  *)
(* has been in the batch it names.                                          *)
CopyFacts(me) ==
    /\ me.role = "admin" => me.id \in SeedAdmins
    /\ (me.role = "student" /\ me.batch \in Batch) => <<me.id, me.batch>> \in everInBatch

(* May have the messages of c: what the reading of c rests on. *)
MayRead(u, c) ==
    /\ c.kind = "dm" => IsMember(u, c) \/ u \in SeedAdmins
    /\ c.kind = "batch" => u \in SeedAdmins \/ <<u, c.batch>> \in everInBatch

(* A row of two users, in an order in which a text of one and the id of the *)
(* other are sorted.                                                        *)
RowOf(c, u, v) ==
    /\ c.kind = "dm"
    /\ \/ c.a = u /\ c.b = v
       \/ c.a = v /\ c.b = u

TextsSorted(c) ==
    c.kind = "dm" =>
        \E x, y \in Text : /\ UserOf[x] = c.a /\ UserOf[y] = c.b
                          /\ x <= y /\ (x = c.a \/ y = c.b)

CarriesRow(x) ==
    x.pc \in {"peer", "map", "find", "insert"} =>
        RowOf(x.conv, x.me.id, x.peer) /\ TextsSorted(x.conv)

HandlerFacts(x) ==
    /\ HandlerTyped(x)
    /\ CarriesRow(x)
    /\ x.pc \in Running => CopyFacts(x.me)
    /\ x.pc = "send" =>
           /\ MayRead(x.me.id, x.conv)
           /\ x.conv.kind = "dm" => IsMember(x.me.id, x.conv)
    /\ x.pc = "read" => MayRead(x.me.id, x.conv)

(* What may happen to be known of the mappings since the request began.    *)
GrantFacts(x, d) ==
    /\ x.pc \notin Running => d = {}
    /\ x.pc \in Running =>
        /\ MappedWith(x.me.id, mappings) \subseteq d
        /\ d \subseteq MappedWith(x.me.id, everMapped)
    /\ x.pc \in {"find", "insert"} =>
        x.me.id \in SeedAdmins \/ x.peer \in SeedAdmins \/ x.peer \in d

HandlerInv ==
    \A r \in Request :
        h[r] \in Handler /\ HandlerFacts(h[r]) /\ GrantFacts(h[r], during[r])

DirectoryInv ==
    /\ users \in [UserId -> UserRow]
    /\ mappings \subseteq UserId \X UserId
    /\ everMapped \subseteq UserId \X UserId
    /\ everInBatch \subseteq UserId \X Batch
    /\ \A u \in UserId : users[u].role = "admin" => u \in SeedAdmins
    /\ mappings \subseteq everMapped
    /\ InBatch \subseteq everInBatch

ChatInv ==
    /\ convs \subseteq Conv
    /\ messages \subseteq [conv: Conv, sender: UserId]
    /\ seen \subseteq UserId \X Conv
    /\ \A c \in convs : TextsSorted(c)
    /\ DmTied
    /\ OnlyMembersPost
    /\ \A m \in messages : MayRead(m.sender, m.conv)
    /\ \A u \in UserId, c \in Conv : <<u, c>> \in seen => MayRead(u, c)

IInv ==
    /\ h \in [Request -> Handler]
    /\ during \in [Request -> SUBSET UserId]
    /\ HandlerInv /\ DirectoryInv /\ ChatInv

-----------------------------------------------------------------------------
(* A conversation is one of two records. *)
LEMMA ConvCases ==
  ASSUME NEW c \in Conv
  PROVE  /\ c.kind = "dm" => c = [kind |-> "dm", a |-> c.a, b |-> c.b]
                             /\ c.a \in UserId /\ c.b \in UserId
         /\ c.kind = "batch" => c = [kind |-> "batch", batch |-> c.batch] /\ c.batch \in Batch
         /\ c.kind = "dm" \/ c.kind = "batch"
  BY DEF Conv

(* The row that a caller and the text of a path make. *)
LEMMA DmRowSorted ==
  ASSUME NEW u \in UserId, NEW text \in Text
  PROVE  /\ DmRow(u, text) \in Conv
         /\ RowOf(DmRow(u, text), u, UserOf[text])
         /\ TextsSorted(DmRow(u, text))
<1>1. PICK first, second \in Text :
        /\ first = IF u < text THEN u ELSE text
        /\ second = IF u < text THEN text ELSE u
  OBVIOUS
<1>2. /\ UserOf[first] \in UserId /\ UserOf[second] \in UserId /\ UserOf[u] = u
      /\ first <= second
      /\ (first = u /\ second = text) \/ (first = text /\ second = u)
  BY <1>1
<1>3. PICK c : c = [kind |-> "dm", a |-> UserOf[first], b |-> UserOf[second]]
  OBVIOUS
<1>4. c = DmRow(u, text)
  BY <1>1, <1>3 DEF DmRow
<1>5. c.kind = "dm" /\ c.a = UserOf[first] /\ c.b = UserOf[second] /\ c \in Conv
  BY <1>2, <1>3 DEF Conv
<1>6. RowOf(c, u, UserOf[text]) /\ TextsSorted(c)
  BY <1>2, <1>5 DEF RowOf, TextsSorted
<1> QED  BY <1>4, <1>5, <1>6

(* Of two rows of one pair, one is out of order by the ids: a text of one of *)
(* the two sorts apart from its id.                                          *)
LEMMA OutOfOrder ==
  ASSUME NEW c, c.kind = "dm", TextsSorted(c), c.a \in UserId, c.b \in UserId, c.b < c.a
  PROVE  SortsApart(c.a, c.b)
<1>1. PICK x \in Text, y \in Text : /\ UserOf[x] = c.a /\ UserOf[y] = c.b
                                   /\ x <= y /\ (x = c.a \/ y = c.b)
  BY DEF TextsSorted
<1>2. c.a \in Nat /\ c.b \in Nat /\ x \in Nat /\ y \in Nat
  OBVIOUS
<1>3. CASE x = c.a
  BY <1>1, <1>2, <1>3 DEF SortsApart
<1>4. CASE y = c.b
  <2>1. x # c.b
    BY <1>1
  <2> QED  BY <1>1, <1>2, <1>4, <2>1 DEF SortsApart
<1> QED  BY <1>1, <1>3, <1>4

LEMMA SecondRow ==
  ASSUME NEW c \in Conv, NEW d \in Conv, TextsSorted(c), TextsSorted(d), SamePair(c, d), c # d
  PROVE  SortsApart(c.a, c.b)
<1>1. /\ c.kind = "dm" /\ d.kind = "dm" /\ c.a \in UserId /\ c.b \in UserId
      /\ d.a = c.b /\ d.b = c.a /\ c.a # c.b
  BY ConvCases DEF SamePair
<1>2. c.a \in Nat /\ c.b \in Nat
  BY <1>1
<1>3. CASE c.b < c.a
  BY <1>1, <1>3, OutOfOrder
<1>4. CASE c.a < c.b
  <2>1. SortsApart(d.a, d.b)
    BY <1>1, <1>4, OutOfOrder
  <2> QED  BY <1>1, <2>1 DEF SortsApart
<1> QED  BY <1>1, <1>2, <1>3, <1>4

LEMMA IInvImplies ==
  IInv => /\ TypeOK /\ SecondDmIsRespelt /\ OpenWithinGrant /\ DmTied
          /\ OnlyMembersPost /\ OnlyMembersRead /\ BatchTied
<1> SUFFICES ASSUME IInv
             PROVE  /\ TypeOK /\ SecondDmIsRespelt /\ OpenWithinGrant /\ DmTied
                    /\ OnlyMembersPost /\ OnlyMembersRead /\ BatchTied
  OBVIOUS
<1>1. TypeOK
  BY DEF IInv, HandlerInv, HandlerFacts, HandlerTyped, DirectoryInv, ChatInv, TypeOK
<1>2. SecondDmIsRespelt
  BY SecondRow DEF IInv, ChatInv, SecondDmIsRespelt
<1>3. OpenWithinGrant
  BY DEF IInv, HandlerInv, GrantFacts, OpenWithinGrant, Running
<1>4. OnlyMembersRead
  BY DEF IInv, ChatInv, MayRead, OnlyMembersRead
<1>5. BatchTied
  <2> SUFFICES ASSUME NEW u \in UserId, NEW c \in Conv, c.kind = "batch",
                      <<u, c>> \in seen \/ [conv |-> c, sender |-> u] \in messages
               PROVE  u \in SeedAdmins \/ <<u, c.batch>> \in everInBatch
    BY DEF BatchTied
  <2>1. CASE <<u, c>> \in seen
    BY <2>1 DEF IInv, ChatInv, MayRead
  <2>2. CASE [conv |-> c, sender |-> u] \in messages
    <3> DEFINE m == [conv |-> c, sender |-> u]
    <3>1. m.sender = u /\ m.conv = c
      OBVIOUS
    <3>2. MayRead(m.sender, m.conv)
      BY <2>2 DEF IInv, ChatInv
    <3> QED  BY <3>1, <3>2 DEF MayRead
  <2> QED  BY <2>1, <2>2
<1> QED  BY <1>1, <1>2, <1>3, <1>4, <1>5 DEF IInv, ChatInv

LEMMA InitIInv == Init => IInv
<1> SUFFICES ASSUME Init PROVE IInv
  OBVIOUS
<1>1. New \in Handler /\ New.pc = "new"
  BY DEF New, At, Handler
<1>2. HandlerInv
  BY <1>1 DEF Init, HandlerInv, HandlerFacts, HandlerTyped, CarriesRow, GrantFacts, Running
<1>3. DirectoryInv
  BY DEF Init, DirectoryInv, SeedAdmins, InBatch
<1>4. ChatInv
  BY DEF Init, ChatInv, DmTied, OnlyMembersPost
<1> QED  BY <1>1, <1>2, <1>3, <1>4 DEF Init, IInv

-----------------------------------------------------------------------------
(* Stability: facts about a handler that does not move survive any step     *)
(* that records history and deletes no conversation.                        *)

LEMMA RecordTyped ==
  ASSUME IInv, Record, users' \in [UserId -> UserRow], mappings' \subseteq UserId \X UserId,
         \A u \in UserId : users'[u].role = "admin" => u \in SeedAdmins
  PROVE  /\ DirectoryInv'
         /\ everMapped \subseteq everMapped' /\ everInBatch \subseteq everInBatch'
         /\ during' \in [Request -> SUBSET UserId]
<1>1. everMapped' = everMapped \cup mappings' /\ everInBatch' = everInBatch \cup InBatch'
  BY DEF Record
<1>2. InBatch' \subseteq UserId \X Batch
  BY DEF InBatch
<1>3. DirectoryInv'
  BY <1>1, <1>2 DEF IInv, DirectoryInv, SeedAdmins
<1>4. during' \in [Request -> SUBSET UserId]
  BY DEF Record, IInv, MappedWith
<1> QED  BY <1>1, <1>3, <1>4

LEMMA FactsStable ==
  ASSUME NEW x \in Handler, HandlerFacts(x), convs \subseteq convs',
         everInBatch \subseteq everInBatch'
  PROVE  HandlerFacts(x)'
  BY DEF HandlerFacts, HandlerTyped, CarriesRow, RowOf, TextsSorted, CopyFacts, MayRead,
     SeedAdmins

(* The move of one handler: the others keep their facts, and it has those   *)
(* it is assumed to have in the old state.                                  *)
LEMMA HandlersMove ==
  ASSUME IInv, Record, NEW r \in Request, NEW x \in Handler,
         \A q \in Request : h'[q] = IF q = r THEN x ELSE h[q],
         h' \in [Request -> Handler],
         HandlerFacts(x), convs \subseteq convs',
         users' \in [UserId -> UserRow], mappings' \subseteq UserId \X UserId,
         \A u \in UserId : users'[u].role = "admin" => u \in SeedAdmins,
         (x.pc \in Running /\ h[r].pc \in Running) => x.me = h[r].me,
         x.pc \in {"find", "insert"} =>
             \/ x.me.id \in SeedAdmins \/ x.peer \in SeedAdmins
             \/ x.peer \in during[r]
  PROVE  HandlerInv' /\ DirectoryInv' /\ during' \in [Request -> SUBSET UserId]
<1>1. /\ DirectoryInv' /\ during' \in [Request -> SUBSET UserId]
      /\ everInBatch \subseteq everInBatch' /\ everMapped \subseteq everMapped'
  BY RecordTyped
<1>2. ASSUME NEW q \in Request
      PROVE  HandlerFacts(h[q])' /\ GrantFacts(h[q], during[q])'
  <2>1. HandlerFacts(h[q])'
    <3>1. CASE q = r
      BY <1>1, <3>1, FactsStable
    <3>2. CASE q # r
      <4>1. h[q] \in Handler /\ HandlerFacts(h[q])
        BY DEF IInv, HandlerInv
      <4>2. h'[q] = h[q]
        BY <3>2
      <4> QED  BY <1>1, <4>1, <4>2, FactsStable
    <3> QED  BY <3>1, <3>2
  <2>2. GrantFacts(h[q], during[q])'
    <3>1. during'[q] = IF h'[q].pc \in Running
                       THEN during[q] \cup MappedWith(h'[q].me.id, mappings') ELSE {}
      BY DEF Record
    <3>2. /\ h'[q].pc \in Running /\ h[q].pc \in Running => h'[q].me = h[q].me
          /\ h'[q].pc \in {"find", "insert"} =>
                 \/ h'[q].me.id \in SeedAdmins \/ h'[q].peer \in SeedAdmins
                 \/ h'[q].peer \in during[q]
      BY DEF IInv, HandlerInv, GrantFacts
    <3>3. GrantFacts(h[q], during[q])
      BY DEF IInv, HandlerInv
    <3>4. MappedWith(h'[q].me.id, mappings') \subseteq MappedWith(h'[q].me.id, everMapped')
      BY <1>1 DEF DirectoryInv, MappedWith
    <3>5. MappedWith(h[q].me.id, everMapped) \subseteq MappedWith(h[q].me.id, everMapped')
      BY <1>1 DEF MappedWith
    <3> QED  BY <3>1, <3>2, <3>3, <3>4, <3>5 DEF GrantFacts, SeedAdmins, Running
  <2> QED  BY <2>1, <2>2
<1> QED  BY <1>1, <1>2 DEF HandlerInv

LEMMA ChatStable ==
  ASSUME ChatInv, UNCHANGED chat,
         everMapped \subseteq everMapped', everInBatch \subseteq everInBatch'
  PROVE  ChatInv'
<1> USE DEF chat
<1>1. DmTied' /\ OnlyMembersPost'
  BY DEF ChatInv, DmTied, OnlyMembersPost, SeedAdmins
<1>2. \A u \in UserId, c \in Conv : MayRead(u, c) => MayRead(u, c)'
  BY DEF MayRead, SeedAdmins
<1>3. \A m \in messages : m.sender \in UserId /\ m.conv \in Conv
  BY DEF ChatInv
<1> QED  BY <1>1, <1>2, <1>3 DEF ChatInv, TextsSorted

LEMMA DoneFacts == Done \in Handler /\ Done.pc = "done" /\ HandlerFacts(Done)
<1>1. Done \in Handler /\ Done.pc = "done"
  BY DEF Done, At, Handler
<1> QED  BY <1>1 DEF HandlerFacts, HandlerTyped, CarriesRow, Running

(* A step that moves one handler and writes no table. *)
LEMMA QuietMove ==
  ASSUME IInv, Record, NEW r \in Request, NEW x \in Handler,
         h' = [h EXCEPT ![r] = x], UNCHANGED <<directory, chat>>, HandlerFacts(x),
         (x.pc \in Running /\ h[r].pc \in Running) => x.me = h[r].me,
         x.pc \in {"find", "insert"} =>
             \/ x.me.id \in SeedAdmins \/ x.peer \in SeedAdmins
             \/ x.peer \in during[r]
  PROVE  IInv'
<1>1. /\ users' = users /\ mappings' = mappings /\ convs' = convs /\ UNCHANGED chat
      /\ h' \in [Request -> Handler]
      /\ \A q \in Request : h'[q] = IF q = r THEN x ELSE h[q]
  BY DEF IInv, directory, chat
<1>2. /\ users' \in [UserId -> UserRow] /\ mappings' \subseteq UserId \X UserId
      /\ \A u \in UserId : users'[u].role = "admin" => u \in SeedAdmins
  BY <1>1 DEF IInv, DirectoryInv
<1>3. HandlerInv' /\ DirectoryInv' /\ during' \in [Request -> SUBSET UserId]
  BY <1>1, <1>2, HandlersMove
<1>4. ChatInv'
  BY <1>1, <1>2, RecordTyped, ChatStable DEF IInv
<1> QED  BY <1>1, <1>3, <1>4 DEF IInv

(* The last step of a request: it writes a table and answers. *)
LEMMA LastMove ==
  ASSUME IInv, Record, NEW r \in Request, Finish(r), convs \subseteq convs',
         users' \in [UserId -> UserRow], mappings' \subseteq UserId \X UserId,
         \A u \in UserId : users'[u].role = "admin" => u \in SeedAdmins
  PROVE  /\ HandlerInv' /\ DirectoryInv' /\ during' \in [Request -> SUBSET UserId]
         /\ h' \in [Request -> Handler]
         /\ everMapped \subseteq everMapped' /\ everInBatch \subseteq everInBatch'
<1>1. /\ h' \in [Request -> Handler]
      /\ \A q \in Request : h'[q] = IF q = r THEN Done ELSE h[q]
  BY DoneFacts DEF Finish, IInv
<1>2. HandlerInv' /\ DirectoryInv' /\ during' \in [Request -> SUBSET UserId]
  BY <1>1, DoneFacts, HandlersMove DEF Running
<1> QED  BY <1>1, <1>2, RecordTyped

LEMMA FinishOnly ==
  ASSUME IInv, Record, NEW r \in Request, Finish(r), UNCHANGED <<directory, chat>>
  PROVE  IInv'
  BY DoneFacts, QuietMove DEF Finish, Running

(* Going on to another statement keeps the rest of the handler. *)
LEMMA GotoOnly ==
  ASSUME IInv, Record, NEW r \in Request, NEW pc \in Running, Goto(r, pc),
         UNCHANGED <<directory, chat>>, h[r].pc \in Running,
         HandlerFacts([h[r] EXCEPT !.pc = pc]),
         pc \in {"find", "insert"} =>
             \/ h[r].me.id \in SeedAdmins \/ h[r].peer \in SeedAdmins
             \/ h[r].peer \in during[r]
  PROVE  IInv'
<1> DEFINE x == [h[r] EXCEPT !.pc = pc]
<1>1. h[r] \in Handler
  BY DEF IInv
<1>2. x \in Handler /\ x.pc = pc /\ x.me = h[r].me /\ x.peer = h[r].peer
  BY <1>1 DEF Handler
<1>3. h' = [h EXCEPT ![r] = x]
  BY <1>1 DEF Goto, IInv
<1> HIDE DEF x
<1>4. HandlerFacts(x)
  BY DEF x
<1> QED  BY <1>2, <1>3, <1>4, QuietMove

(* What a handler gains when it passes authenticate. *)
LEMMA MeFacts ==
  ASSUME IInv, NEW u \in UserId, users[u].active
  PROVE  Me(u) \in Principal /\ CopyFacts(Me(u)) /\ Me(u).id = u /\ Me(u).role = users[u].role
<1>1. users[u] \in [role: Role, batch: Batch \cup {NoBatch}, active: BOOLEAN]
  BY DEF IInv, DirectoryInv, UserRow, NoRow
<1>2. Me(u) \in Principal /\ Me(u).id = u /\ Me(u).role = users[u].role /\ Me(u).batch = users[u].batch
  BY <1>1 DEF Me, Principal
<1>3. ASSUME users[u].role = "student", users[u].batch \in Batch
      PROVE  <<u, users[u].batch>> \in everInBatch
  <2>1. <<u, users[u].batch>> \in InBatch
    BY <1>3 DEF InBatch
  <2> QED  BY <2>1 DEF IInv, DirectoryInv
<1> QED  BY <1>2, <1>3 DEF CopyFacts, IInv, DirectoryInv

LEMMA AuthKeepsIInv ==
  ASSUME IInv, NEW r \in Request, NEW u \in UserId, NEW next \in Handler,
         Authenticate(r, u, next),
         users[u].active => \/ next = Done
                            \/ /\ HandlerTyped(next) /\ CarriesRow(next) /\ next.me = Me(u)
                               /\ next.pc \in Running \ {"send", "read", "insert"}
                               /\ next.pc = "find" => users[u].role = "admin"
  PROVE  IInv'
<1> USE DEF Authenticate
<1>1. CASE ~users[u].active \/ next = Done
  BY <1>1, FinishOnly DEF Finish
<1>2. CASE users[u].active /\ next # Done
  <2>1. /\ HandlerTyped(next) /\ CarriesRow(next) /\ next.me = Me(u)
        /\ next.pc \in Running \ {"send", "read", "insert"}
        /\ next.pc = "find" => users[u].role = "admin"
    BY <1>2
  <2>2. HandlerFacts(next)
    BY <1>2, <2>1, MeFacts DEF HandlerFacts
  <2>3. next.pc = "find" => next.me.id \in SeedAdmins
    BY <1>2, <2>1, MeFacts DEF CopyFacts
  <2>4. h[r].pc \notin Running /\ h' = [h EXCEPT ![r] = next] /\ Record
    BY <1>2 DEF Running
  <2> QED  BY <2>1, <2>2, <2>3, <2>4, QuietMove
<1> QED  BY <1>1, <1>2

(* At builds handlers. *)
LEMMA AtHandler ==
  ASSUME NEW pc \in Running, NEW me \in Principal, NEW peer \in UserId \cup {Nobody},
         NEW other \in UserId \cup {Nobody}, NEW c \in Conv \cup {NoConv}
  PROVE  /\ At(pc, me, peer, other, c) \in Handler
         /\ At(pc, me, peer, other, c).pc = pc
         /\ At(pc, me, peer, other, c).me = me
         /\ At(pc, me, peer, other, c).peer = peer
         /\ At(pc, me, peer, other, c).other = other
         /\ At(pc, me, peer, other, c).conv = c
  BY DEF At, Handler

-----------------------------------------------------------------------------
(* One lemma per route. *)

LEMMA StartKeepsIInv ==
  ASSUME IInv, NEW r \in Request, NEW u \in UserId,
         \/ \E text \in Text : OpenDm(r, u, text)
         \/ \E c \in convs : Send(r, u, c) \/ Read(r, u, c)
         \/ \E v \in UserId : CreateUser(r, u, v) \/ PatchUser(r, u, v) \/ DeactivateUser(r, u, v)
         \/ \E t, v \in UserId : AssignMapping(r, u, t, v) \/ RemoveMapping(r, u, t, v)
  PROVE  IInv'
<1>1. /\ users[u].active => Me(u) \in Principal
      /\ Nobody \in UserId \cup {Nobody} /\ NoConv \in Conv \cup {NoConv}
  BY MeFacts
<1>2. ASSUME NEW text \in Text, OpenDm(r, u, text)
      PROVE  IInv'
  <2> DEFINE pc == IF users[u].role = "admin" THEN "find" ELSE "peer"
             next == At(pc, Me(u), UserOf[text], Nobody, DmRow(u, text))
  <2>1. pc \in Running /\ (pc = "find" => users[u].role = "admin") /\ pc \in {"find", "peer"}
    BY DEF Running
  <2>2. CASE users[u].active
    <3>0. /\ UserOf[text] \in UserId /\ UserOf[text] \in UserId \cup {Nobody}
          /\ Me(u) \in Principal /\ Me(u).id = u
          /\ DmRow(u, text) \in Conv /\ DmRow(u, text) \in Conv \cup {NoConv}
      BY <1>1, <2>2, MeFacts, DmRowSorted
    <3> HIDE DEF pc
    <3>1. /\ next \in Handler /\ next.pc = pc /\ next.me = Me(u)
          /\ next.peer = UserOf[text] /\ next.conv = DmRow(u, text)
      BY <1>1, <2>1, <3>0, AtHandler
    <3>3. OpenDm(r, u, text) => Authenticate(r, u, IF u = text THEN Done ELSE next)
      BY DEF OpenDm, pc
    <3> HIDE DEF next
    <3>2. HandlerTyped(next) /\ CarriesRow(next)
      BY <2>1, <3>0, <3>1, DmRowSorted DEF HandlerTyped, CarriesRow
    <3>4. CASE u = text
      BY <1>2, <3>3, <3>4, AuthKeepsIInv, DoneFacts
    <3>5. CASE u # text
      BY <1>2, <2>1, <3>1, <3>2, <3>3, <3>5, AuthKeepsIInv
    <3> QED  BY <3>4, <3>5
  <2>3. CASE ~users[u].active
    BY <1>2, <2>3, FinishOnly DEF OpenDm, Authenticate
  <2> QED  BY <2>2, <2>3
<1>3. ASSUME NEW c \in convs, NEW pc \in {"sendSelect", "readSelect"},
             Authenticate(r, u, At(pc, Me(u), Nobody, Nobody, c))
      PROVE  IInv'
  <2>1. c \in Conv /\ pc \in Running
    BY DEF IInv, ChatInv, Running
  <2>2. CASE users[u].active
    <3> DEFINE next == At(pc, Me(u), Nobody, Nobody, c)
    <3>0. c \in Conv \cup {NoConv} /\ Me(u) \in Principal
      BY <1>1, <2>1, <2>2
    <3>1. next \in Handler /\ next.pc = pc /\ next.me = Me(u) /\ next.conv = c
      BY <1>1, <2>1, <3>0 DEF At, Handler
    <3>2. HandlerTyped(next) /\ CarriesRow(next)
      BY <1>1, <2>2, <3>1 DEF HandlerTyped, CarriesRow
    <3> HIDE DEF next
    <3> QED  BY <1>3, <2>1, <3>1, <3>2, AuthKeepsIInv DEF next
  <2>3. CASE ~users[u].active
    BY <1>3, <2>3, FinishOnly DEF Authenticate
  <2> QED  BY <2>2, <2>3
<1>4. ASSUME NEW pc \in {"create", "patch", "flag", "tutor", "unassign"},
             NEW x \in UserId, NEW y \in UserId \cup {Nobody},
             pc \in {"tutor", "unassign"} => y \in UserId,
             AdminAuth(r, u, At(pc, Me(u), x, y, NoConv))
      PROVE  IInv'
  <2>1. pc \in Running
    BY DEF Running
  <2>2. CASE users[u].active /\ users[u].role = "admin"
    <3> DEFINE next == At(pc, Me(u), x, y, NoConv)
    <3>1. next \in Handler /\ next.pc = pc /\ next.me = Me(u) /\ next.peer = x /\ next.other = y
      BY <1>1, <2>1, <2>2, AtHandler
    <3>2. HandlerTyped(next) /\ CarriesRow(next)
      BY <1>1, <1>4, <2>2, <3>1 DEF HandlerTyped, CarriesRow
    <3>3. Authenticate(r, u, next)
      BY <1>4, <2>2 DEF AdminAuth
    <3> HIDE DEF next
    <3> QED  BY <2>1, <3>1, <3>2, <3>3, AuthKeepsIInv
  <2>3. CASE ~users[u].active
    BY <1>4, <2>3, FinishOnly DEF AdminAuth, Authenticate
  <2>4. CASE users[u].active /\ users[u].role # "admin"
    BY <1>4, <2>4, FinishOnly DEF AdminAuth, Authenticate, Finish
  <2> QED  BY <2>2, <2>3, <2>4
<1>5. ASSUME NEW c \in convs, Send(r, u, c) \/ Read(r, u, c)
      PROVE  IInv'
  BY <1>3, <1>5 DEF Send, Read
<1>6. ASSUME NEW v \in UserId, CreateUser(r, u, v) \/ PatchUser(r, u, v) \/ DeactivateUser(r, u, v)
      PROVE  IInv'
  BY <1>4, <1>6 DEF CreateUser, PatchUser, DeactivateUser
<1>7. ASSUME NEW t \in UserId, NEW v \in UserId, AssignMapping(r, u, t, v) \/ RemoveMapping(r, u, t, v)
      PROVE  IInv'
  BY <1>4, <1>7 DEF AssignMapping, RemoveMapping
<1> QED  BY <1>2, <1>5, <1>6, <1>7

LEMMA OpenKeepsIInv ==
  ASSUME IInv, NEW r \in Request,
         OpenPeer(r) \/ OpenMap(r) \/ OpenFind(r) \/ OpenInsert(r)
  PROVE  IInv'
<1>0. /\ h[r] \in Handler /\ HandlerFacts(h[r]) /\ GrantFacts(h[r], during[r])
  BY DEF IInv, HandlerInv
<1>1. ASSUME NEW pc \in {"map", "find", "insert"},
             h[r].pc \in {"peer", "map", "find"}
      PROVE  /\ HandlerFacts([h[r] EXCEPT !.pc = pc])
             /\ h[r].pc \in Running /\ pc \in Running /\ h[r].peer \in UserId
  <2> DEFINE x == [h[r] EXCEPT !.pc = pc]
  <2>1. x.pc = pc /\ x.me = h[r].me /\ x.peer = h[r].peer /\ x.conv = h[r].conv
    BY <1>0 DEF Handler
  <2> HIDE DEF x
  <2>2. HandlerFacts(x)
    BY <1>0, <1>1, <2>1 DEF HandlerFacts, HandlerTyped, CarriesRow, Running
  <2> QED  BY <1>0, <1>1, <2>2 DEF x, HandlerFacts, HandlerTyped, Running
<1>2. CASE OpenPeer(r)
  <2>1. CASE Goto(r, "find") /\ users[h[r].peer].role = "admin"
    <3>1. h[r].peer \in SeedAdmins
      BY <1>1, <1>2, <2>1 DEF OpenPeer, IInv, DirectoryInv
    <3> QED  BY <1>1, <1>2, <2>1, <3>1, GotoOnly DEF OpenPeer
  <2>2. CASE Goto(r, "map")
    BY <1>1, <1>2, <2>2, GotoOnly DEF OpenPeer
  <2>3. CASE Finish(r)
    BY <1>2, <2>3, FinishOnly DEF OpenPeer
  <2> QED  BY <1>2, <2>1, <2>2, <2>3 DEF OpenPeer
<1>3. CASE OpenMap(r)
  <2>1. CASE MappedNow(h[r].me, h[r].peer)
    <3>1. h[r].peer \in MappedWith(h[r].me.id, mappings)
      BY <1>1, <1>3, <2>1 DEF OpenMap, MappedNow, AreMapped, MappedWith
    <3>2. h[r].peer \in during[r]
      BY <1>0, <1>1, <1>3, <3>1 DEF OpenMap, GrantFacts
    <3> QED  BY <1>1, <1>3, <2>1, <3>2, GotoOnly DEF OpenMap
  <2>2. CASE ~MappedNow(h[r].me, h[r].peer)
    BY <1>3, <2>2, FinishOnly DEF OpenMap
  <2> QED  BY <2>1, <2>2
<1>4. CASE OpenFind(r)
  <2>1. CASE Finish(r)
    BY <1>4, <2>1, FinishOnly DEF OpenFind
  <2>2. CASE Goto(r, "insert")
    BY <1>0, <1>1, <1>4, <2>2, GotoOnly DEF OpenFind, GrantFacts
  <2> QED  BY <1>4, <2>1, <2>2 DEF OpenFind
<1>5. CASE OpenInsert(r)
  <2> DEFINE me == h[r].me.id
             peer == h[r].peer
             row == h[r].conv
  <2>1. me \in UserId /\ peer \in UserId /\ h[r].pc \in Running
    BY <1>0, <1>5 DEF OpenInsert, HandlerFacts, HandlerTyped, Running, Principal
  <2>2. /\ HandlerInv' /\ DirectoryInv' /\ during' \in [Request -> SUBSET UserId]
        /\ h' \in [Request -> Handler]
        /\ everMapped \subseteq everMapped' /\ everInBatch \subseteq everInBatch'
    BY <1>5, LastMove DEF OpenInsert, directory, IInv, DirectoryInv
  <2>3. me \in SeedAdmins \/ peer \in SeedAdmins
        \/ <<me, peer>> \in everMapped \/ <<peer, me>> \in everMapped
    BY <1>0, <1>5, <2>1 DEF OpenInsert, GrantFacts, MappedWith
  <2>4. row \in Conv /\ TextsSorted(row) /\ RowOf(row, me, peer)
    BY <1>0, <1>5 DEF OpenInsert, HandlerFacts, HandlerTyped, CarriesRow
  <2>5. convs' = convs \/ convs' = convs \cup {row}
    BY <1>5 DEF OpenInsert
  <2> HIDE DEF row, me, peer
  <2>6. DmTied'
    BY <2>2, <2>3, <2>4, <2>5 DEF IInv, ChatInv, DmTied, RowOf, SeedAdmins
  <2>7. \A u \in UserId, c \in Conv : MayRead(u, c) => MayRead(u, c)'
    BY <2>2 DEF MayRead, SeedAdmins
  <2>8. messages' = messages /\ seen' = seen
        /\ (\A m \in messages : m.sender \in UserId /\ m.conv \in Conv)
    BY <1>5 DEF OpenInsert, IInv, ChatInv
  <2>9. ChatInv'
    BY <2>4, <2>5, <2>6, <2>7, <2>8 DEF IInv, ChatInv, OnlyMembersPost, TextsSorted
  <2> QED  BY <2>2, <2>9 DEF IInv
<1> QED  BY <1>2, <1>3, <1>4, <1>5

LEMMA ChatKeepsIInv ==
  ASSUME IInv, NEW r \in Request,
         \/ SendSelect(r) \/ SendTeach(r) \/ SendInsert(r)
         \/ ReadSelect(r) \/ ReadTeach(r) \/ ReadRows(r)
  PROVE  IInv'
<1> DEFINE me == h[r].me
           c  == h[r].conv
<1>0. /\ h[r] \in Handler /\ HandlerFacts(h[r]) /\ convs \subseteq Conv
      /\ DirectoryInv
  BY DEF IInv, HandlerInv, ChatInv
<1>1. ASSUME h[r].pc \in {"sendSelect", "sendTeach", "send", "readSelect", "readTeach", "read"}
      PROVE  /\ h[r].pc \in Running /\ me \in Principal /\ me.id \in UserId
             /\ me.role \in Role /\ CopyFacts(me) /\ c \in convs /\ c \in Conv
  BY <1>0, <1>1 DEF HandlerFacts, HandlerTyped, Running, Principal
<1>2. ASSUME NEW pc \in {"send", "read", "sendTeach", "readTeach"}, Goto(r, pc), Record,
             UNCHANGED <<directory, chat>>,
             h[r].pc \in {"sendSelect", "sendTeach", "readSelect", "readTeach"},
             pc \in {"sendTeach", "readTeach"} => c.kind = "batch",
             pc \in {"send", "read"} => MayRead(me.id, c),
             (pc = "send" /\ c.kind = "dm") => IsMember(me.id, c)
      PROVE  IInv'
  <2> DEFINE x == [h[r] EXCEPT !.pc = pc]
  <2>1. x.pc = pc /\ x.me = me /\ x.conv = c
    BY <1>0 DEF Handler
  <2> HIDE DEF x, me, c
  <2>2. HandlerFacts(x)
    BY <1>1, <1>2, <2>1 DEF HandlerFacts, HandlerTyped, CarriesRow
  <2>3. pc \in Running
    BY DEF Running
  <2> QED  BY <1>1, <1>2, <2>2, <2>3, GotoOnly DEF x
<1>3. ASSUME h[r].pc \in {"sendSelect", "readSelect"}, Admitted(me, c)
      PROVE  MayRead(me.id, c)
  BY <1>1, <1>3, ConvCases DEF Admitted, MayRead, CopyFacts
<1>4. ASSUME h[r].pc \in {"sendSelect", "readSelect"}, me.role = "admin"
      PROVE  MayRead(me.id, c)
  BY <1>1, <1>4 DEF MayRead, CopyFacts
<1>5. ASSUME h[r].pc \in {"sendTeach", "readTeach"}, Teaches(me.id, c.batch)
      PROVE  MayRead(me.id, c) /\ c.kind = "batch"
  <2>1. c.kind = "batch"
    BY <1>0, <1>5 DEF HandlerFacts, HandlerTyped
  <2>2. c.batch \in Batch
    BY <1>1, <1>5, <2>1, ConvCases
  <2>3. <<me.id, c.batch>> \in InBatch
    BY <1>1, <1>5, <2>2 DEF InBatch
  <2> QED  BY <1>0, <2>1, <2>3 DEF MayRead, DirectoryInv
<1>6. CASE SendSelect(r)
  <2>1. CASE me.role = "admin" /\ ~MonitorOnly(me, c) /\ Goto(r, "send")
    BY <1>2, <1>4, <1>6, <2>1 DEF SendSelect, MonitorOnly
  <2>2. CASE me.role # "admin" /\ Admitted(me, c) /\ Goto(r, "send")
    <3>1. c.kind = "dm" => IsMember(me.id, c)
      BY <2>2 DEF Admitted
    <3> QED  BY <1>2, <1>3, <1>6, <2>2, <3>1 DEF SendSelect
  <2>3. CASE AsksMappings(me, c) /\ Goto(r, "sendTeach")
    BY <1>2, <1>6, <2>3 DEF SendSelect, AsksMappings
  <2>4. CASE Finish(r)
    BY <1>6, <2>4, FinishOnly DEF SendSelect
  <2> QED  BY <1>6, <2>1, <2>2, <2>3, <2>4 DEF SendSelect
<1>7. CASE ReadSelect(r)
  <2>1. CASE (me.role = "admin" \/ Admitted(me, c)) /\ Goto(r, "read")
    BY <1>2, <1>3, <1>4, <1>7, <2>1 DEF ReadSelect
  <2>2. CASE AsksMappings(me, c) /\ Goto(r, "readTeach")
    BY <1>2, <1>7, <2>2 DEF ReadSelect, AsksMappings
  <2>3. CASE Finish(r)
    BY <1>7, <2>3, FinishOnly DEF ReadSelect
  <2> QED  BY <1>7, <2>1, <2>2, <2>3 DEF ReadSelect
<1>8. CASE SendTeach(r) \/ ReadTeach(r)
  <2>1. CASE Teaches(me.id, c.batch)
    BY <1>2, <1>5, <1>8, <2>1 DEF SendTeach, ReadTeach, TeachQuery
  <2>2. CASE ~Teaches(me.id, c.batch)
    BY <1>8, <2>2, FinishOnly DEF SendTeach, ReadTeach, TeachQuery
  <2> QED  BY <2>1, <2>2
<1>9. ASSUME Finish(r), Record, UNCHANGED <<directory, convs>>
      PROVE  /\ HandlerInv' /\ DirectoryInv' /\ during' \in [Request -> SUBSET UserId]
             /\ h' \in [Request -> Handler]
             /\ \A u \in UserId, d \in Conv : MayRead(u, d) => MayRead(u, d)'
             /\ DmTied'
  <2>1. /\ HandlerInv' /\ DirectoryInv' /\ during' \in [Request -> SUBSET UserId]
        /\ h' \in [Request -> Handler]
        /\ everMapped \subseteq everMapped' /\ everInBatch \subseteq everInBatch'
    BY <1>9, LastMove DEF directory, IInv, DirectoryInv
  <2>2. DmTied'
    BY <1>9, <2>1 DEF IInv, ChatInv, DmTied, SeedAdmins
  <2> QED  BY <2>1, <2>2 DEF MayRead, SeedAdmins
<1>10. CASE SendInsert(r)
  <2> DEFINE m == [conv |-> c, sender |-> me.id]
  <2>1. messages' = messages \cup {m} /\ convs' = convs /\ seen' = seen
    BY <1>10 DEF SendInsert
  <2>2. /\ m \in [conv: Conv, sender: UserId] /\ m.conv = c /\ m.sender = me.id
        /\ MayRead(me.id, c) /\ (c.kind = "dm" => IsMember(me.id, c))
    BY <1>0, <1>1, <1>10 DEF SendInsert, HandlerFacts
  <2>3. /\ HandlerInv' /\ DirectoryInv' /\ during' \in [Request -> SUBSET UserId]
        /\ h' \in [Request -> Handler]
        /\ \A u \in UserId, d \in Conv : MayRead(u, d) => MayRead(u, d)'
        /\ DmTied'
    BY <1>9, <1>10 DEF SendInsert
  <2>4. \A k \in messages : k.sender \in UserId /\ k.conv \in Conv
    BY DEF IInv, ChatInv
  <2> HIDE DEF m, me, c
  <2>5. (\A k \in messages' : MayRead(k.sender, k.conv)') /\ OnlyMembersPost'
    BY <1>1, <1>10, <2>1, <2>2, <2>3, <2>4 DEF IInv, ChatInv, OnlyMembersPost, SendInsert
  <2>6. ChatInv'
    BY <2>1, <2>2, <2>3, <2>5 DEF IInv, ChatInv, TextsSorted
  <2> QED  BY <2>3, <2>6 DEF IInv
<1>11. CASE ReadRows(r)
  <2>1. seen' = seen \cup {<<me.id, c>>} /\ convs' = convs /\ messages' = messages
    BY <1>11 DEF ReadRows
  <2>2. me.id \in UserId /\ c \in Conv /\ MayRead(me.id, c)
    BY <1>0, <1>1, <1>11 DEF ReadRows, HandlerFacts
  <2>3. /\ HandlerInv' /\ DirectoryInv' /\ during' \in [Request -> SUBSET UserId]
        /\ h' \in [Request -> Handler]
        /\ \A u \in UserId, d \in Conv : MayRead(u, d) => MayRead(u, d)'
        /\ DmTied'
    BY <1>9, <1>11 DEF ReadRows
  <2>4. \A k \in messages : k.sender \in UserId /\ k.conv \in Conv
    BY DEF IInv, ChatInv
  <2> HIDE DEF me, c
  <2>5. /\ \A u \in UserId, d \in Conv : <<u, d>> \in seen' => MayRead(u, d)'
        /\ \A k \in messages' : MayRead(k.sender, k.conv)'
        /\ seen' \subseteq UserId \X Conv
    <3>1. ASSUME NEW u \in UserId, NEW d \in Conv, <<u, d>> \in seen'
          PROVE  MayRead(u, d)
      BY <2>1, <2>2, <3>1 DEF IInv, ChatInv
    <3>2. \A k \in messages' : MayRead(k.sender, k.conv)'
      BY <2>1, <2>3, <2>4 DEF IInv, ChatInv
    <3>3. seen' \subseteq UserId \X Conv
      BY <2>1, <2>2 DEF IInv, ChatInv
    <3> QED  BY <2>3, <3>1, <3>2, <3>3
  <2>6. ChatInv'
    BY <2>1, <2>3, <2>5 DEF IInv, ChatInv, OnlyMembersPost, TextsSorted
  <2> QED  BY <2>3, <2>6 DEF IInv
<1> QED  BY <1>6, <1>7, <1>8, <1>10, <1>11

LEMMA AdminKeepsIInv ==
  ASSUME IInv, NEW r \in Request,
         \/ CreateInsert(r) \/ PatchUpdate(r) \/ ClearFlag(r)
         \/ SelectTutor(r) \/ SelectStudent(r) \/ AssignInsert(r) \/ RemoveDelete(r)
  PROVE  IInv'
<1>0. /\ h[r] \in Handler /\ HandlerFacts(h[r]) /\ DirectoryInv
  BY DEF IInv, HandlerInv
<1>1. /\ h[r].pc \in {"create", "patch", "flag"} => h[r].peer \in UserId
      /\ h[r].pc \in {"tutor", "student", "assign", "unassign"} =>
             h[r].peer \in UserId /\ h[r].other \in UserId
  BY <1>0 DEF HandlerFacts, HandlerTyped
<1>2. ASSUME Finish(r), Record, UNCHANGED chat,
             users' \in [UserId -> UserRow], mappings' \subseteq UserId \X UserId,
             \A u \in UserId : users'[u].role = "admin" => u \in SeedAdmins
      PROVE  IInv'
  BY <1>2, LastMove, ChatStable DEF IInv, chat
<1>3. ASSUME NEW pc \in {"student", "assign"}, Goto(r, pc), Record,
             UNCHANGED <<directory, chat>>, h[r].pc \in {"tutor", "student"}
      PROVE  IInv'
  <2> DEFINE x == [h[r] EXCEPT !.pc = pc]
  <2>1. x.pc = pc /\ x.me = h[r].me /\ x.peer = h[r].peer /\ x.other = h[r].other
    BY <1>0 DEF Handler
  <2> HIDE DEF x
  <2>2. HandlerFacts(x) /\ h[r].pc \in Running /\ pc \in Running
    BY <1>0, <1>1, <1>3, <2>1 DEF HandlerFacts, HandlerTyped, CarriesRow, Running
  <2> QED  BY <1>3, <2>2, GotoOnly DEF x
<1>4. CASE CreateInsert(r)
  <2>1. CASE users' = users
    BY <1>0, <1>2, <1>4, <2>1 DEF CreateInsert, DirectoryInv
  <2>2. CASE users' # users
    <3>1. PICK role \in {"tutor", "student"}, b \in Batch \cup {NoBatch} :
             users' = [users EXCEPT ![h[r].peer] =
                           [role |-> role, batch |-> b, active |-> TRUE]]
      BY <1>4, <2>2 DEF CreateInsert
    <3>2. [role |-> role, batch |-> b, active |-> TRUE] \in UserRow
      BY DEF UserRow, Role
    <3>3. /\ users' \in [UserId -> UserRow]
          /\ \A u \in UserId : users'[u].role = "admin" => u \in SeedAdmins
      BY <1>0, <3>1, <3>2 DEF DirectoryInv
    <3> QED  BY <1>0, <1>2, <1>4, <3>3 DEF CreateInsert, DirectoryInv
  <2> QED  BY <2>1, <2>2
<1>5. CASE PatchUpdate(r)
  <2> DEFINE u == h[r].peer
  <2>1. CASE users' = users
    BY <1>0, <1>2, <1>5, <2>1 DEF PatchUpdate, DirectoryInv
  <2>2. CASE users' # users
    <3>1. PICK role \in {"tutor", "student", users[u].role}, b \in Batch \cup {NoBatch} :
             users' = [users EXCEPT ![u].role = role, ![u].batch = b]
      BY <1>5, <2>2 DEF PatchUpdate
    <3>2. users[u] # NoRow /\ u \in UserId
      BY <1>1, <1>5, <2>2 DEF PatchUpdate
    <3>3. users[u] \in [role: Role, batch: Batch \cup {NoBatch}, active: BOOLEAN]
      BY <1>0, <3>2 DEF DirectoryInv, UserRow
    <3> DEFINE row == [users[u] EXCEPT !.role = role, !.batch = b]
    <3>4. row \in UserRow /\ row.role = role
      BY <3>3 DEF UserRow, Role
    <3>5. users' = [users EXCEPT ![u] = row]
      BY <1>0, <3>1, <3>2 DEF DirectoryInv
    <3> HIDE DEF row, u
    <3>6. /\ users' \in [UserId -> UserRow]
          /\ \A v \in UserId : users'[v].role = "admin" => v \in SeedAdmins
      BY <1>0, <3>2, <3>4, <3>5 DEF DirectoryInv
    <3> QED  BY <1>0, <1>2, <1>5, <3>6 DEF PatchUpdate, DirectoryInv
  <2> QED  BY <2>1, <2>2
<1>6. CASE ClearFlag(r)
  <2> DEFINE u == h[r].peer
             row == [users[u] EXCEPT !.active = FALSE]
  <2>1. u \in UserId /\ users[u] \in UserRow
    BY <1>0, <1>1, <1>6 DEF ClearFlag, DirectoryInv
  <2>2. users[u] # NoRow => row \in UserRow /\ row.role = users[u].role
    BY <2>1 DEF UserRow
  <2>3. users' = users \/ (users[u] # NoRow /\ users' = [users EXCEPT ![u] = row])
    BY <1>0, <1>6, <2>1 DEF ClearFlag, DirectoryInv
  <2> HIDE DEF row, u
  <2>4. /\ users' \in [UserId -> UserRow]
        /\ \A v \in UserId : users'[v].role = "admin" => v \in SeedAdmins
    BY <1>0, <2>1, <2>2, <2>3 DEF DirectoryInv
  <2> QED  BY <1>0, <1>2, <1>6, <2>4 DEF ClearFlag, DirectoryInv
<1>7. CASE SelectTutor(r) \/ SelectStudent(r)
  <2>1. CASE Finish(r)
    BY <1>7, <2>1, FinishOnly DEF SelectTutor, SelectStudent
  <2>2. CASE ~Finish(r)
    BY <1>3, <1>7, <2>2 DEF SelectTutor, SelectStudent
  <2> QED  BY <2>1, <2>2
<1>8. CASE AssignInsert(r)
  <2>1. mappings' \subseteq UserId \X UserId /\ users' = users
    BY <1>0, <1>1, <1>8 DEF AssignInsert, DirectoryInv
  <2> QED  BY <1>0, <1>2, <1>8, <2>1 DEF AssignInsert, DirectoryInv
<1>9. CASE RemoveDelete(r)
  <2>1. /\ users' = users /\ mappings' \subseteq mappings /\ UNCHANGED chat /\ Record
        /\ h' \in [Request -> Handler]
        /\ \A q \in Request : h'[q] = Done \/ h'[q] = h[q]
    BY <1>9, DoneFacts DEF RemoveDelete, IInv
  <2>2. /\ DirectoryInv' /\ everMapped \subseteq everMapped'
        /\ everInBatch \subseteq everInBatch' /\ during' \in [Request -> SUBSET UserId]
    BY <1>0, <2>1, RecordTyped DEF DirectoryInv
  <2>3. ASSUME NEW q \in Request
        PROVE  h'[q] \in Handler /\ HandlerFacts(h[q])' /\ GrantFacts(h[q], during[q])'
    <3>1. h[q] \in Handler /\ HandlerFacts(h[q]) /\ GrantFacts(h[q], during[q])
      BY DEF IInv, HandlerInv
    <3>2. h'[q] \in Handler /\ HandlerFacts(h[q])'
      BY <2>1, <2>2, <3>1, DoneFacts, FactsStable DEF chat
    <3>3. during'[q] = IF h'[q].pc \in Running
                       THEN during[q] \cup MappedWith(h'[q].me.id, mappings') ELSE {}
      BY <2>1 DEF Record
    <3>4. CASE h'[q] = Done
      BY <3>2, <3>3, <3>4, DoneFacts DEF GrantFacts, Running
    <3>5. CASE h'[q] = h[q]
      <4>1. MappedWith(h[q].me.id, mappings') \subseteq MappedWith(h[q].me.id, everMapped')
        BY <2>2 DEF DirectoryInv, MappedWith
      <4>2. MappedWith(h[q].me.id, everMapped) \subseteq MappedWith(h[q].me.id, everMapped')
        BY <2>2 DEF MappedWith
      <4>3. CASE h[q].pc \in Running
        BY <3>1, <3>2, <3>3, <3>5, <4>1, <4>2, <4>3 DEF GrantFacts, SeedAdmins
      <4>4. CASE h[q].pc \notin Running
        BY <3>1, <3>2, <3>3, <3>5, <4>4 DEF GrantFacts, SeedAdmins, Running
      <4> QED  BY <4>3, <4>4
    <3> QED  BY <2>1, <3>2, <3>4, <3>5
  <2> QED  BY <2>1, <2>2, <2>3, ChatStable DEF IInv, HandlerInv
<1> QED  BY <1>4, <1>5, <1>6, <1>7, <1>8, <1>9

LEMMA StepIInv == IInv /\ [Next]_vars => IInv'
<1> SUFFICES ASSUME IInv, [Next]_vars
             PROVE  IInv'
  OBVIOUS
<1>1. CASE UNCHANGED vars
  <2>1. DirectoryInv'
    BY <1>1 DEF IInv, DirectoryInv, InBatch, Teaches, StudentsOf, AreMapped, SeedAdmins, vars, history
  <2>2. HandlerInv'
    BY <1>1 DEF IInv, HandlerInv, HandlerFacts, HandlerTyped, CarriesRow, RowOf, TextsSorted,
       CopyFacts, MayRead, GrantFacts, SeedAdmins, vars, history
  <2>3. ChatInv'
    BY <1>1, ChatStable DEF IInv, vars, history, chat
  <2> QED  BY <1>1, <2>1, <2>2, <2>3 DEF IInv, vars, history
<1>2. ASSUME NEW b \in Batch, EnsureBatchChannel(b)
      PROVE  IInv'
  <2> DEFINE row == [kind |-> "batch", batch |-> b]
  <2>1. row \in Conv /\ row.kind = "batch"
    BY DEF Conv
  <2>2. /\ convs' = convs \cup {row} /\ users' = users /\ mappings' = mappings
        /\ messages' = messages /\ seen' = seen /\ h' = h /\ Record
    BY <1>2 DEF EnsureBatchChannel, directory
  <2> HIDE DEF row
  <2>3. /\ DirectoryInv' /\ everMapped \subseteq everMapped'
        /\ everInBatch \subseteq everInBatch' /\ during' \in [Request -> SUBSET UserId]
    BY <2>2, RecordTyped DEF IInv, DirectoryInv
  <2>4. ASSUME NEW q \in Request
        PROVE  h[q]' \in Handler /\ HandlerFacts(h[q])' /\ GrantFacts(h[q], during[q])'
    <3>1. h[q] \in Handler /\ HandlerFacts(h[q]) /\ GrantFacts(h[q], during[q])
      BY DEF IInv, HandlerInv
    <3>2. HandlerFacts(h[q])'
      BY <2>2, <2>3, <3>1, FactsStable
    <3>3. during'[q] = IF h[q].pc \in Running
                       THEN during[q] \cup MappedWith(h[q].me.id, mappings) ELSE {}
      BY <2>2 DEF Record
    <3>4. MappedWith(h[q].me.id, everMapped) \subseteq MappedWith(h[q].me.id, everMapped')
      BY <2>3 DEF MappedWith
    <3> QED  BY <2>2, <3>1, <3>2, <3>3, <3>4 DEF GrantFacts, SeedAdmins, Running
  <2>5. ChatInv'
    <3>1. \A u \in UserId, d \in Conv : MayRead(u, d) => MayRead(u, d)'
      BY <2>3 DEF MayRead, SeedAdmins
    <3>2. \A k \in messages : k.sender \in UserId /\ k.conv \in Conv
      BY DEF IInv, ChatInv
    <3>3. DmTied'
      BY <2>1, <2>2, <2>3 DEF IInv, ChatInv, DmTied, SeedAdmins
    <3> QED  BY <2>1, <2>2, <3>1, <3>2, <3>3 DEF IInv, ChatInv, OnlyMembersPost, TextsSorted
  <2> QED  BY <2>2, <2>3, <2>4, <2>5 DEF IInv, HandlerInv
<1>3. ASSUME NEW r \in Request, Fail(r)
      PROVE  IInv'
  BY <1>3, FinishOnly DEF Fail
<1>4. ASSUME NEW r \in Request, OpenSteps(r) \/ ChatSteps(r) \/ AdminSteps(r)
      PROVE  IInv'
  BY <1>4, StartKeepsIInv, OpenKeepsIInv, ChatKeepsIInv, AdminKeepsIInv
     DEF OpenSteps, ChatSteps, AdminSteps
<1> QED  BY <1>1, <1>2, <1>3, <1>4 DEF Next

(* The inductive invariant holds in every reachable state. *)
LEMMA InductiveInvariant == Spec => []IInv
  BY InitIInv, StepIInv, PTL DEF Spec

-----------------------------------------------------------------------------
(* Types, and what every running handler knows. *)
THEOREM TypeCorrect == Spec => []TypeOK
  BY InductiveInvariant, IInvImplies, PTL

(* getOrCreateDm: one row per pair of users, whoever creates it first; and  *)
(* a second one only for a pair whose ids have a spelling that sorts apart. *)
THEOREM SecondDm == Spec => []SecondDmIsRespelt
  BY InductiveInvariant, IInvImplies, PTL

(* As long as clients name users by the ids the server hands out, as the    *)
(* page of this repository does, schema.sql is right: one row per pair.     *)
THEOREM OneDm == Text = UserId => (Spec => []OneDmPerPair)
<1> SUFFICES ASSUME Text = UserId PROVE Spec => []OneDmPerPair
  OBVIOUS
<1>1. \A u, v \in UserId : ~SortsApart(u, v)
  BY DEF SortsApart
<1>2. IInv => OneDmPerPair
  <2> SUFFICES ASSUME IInv, NEW c \in convs, NEW d \in convs, SamePair(c, d), c # d
               PROVE  FALSE
    BY DEF OneDmPerPair
  <2>1. SortsApart(c.a, c.b)
    BY IInvImplies DEF SecondDmIsRespelt
  <2>2. c.a \in UserId /\ c.b \in UserId
    BY ConvCases DEF IInv, ChatInv, SamePair
  <2> QED  BY <1>1, <2>1, <2>2
<1> QED  BY <1>2, InductiveInvariant, PTL

(* POST /messages/dm/:peerId: a request only gets to the conversation row   *)
(* if its two users were mapped while it ran, or one of them is an admin.   *)
THEOREM OpenGranted == Spec => []OpenWithinGrant
  BY InductiveInvariant, IInvImplies, PTL

(* Every DM there is goes back to a mapping or an admin. *)
THEOREM DmOrigin == Spec => []DmTied
  BY InductiveInvariant, IInvImplies, PTL

(* POST .../messages: no message of a DM is by anybody but its members.     *)
THEOREM PostersAreMembers == Spec => []OnlyMembersPost
  BY InductiveInvariant, IInvImplies, PTL

(* GET .../messages: nobody but members and admins is sent a DM.            *)
THEOREM ReadersAreMembers == Spec => []OnlyMembersRead
  BY InductiveInvariant, IInvImplies, PTL

(* Batch channels: posters and readers have belonged to the batch.          *)
THEOREM BatchOrigin == Spec => []BatchTied
  BY InductiveInvariant, IInvImplies, PTL

(* Posting and reading together: a DM is a matter of its members.           *)
THEOREM MembersCorrect == Spec => []MembersOnly
  BY PostersAreMembers, ReadersAreMembers, PTL DEF MembersOnly

(* Every DM and every batch channel goes back to what an admin set up.      *)
THEOREM TiedCorrect == Spec => []EveryChatTied
  BY DmOrigin, BatchOrigin, PTL DEF EveryChatTied

(* canCommunicate: between two active accounts either both may start a chat *)
(* or a call, or neither, whatever PATCH has made of their roles.           *)
THEOREM MutualCorrect == Spec => []CommunicationIsMutual
<1>1. IInv => CommunicationIsMutual
  BY MutualAlways DEF IInv, DirectoryInv
<1> QED  BY <1>1, InductiveInvariant, PTL

(* peersOf: whoever canCommunicate admits is in the contact list.           *)
THEOREM ContactsCorrect == Spec => []ReachableIsContact
<1>1. IInv => ReachableIsContact
  BY ContactsComplete DEF IInv, DirectoryInv
<1> QED  BY <1>1, InductiveInvariant, PTL

(* GET /messages/conversations: what a student or an admin is listed is     *)
(* what canAccessConversation opens.                                        *)
THEOREM ListCorrect == Spec => []ListMatchesAccess
<1>1. IInv => ListMatchesAccess
  BY ListAlways DEF IInv, DirectoryInv
<1> QED  BY <1>1, InductiveInvariant, PTL

(* Contacts and conversations: neither list hides what may be used.         *)
THEOREM ListsCorrect == Spec => []ListsAgree
  BY ContactsCorrect, ListCorrect, PTL DEF ListsAgree

-----------------------------------------------------------------------------
(* Messaging implements Channels.  A handler that moves without writing a    *)
(* table is a Lapse, or a Grant if it gains a permit; the statement that     *)
(* writes uses the permit; the admin's statements only reassign rights.      *)

LEMMA PermitsNext ==
  permits' = {PermitOf(h'[r]) : r \in {q \in Request : Holds(h'[q])}}
  BY DEF permits, PermitOf, Holds, Opens, Posts, Reads, Admitted, MonitorOnly, IsMember, ChannelOf

LEMMA PermitsMove ==
  ASSUME NEW r \in Request, NEW x, \A q \in Request : h'[q] = IF q = r THEN x ELSE h[q]
  PROVE  /\ permits' \subseteq permits \cup {PermitOf(x)}
         /\ permits \subseteq permits' \cup {PermitOf(h[r])}
         /\ Holds(x) => PermitOf(x) \in permits'
         /\ Holds(h[r]) => PermitOf(h[r]) \in permits
         /\ ~Holds(x) => permits' \subseteq permits
         /\ ~Holds(h[r]) => permits \subseteq permits'
<1> DEFINE next == {PermitOf(h'[q]) : q \in {p \in Request : Holds(h'[p])}}
<1>1. permits' = next
  BY PermitsNext
<1>2. ASSUME NEW q \in Request, q # r
      PROVE  h'[q] = h[q]
  BY <1>2
<1>3. h'[r] = x
  OBVIOUS
<1>4. ASSUME NEW p \in next
      PROVE  p \in permits \/ (Holds(x) /\ p = PermitOf(x))
  BY <1>2, <1>3 DEF permits
<1>5. ASSUME NEW p \in permits
      PROVE  p \in next \/ (Holds(h[r]) /\ p = PermitOf(h[r]))
  BY <1>2, <1>3 DEF permits
<1>6. /\ Holds(x) => PermitOf(x) \in next
      /\ Holds(h[r]) => PermitOf(h[r]) \in permits
  BY <1>3 DEF permits
<1> HIDE DEF next
<1> QED  BY <1>1, <1>4, <1>5, <1>6

(* Who is to be named by a permit of x. *)
Named(x) ==
    /\ Holds(x) => x.me.id \in UserId
    /\ Opens(x) => x.peer \in UserId
    /\ (Posts(x) \/ Reads(x)) => x.conv \in convs

LEMMA PermitIs ==
  ASSUME NEW x
  PROVE  /\ Opens(x) => PermitOf(x) =
                Promise!Permit("open", x.me.id, Promise!Private({x.me.id, x.peer}))
         /\ Posts(x) => PermitOf(x) = Promise!Permit("post", x.me.id, ChannelOf(x.conv))
         /\ Reads(x) => PermitOf(x) = Promise!Permit("read", x.me.id, ChannelOf(x.conv))
<1>1. /\ Opens(x) => ~Posts(x) /\ ~Reads(x)
      /\ Posts(x) => ~Reads(x)
  BY DEF Opens, Posts, Reads
<1> QED  BY <1>1 DEF PermitOf, Promise!Permit, Promise!Private

LEMMA PairIs ==
  ASSUME NEW u \in UserId, NEW v \in UserId
  PROVE  {u, v} \in Promise!Pair
<1>1. PICK p : p = {u, v}
  OBVIOUS
<1>2. \E x, y \in UserId : p = {x, y}
  BY <1>1
<1> HIDE <1>1
<1>3. p \in {{x, y} : x, y \in UserId}
  BY <1>2, SMT
<1> QED  BY <1>1, <1>3 DEF Promise!Pair

LEMMA ChannelsAre ==
  ASSUME NEW c \in convs
  PROVE  ChannelOf(c) \in channels
  BY DEF channels

LEMMA PermitLapses ==
  ASSUME UNCHANGED <<directory, chat>>, permits' \subseteq permits
  PROVE  Promise!Next
<1>1. mappedPairs' = mappedPairs /\ InBatch' = InBatch /\ ActiveAdmins' = ActiveAdmins
  BY DEF directory, mappedPairs, InBatch, ActiveAdmins, Teaches, StudentsOf, AreMapped
<1>2. channels' = channels /\ posted' = posted /\ shown' = shown
  BY DEF chat, channels, posted, shown, ChannelOf
<1> QED  BY <1>1, <1>2 DEF Promise!Next, Promise!Lapse

LEMMA PermitGiven ==
  ASSUME UNCHANGED <<directory, chat>>, NEW x, Holds(x), Named(x),
         Promise!Entitled(PermitOf(x)), permits' = permits \cup {PermitOf(x)}
  PROVE  Promise!Next
<1>1. mappedPairs' = mappedPairs /\ InBatch' = InBatch /\ ActiveAdmins' = ActiveAdmins
  BY DEF directory, mappedPairs, InBatch, ActiveAdmins, Teaches, StudentsOf, AreMapped
<1>2. channels' = channels /\ posted' = posted /\ shown' = shown
  BY DEF chat, channels, posted, shown, ChannelOf
<1>3. Promise!Grant(PermitOf(x))
  BY <1>1, <1>2 DEF Promise!Grant
<1>4. CASE Opens(x)
  <2>1. {x.me.id, x.peer} \in Promise!Pair
    <3>1. x.me.id \in UserId /\ x.peer \in UserId
      BY <1>4 DEF Named, Holds
    <3> QED  BY <3>1, PairIs
  <2>2. PermitOf(x) = Promise!Permit("open", x.me.id, Promise!Private({x.me.id, x.peer}))
    BY <1>4, PermitIs
  <2> QED  BY <1>3, <2>1, <2>2 DEF Named, Promise!Next
<1>5. CASE Posts(x)
  <2>1. PermitOf(x) = Promise!Permit("post", x.me.id, ChannelOf(x.conv))
    BY <1>5, PermitIs
  <2>2. Promise!Grant(Promise!Permit("post", x.me.id, ChannelOf(x.conv)))
    BY <1>3, <2>1
  <2>3. x.me.id \in UserId /\ ChannelOf(x.conv) \in channels
    BY <1>5, ChannelsAre DEF Named
  <2> QED  BY <2>2, <2>3 DEF Promise!Next
<1>6. CASE Reads(x)
  <2>1. PermitOf(x) = Promise!Permit("read", x.me.id, ChannelOf(x.conv))
    BY <1>6, PermitIs
  <2>2. Promise!Grant(Promise!Permit("read", x.me.id, ChannelOf(x.conv)))
    BY <1>3, <2>1
  <2>3. x.me.id \in UserId /\ ChannelOf(x.conv) \in channels
    BY <1>6, ChannelsAre DEF Named
  <2> QED  BY <2>2, <2>3 DEF Promise!Next
<1> QED  BY <1>4, <1>5, <1>6 DEF Holds

(* A step that moves one handler and writes no table. *)
LEMMA QuietPromise ==
  ASSUME IInv, NEW r \in Request, NEW x \in Handler,
         h' = [h EXCEPT ![r] = x], UNCHANGED <<directory, chat>>,
         Holds(x) => \/ Holds(h[r]) /\ PermitOf(x) = PermitOf(h[r])
                     \/ ~Holds(h[r]) /\ Named(x) /\ Promise!Entitled(PermitOf(x))
  PROVE  Promise!Next
<1>1. \A q \in Request : h'[q] = IF q = r THEN x ELSE h[q]
  BY DEF IInv
<1>2. CASE ~Holds(x) \/ (Holds(h[r]) /\ PermitOf(x) = PermitOf(h[r]))
  <2>1. permits' \subseteq permits
    BY <1>1, <1>2, PermitsMove
  <2> QED  BY <2>1, PermitLapses
<1>3. CASE Holds(x) /\ ~Holds(h[r]) /\ Named(x) /\ Promise!Entitled(PermitOf(x))
  <2>1. permits' = permits \cup {PermitOf(x)}
    BY <1>1, <1>3, PermitsMove
  <2> QED  BY <1>3, <2>1, PermitGiven
<1> QED  BY <1>2, <1>3

LEMMA DoneHoldsNothing == ~Holds(Done) /\ ~Holds(New)
<1>1. Done.pc = "done" /\ New.pc = "new"
  BY DEF Done, New, At
<1> QED  BY <1>1 DEF Holds, Opens, Posts, Reads

LEMMA FinishPromise ==
  ASSUME IInv, NEW r \in Request, Finish(r), UNCHANGED <<directory, chat>>
  PROVE  Promise!Next
  BY DoneFacts, DoneHoldsNothing, QuietPromise DEF Finish

LEMMA GotoPromise ==
  ASSUME IInv, NEW r \in Request, NEW pc \in Running, Goto(r, pc), UNCHANGED <<directory, chat>>,
         \A x \in Handler :
            (/\ x.pc = pc /\ x.me = h[r].me /\ x.peer = h[r].peer /\ x.conv = h[r].conv
             /\ Holds(x))
            => \/ Holds(h[r]) /\ PermitOf(x) = PermitOf(h[r])
               \/ ~Holds(h[r]) /\ Named(x) /\ Promise!Entitled(PermitOf(x))
  PROVE  Promise!Next
<1>1. PICK x : x = [h[r] EXCEPT !.pc = pc]
  OBVIOUS
<1>2. h[r] \in Handler
  BY DEF IInv
<1>3. x \in Handler /\ x.pc = pc /\ x.me = h[r].me /\ x.peer = h[r].peer /\ x.conv = h[r].conv
  BY <1>1, <1>2 DEF Handler
<1>4. h' = [h EXCEPT ![r] = x]
  BY <1>1, <1>2 DEF Goto, IInv
<1> QED  BY <1>3, <1>4, QuietPromise

-----------------------------------------------------------------------------
(* Who is entitled: the tests of the code and those of Channels.             *)

LEMMA MayOpen ==
  ASSUME NEW x, Opens(x),
         \/ {x.me.id, x.peer} \in mappedPairs
         \/ x.me.id \in ActiveAdmins \/ x.peer \in ActiveAdmins
  PROVE  Promise!Entitled(PermitOf(x))
<1>1. PICK p : p = Promise!Permit("open", x.me.id, Promise!Private({x.me.id, x.peer}))
  OBVIOUS
<1>2. /\ p.to = "open" /\ p.by = x.me.id /\ p.channel.kind = "dm"
      /\ p.channel.members = {x.me.id, x.peer}
  BY <1>1 DEF Promise!Permit, Promise!Private
<1>3. Promise!Entitled(p)
  BY <1>2 DEF Promise!Entitled, Promise!Insider
<1> QED  BY <1>1, <1>3, PermitIs

(* Of a row and its channel. *)
LEMMA RowInsider ==
  ASSUME NEW c \in Conv, NEW u
  PROVE  /\ ChannelOf(c).kind = c.kind
         /\ c.kind = "dm" => (Promise!Insider(u, ChannelOf(c)) <=> IsMember(u, c))
         /\ c.kind = "batch" => (Promise!Insider(u, ChannelOf(c)) <=> <<u, c.batch>> \in InBatch)
<1>1. CASE c.kind = "dm"
  <2>1. ChannelOf(c).kind = "dm" /\ ChannelOf(c).members = {c.a, c.b}
    BY <1>1 DEF ChannelOf
  <2> QED  BY <1>1, <2>1 DEF Promise!Insider, IsMember
<1>2. CASE c.kind = "batch"
  <2>1. ChannelOf(c) = c
    BY <1>2 DEF ChannelOf
  <2> QED  BY <1>2, <2>1 DEF Promise!Insider
<1> QED  BY <1>1, <1>2, ConvCases

LEMMA MayPost ==
  ASSUME NEW x, Posts(x), x.conv \in convs, convs \subseteq Conv,
         x.conv.kind = "dm" => IsMember(x.me.id, x.conv),
         x.conv.kind = "batch" =>
             <<x.me.id, x.conv.batch>> \in InBatch \/ x.me.id \in ActiveAdmins
  PROVE  Promise!Entitled(PermitOf(x))
<1>1. PICK p, c : p = Promise!Permit("post", x.me.id, c) /\ c = ChannelOf(x.conv)
  OBVIOUS
<1>2. p.to = "post" /\ p.by = x.me.id /\ p.channel = c
  BY <1>1 DEF Promise!Permit
<1>3. c \in channels /\ c.kind = x.conv.kind
  BY <1>1, ChannelsAre, RowInsider
<1>4. Promise!Insider(x.me.id, c) \/ (c.kind = "batch" /\ x.me.id \in ActiveAdmins)
  BY <1>1, <1>3, RowInsider, ConvCases
<1>5. Promise!Entitled(p)
  BY <1>2, <1>3, <1>4 DEF Promise!Entitled
<1> QED  BY <1>1, <1>5, PermitIs

LEMMA MayBeShown ==
  ASSUME NEW x, Reads(x), x.conv \in convs, convs \subseteq Conv,
         x.me.id \in ActiveAdmins
         \/ (/\ x.conv.kind = "dm" => IsMember(x.me.id, x.conv)
             /\ x.conv.kind = "batch" => <<x.me.id, x.conv.batch>> \in InBatch)
  PROVE  Promise!Entitled(PermitOf(x))
<1>1. PICK p, c : p = Promise!Permit("read", x.me.id, c) /\ c = ChannelOf(x.conv)
  OBVIOUS
<1>2. p.to = "read" /\ p.by = x.me.id /\ p.channel = c
  BY <1>1 DEF Promise!Permit
<1>3. c \in channels
  BY <1>1, ChannelsAre
<1>4. Promise!Insider(x.me.id, c) \/ x.me.id \in ActiveAdmins
  BY <1>1, RowInsider, ConvCases
<1>5. Promise!Entitled(p)
  BY <1>2, <1>3, <1>4 DEF Promise!Entitled
<1> QED  BY <1>1, <1>5, PermitIs

-----------------------------------------------------------------------------
(* authenticate: the copy of the caller's row is right when it is made, so   *)
(* what the copy alone decides is decided now.                               *)

LEMMA CopyAdmits ==
  ASSUME IInv, NEW u \in UserId, users[u].active, NEW c \in convs
  PROVE  /\ Me(u).role = "admin" => u \in ActiveAdmins
         /\ Admitted(Me(u), c) =>
                /\ c.kind = "dm" => IsMember(u, c)
                /\ c.kind = "batch" => <<u, c.batch>> \in InBatch
<1>1. Me(u).id = u /\ Me(u).role = users[u].role /\ Me(u).batch = users[u].batch
  BY DEF Me
<1>2. Me(u).role = "admin" => u \in ActiveAdmins
  BY <1>1 DEF ActiveAdmins
<1>3. c \in Conv
  BY DEF IInv, ChatInv
<1>4. ASSUME c.kind = "batch", Admitted(Me(u), c)
      PROVE  <<u, c.batch>> \in InBatch
  <2>1. users[u].role = "student" /\ users[u].batch = c.batch /\ c.batch \in Batch
    BY <1>1, <1>3, <1>4, ConvCases DEF Admitted
  <2> QED  BY <2>1 DEF InBatch
<1>5. ASSUME c.kind = "dm", Admitted(Me(u), c)
      PROVE  IsMember(u, c)
  BY <1>1, <1>5 DEF Admitted
<1> QED  BY <1>2, <1>4, <1>5

LEMMA AuthPromise ==
  ASSUME IInv, NEW r \in Request, NEW u \in UserId, NEW next \in Handler, users[u].active,
         Authenticate(r, u, next),
         Holds(next) => Named(next) /\ Promise!Entitled(PermitOf(next))
  PROVE  Promise!Next
<1>1. ~Holds(h[r]) /\ h' = [h EXCEPT ![r] = next] /\ UNCHANGED <<directory, chat>>
  BY DEF Authenticate, Holds, Opens, Posts, Reads
<1> QED  BY <1>1, QuietPromise

LEMMA StartPromise ==
  ASSUME IInv, NEW r \in Request, NEW u \in UserId,
         \/ \E text \in Text : OpenDm(r, u, text)
         \/ \E c \in convs : Send(r, u, c) \/ Read(r, u, c)
         \/ \E v \in UserId : CreateUser(r, u, v) \/ PatchUser(r, u, v) \/ DeactivateUser(r, u, v)
         \/ \E t, v \in UserId : AssignMapping(r, u, t, v) \/ RemoveMapping(r, u, t, v)
  PROVE  Promise!Next
<1>1. CASE ~users[u].active
  <2>1. Finish(r) /\ UNCHANGED <<directory, chat>>
    BY <1>1 DEF OpenDm, Send, Read, CreateUser, PatchUser, DeactivateUser, AssignMapping,
                RemoveMapping, AdminAuth, Authenticate
  <2> QED  BY <2>1, FinishPromise
<1>2. CASE users[u].active
  <2>0. /\ Me(u) \in Principal /\ Me(u).id = u /\ Me(u).role = users[u].role
        /\ Nobody \in UserId \cup {Nobody} /\ NoConv \in Conv \cup {NoConv}
        /\ convs \subseteq Conv /\ Done \in Handler /\ ~Holds(Done)
    BY <1>2, MeFacts, DoneFacts, DoneHoldsNothing DEF IInv, ChatInv
  <2>1. ASSUME NEW text \in Text, OpenDm(r, u, text)
        PROVE  Promise!Next
    <3>1. PICK pc \in {"find", "peer"} : pc = IF users[u].role = "admin" THEN "find" ELSE "peer"
      OBVIOUS
    <3>2. PICK next : next = At(pc, Me(u), UserOf[text], Nobody, DmRow(u, text))
      OBVIOUS
    <3>3. /\ pc \in Running /\ UserOf[text] \in UserId /\ UserOf[text] \in UserId \cup {Nobody}
          /\ DmRow(u, text) \in Conv \cup {NoConv}
      BY DmRowSorted DEF Running
    <3>4. next \in Handler /\ next.pc = pc /\ next.me = Me(u) /\ next.peer = UserOf[text]
      BY <2>0, <3>2, <3>3, AtHandler
    <3>5. Authenticate(r, u, IF u = text THEN Done ELSE next)
      BY <2>1, <3>1, <3>2 DEF OpenDm
    <3>6. Named(next) /\ (Holds(next) => Opens(next) /\ pc = "find")
      BY <2>0, <3>3, <3>4 DEF Named, Holds, Opens, Posts, Reads
    <3>7. Holds(next) => Promise!Entitled(PermitOf(next))
      <4>1. pc = "find" => u \in ActiveAdmins
        BY <1>2, <3>1 DEF ActiveAdmins
      <4> QED  BY <2>0, <3>4, <3>6, <4>1, MayOpen
    <3> QED  BY <1>2, <2>0, <3>4, <3>5, <3>6, <3>7, AuthPromise
  <2>2. ASSUME NEW c \in convs, NEW pc \in {"sendSelect", "readSelect"},
               Authenticate(r, u, At(pc, Me(u), Nobody, Nobody, c))
        PROVE  Promise!Next
    <3>1. PICK next : next = At(pc, Me(u), Nobody, Nobody, c)
      OBVIOUS
    <3>2. pc \in Running /\ c \in Conv /\ c \in Conv \cup {NoConv}
      BY <2>0 DEF Running
    <3>3. next \in Handler /\ next.pc = pc /\ next.me = Me(u) /\ next.conv = c
      BY <2>0, <3>1, <3>2 DEF At, Handler
    <3>4. Named(next)
      BY <2>0, <3>3 DEF Named, Opens
    <3>5. /\ Me(u).role = "admin" => u \in ActiveAdmins
          /\ Admitted(Me(u), c) => /\ c.kind = "dm" => IsMember(u, c)
                                   /\ c.kind = "batch" => <<u, c.batch>> \in InBatch
      BY <1>2, CopyAdmits
    <3>6. ASSUME Posts(next)
          PROVE  Promise!Entitled(PermitOf(next))
      <4>1. /\ Me(u).role = "admin" => ~MonitorOnly(Me(u), c)
            /\ Me(u).role # "admin" => Admitted(Me(u), c)
        BY <2>0, <3>3, <3>6 DEF Posts
      <4>2. c.kind = "dm" => IsMember(u, c)
        BY <2>0, <3>5, <4>1 DEF MonitorOnly
      <4>3. c.kind = "batch" => <<u, c.batch>> \in InBatch \/ u \in ActiveAdmins
        BY <3>5, <4>1
      <4> QED  BY <2>0, <3>3, <3>6, <4>2, <4>3, MayPost
    <3>7. ASSUME Reads(next)
          PROVE  Promise!Entitled(PermitOf(next))
      <4>1. Me(u).role = "admin" \/ Admitted(Me(u), c)
        BY <2>0, <3>3, <3>7 DEF Reads
      <4> QED  BY <2>0, <3>3, <3>5, <3>7, <4>1, MayBeShown
    <3>8. ~Opens(next)
      BY <3>3 DEF Opens
    <3> QED  BY <1>2, <2>2, <3>1, <3>3, <3>4, <3>6, <3>7, <3>8, AuthPromise DEF Holds
  <2>3. ASSUME NEW pc \in {"create", "patch", "flag", "tutor", "unassign"},
               NEW x \in UserId, NEW y \in UserId \cup {Nobody},
               AdminAuth(r, u, At(pc, Me(u), x, y, NoConv))
        PROVE  Promise!Next
    <3>1. PICK next : next = At(pc, Me(u), x, y, NoConv)
      OBVIOUS
    <3>2. pc \in Running /\ x \in UserId \cup {Nobody}
      BY DEF Running
    <3>3. next \in Handler /\ next.pc = pc
      BY <2>0, <3>1, <3>2, AtHandler
    <3>4. ~Holds(next)
      BY <3>3 DEF Holds, Opens, Posts, Reads
    <3>5. Authenticate(r, u, next) \/ Authenticate(r, u, Done)
      BY <2>3, <3>1 DEF AdminAuth
    <3> QED  BY <1>2, <2>0, <3>3, <3>4, <3>5, AuthPromise
  <2>4. ASSUME NEW c \in convs, Send(r, u, c) \/ Read(r, u, c)
        PROVE  Promise!Next
    BY <2>2, <2>4 DEF Send, Read
  <2>5. ASSUME NEW v \in UserId, CreateUser(r, u, v) \/ PatchUser(r, u, v) \/ DeactivateUser(r, u, v)
        PROVE  Promise!Next
    BY <2>3, <2>5 DEF CreateUser, PatchUser, DeactivateUser
  <2>6. ASSUME NEW t \in UserId, NEW v \in UserId, AssignMapping(r, u, t, v) \/ RemoveMapping(r, u, t, v)
        PROVE  Promise!Next
    BY <2>3, <2>6 DEF AssignMapping, RemoveMapping
  <2> QED  BY <2>1, <2>4, <2>5, <2>6
<1> QED  BY <1>1, <1>2

-----------------------------------------------------------------------------
(* The statements of a request for a DM, and of one about its messages.      *)

LEMMA OpenPromise ==
  ASSUME IInv, NEW r \in Request,
         OpenPeer(r) \/ OpenMap(r) \/ OpenFind(r) \/ OpenInsert(r)
  PROVE  Promise!Next
<1>0. /\ h[r] \in Handler /\ HandlerFacts(h[r])
  BY DEF IInv, HandlerInv
<1>1. ASSUME h[r].pc \in {"peer", "map", "find", "insert"}
      PROVE  h[r].me.id \in UserId /\ h[r].peer \in UserId /\ h[r].pc \in Running
             /\ h[r].me \in Principal
  BY <1>0, <1>1 DEF HandlerFacts, HandlerTyped, Running, Principal
<1>2. ASSUME NEW pc \in {"map", "find", "insert"}, Goto(r, pc), UNCHANGED <<directory, chat>>,
             h[r].pc \in {"peer", "map", "find"},
             pc = "insert" => h[r].pc = "find",
             pc = "find" => /\ h[r].pc # "find"
                            /\ \/ {h[r].me.id, h[r].peer} \in mappedPairs
                               \/ h[r].me.id \in ActiveAdmins \/ h[r].peer \in ActiveAdmins
      PROVE  Promise!Next
  <2>1. ASSUME NEW x \in Handler, Holds(x),
               x.pc = pc, x.me = h[r].me, x.peer = h[r].peer, x.conv = h[r].conv
        PROVE  \/ Holds(h[r]) /\ PermitOf(x) = PermitOf(h[r])
               \/ ~Holds(h[r]) /\ Named(x) /\ Promise!Entitled(PermitOf(x))
    <3>1. Opens(x) /\ pc \in {"find", "insert"} /\ ~Posts(x) /\ ~Reads(x)
      BY <2>1 DEF Holds, Opens, Posts, Reads
    <3>2. CASE pc = "insert"
      <4>1. Opens(h[r])
        BY <1>2, <3>2 DEF Opens
      <4> QED  BY <2>1, <3>1, <4>1 DEF Holds, PermitOf
    <3>3. CASE pc = "find"
      <4>1. ~Holds(h[r])
        BY <1>2, <3>3 DEF Holds, Opens, Posts, Reads
      <4>2. Named(x)
        BY <1>1, <1>2, <2>1, <3>1 DEF Named
      <4>3. Promise!Entitled(PermitOf(x))
        BY <1>2, <2>1, <3>1, <3>3, MayOpen
      <4> QED  BY <4>1, <4>2, <4>3
    <3> QED  BY <3>1, <3>2, <3>3
  <2>2. pc \in Running
    BY DEF Running
  <2> QED  BY <1>2, <2>1, <2>2, GotoPromise
<1>3. CASE OpenPeer(r)
  <2>1. CASE Goto(r, "find") /\ users[h[r].peer].active /\ users[h[r].peer].role = "admin"
    <3>1. h[r].peer \in ActiveAdmins
      BY <1>1, <1>3, <2>1 DEF OpenPeer, ActiveAdmins
    <3> QED  BY <1>2, <1>3, <2>1, <3>1 DEF OpenPeer
  <2>2. CASE Goto(r, "map")
    BY <1>2, <1>3, <2>2 DEF OpenPeer
  <2>3. CASE Finish(r)
    BY <1>3, <2>3, FinishPromise DEF OpenPeer
  <2> QED  BY <1>3, <2>1, <2>2, <2>3 DEF OpenPeer
<1>4. CASE OpenMap(r)
  <2>1. CASE MappedNow(h[r].me, h[r].peer)
    <3>1. PICK me, peer : me = h[r].me.id /\ peer = h[r].peer
      OBVIOUS
    <3>2. <<me, peer>> \in mappings \/ <<peer, me>> \in mappings
      BY <2>1, <3>1 DEF MappedNow, AreMapped
    <3>3. {me, peer} \in mappedPairs
      <4>1. CASE <<me, peer>> \in mappings
        BY <4>1 DEF mappedPairs
      <4>2. CASE <<peer, me>> \in mappings
        <5>1. {peer, me} \in mappedPairs
          BY <4>2 DEF mappedPairs
        <5>2. {peer, me} = {me, peer}
          OBVIOUS
        <5> QED  BY <5>1, <5>2
      <4> QED  BY <3>2, <4>1, <4>2
    <3> QED  BY <1>2, <1>4, <2>1, <3>1, <3>3 DEF OpenMap
  <2>2. CASE ~MappedNow(h[r].me, h[r].peer)
    BY <1>4, <2>2, FinishPromise DEF OpenMap
  <2> QED  BY <2>1, <2>2
<1>5. CASE OpenFind(r)
  <2>1. CASE Finish(r)
    BY <1>5, <2>1, FinishPromise DEF OpenFind
  <2>2. CASE Goto(r, "insert")
    BY <1>2, <1>5, <2>2 DEF OpenFind
  <2> QED  BY <1>5, <2>1, <2>2 DEF OpenFind
<1>6. CASE OpenInsert(r)
  <2>1. CASE convs' = convs
    BY <1>6, <2>1, FinishPromise DEF OpenInsert, chat
  <2>2. CASE convs' # convs
    <3>1. PICK me, peer : me = h[r].me.id /\ peer = h[r].peer
      OBVIOUS
    <3>2. PICK p : p = PermitOf(h[r])
      OBVIOUS
    <3>3. PICK row : row = h[r].conv
      OBVIOUS
    <3>4. me \in UserId /\ peer \in UserId
      BY <1>1, <1>6, <3>1 DEF OpenInsert
    <3>5. ChannelOf(row) = Promise!Private({me, peer})
      <4>1. \/ row.kind = "dm" /\ row.a = me /\ row.b = peer
            \/ row.kind = "dm" /\ row.a = peer /\ row.b = me
        BY <1>0, <1>6, <3>1, <3>3 DEF OpenInsert, HandlerFacts, CarriesRow, RowOf
      <4>2. {row.a, row.b} = {me, peer}
        BY <4>1
      <4> QED  BY <4>1, <4>2 DEF ChannelOf, Promise!Private
    <3>6. Opens(h[r]) /\ Holds(h[r])
      BY <1>6 DEF OpenInsert, Opens, Holds
    <3>7. p.to = "open" /\ p.channel = ChannelOf(row)
      BY <3>1, <3>2, <3>5, <3>6, PermitIs DEF Promise!Permit
    <3>8. p \in permits /\ permits' \in {permits, permits \ {p}}
      <4>1. \A q \in Request : h'[q] = IF q = r THEN Done ELSE h[q]
        BY <1>6 DEF OpenInsert, Finish, IInv
      <4>2. permits' \subseteq permits /\ permits \subseteq permits' \cup {p} /\ p \in permits
        BY <3>2, <3>6, <4>1, PermitsMove, DoneHoldsNothing
      <4> QED  BY <4>2
    <3>9. channels' = channels \cup {p.channel}
      <4>1. convs' = convs \cup {row}
        BY <1>6, <2>2, <3>1, <3>3 DEF OpenInsert
      <4>2. channels' = channels \cup {ChannelOf(row)}
        BY <4>1 DEF channels, ChannelOf
      <4> QED  BY <3>7, <4>2
    <3>10. /\ mappedPairs' = mappedPairs /\ InBatch' = InBatch /\ ActiveAdmins' = ActiveAdmins
           /\ posted' = posted /\ shown' = shown
      BY <1>6 DEF OpenInsert, directory, mappedPairs, InBatch, ActiveAdmins, Teaches,
                  StudentsOf, AreMapped, posted, shown, ChannelOf
    <3>11. Promise!Open(p)
      BY <3>7, <3>8, <3>9, <3>10 DEF Promise!Open, Promise!Spent
    <3> QED  BY <3>8, <3>11 DEF Promise!Next
  <2> QED  BY <2>1, <2>2
<1> QED  BY <1>3, <1>4, <1>5, <1>6

LEMMA ChatPromise ==
  ASSUME IInv, NEW r \in Request,
         \/ SendSelect(r) \/ SendTeach(r) \/ SendInsert(r)
         \/ ReadSelect(r) \/ ReadTeach(r) \/ ReadRows(r)
  PROVE  Promise!Next
<1>0. /\ h[r] \in Handler /\ HandlerFacts(h[r]) /\ convs \subseteq Conv
  BY DEF IInv, HandlerInv, ChatInv
<1>1. ASSUME h[r].pc \in {"sendSelect", "sendTeach", "send", "readSelect", "readTeach", "read"}
      PROVE  /\ h[r].pc \in Running /\ h[r].me.id \in UserId
             /\ h[r].conv \in convs /\ h[r].conv \in Conv
             /\ h[r].pc \in {"sendTeach", "readTeach"} => h[r].conv.kind = "batch"
  BY <1>0, <1>1 DEF HandlerFacts, HandlerTyped, Running, Principal
<1>2. ASSUME NEW pc \in {"send", "read"}, Goto(r, pc), UNCHANGED <<directory, chat>>,
             h[r].pc \in {"sendSelect", "sendTeach", "readSelect", "readTeach"},
             pc = "send" => Posts(h[r]) \/ h[r].pc = "sendTeach",
             pc = "read" => Reads(h[r]) \/ h[r].pc = "readTeach",
             h[r].pc \in {"sendTeach", "readTeach"} =>
                 <<h[r].me.id, h[r].conv.batch>> \in InBatch
      PROVE  Promise!Next
  <2>1. ASSUME NEW x \in Handler, Holds(x),
               x.pc = pc, x.me = h[r].me, x.peer = h[r].peer, x.conv = h[r].conv
        PROVE  \/ Holds(h[r]) /\ PermitOf(x) = PermitOf(h[r])
               \/ ~Holds(h[r]) /\ Named(x) /\ Promise!Entitled(PermitOf(x))
    <3>1. /\ pc = "send" => Posts(x) /\ ~Reads(x)
          /\ pc = "read" => Reads(x) /\ ~Posts(x)
          /\ ~Opens(x) /\ ~Opens(h[r])
      BY <1>2, <2>1 DEF Opens, Posts, Reads
    <3>2. CASE Posts(h[r]) \/ Reads(h[r])
      <4>1. /\ Posts(h[r]) => h[r].pc = "sendSelect"
            /\ Reads(h[r]) => h[r].pc = "readSelect"
        BY <1>2 DEF Posts, Reads
      <4>2. (Posts(h[r]) <=> pc = "send") /\ (Reads(h[r]) <=> pc = "read")
        BY <1>2, <3>2, <4>1
      <4> QED  BY <2>1, <3>1, <3>2, <4>2 DEF Holds, PermitOf
    <3>3. CASE ~Posts(h[r]) /\ ~Reads(h[r])
      <4>1. h[r].pc \in {"sendTeach", "readTeach"} /\ ~Holds(h[r])
        BY <1>2, <3>1, <3>3 DEF Holds
      <4>2. Named(x)
        BY <1>1, <1>2, <2>1, <3>1 DEF Named
      <4>3. x.conv.kind = "batch" /\ <<x.me.id, x.conv.batch>> \in InBatch /\ x.conv \in convs
        BY <1>1, <1>2, <2>1, <4>1
      <4>4. Promise!Entitled(PermitOf(x))
        BY <1>0, <3>1, <4>3, MayPost, MayBeShown
      <4> QED  BY <4>1, <4>2, <4>4
    <3> QED  BY <3>2, <3>3
  <2>2. pc \in Running
    BY DEF Running
  <2> QED  BY <1>2, <2>1, <2>2, GotoPromise
<1>3. ASSUME NEW pc \in {"sendTeach", "readTeach"}, Goto(r, pc), UNCHANGED <<directory, chat>>
      PROVE  Promise!Next
  <2>1. ASSUME NEW x \in Handler, x.pc = pc
        PROVE  ~Holds(x)
    BY <2>1 DEF Holds, Opens, Posts, Reads
  <2>2. pc \in Running
    BY DEF Running
  <2> QED  BY <1>3, <2>1, <2>2, GotoPromise
<1>4. CASE SendSelect(r)
  <2>1. CASE /\ Goto(r, "send")
             /\ IF h[r].me.role = "admin" THEN ~MonitorOnly(h[r].me, h[r].conv)
                ELSE Admitted(h[r].me, h[r].conv)
    <3>1. Posts(h[r])
      BY <1>4, <2>1 DEF SendSelect, Posts
    <3> QED  BY <1>2, <1>4, <2>1, <3>1 DEF SendSelect
  <2>2. CASE Goto(r, "sendTeach")
    BY <1>3, <1>4, <2>2 DEF SendSelect
  <2>3. CASE Finish(r)
    BY <1>4, <2>3, FinishPromise DEF SendSelect
  <2> QED  BY <1>4, <2>1, <2>2, <2>3 DEF SendSelect
<1>5. CASE ReadSelect(r)
  <2>1. CASE (h[r].me.role = "admin" \/ Admitted(h[r].me, h[r].conv)) /\ Goto(r, "read")
    <3>1. Reads(h[r])
      BY <1>5, <2>1 DEF ReadSelect, Reads
    <3> QED  BY <1>2, <1>5, <2>1, <3>1 DEF ReadSelect
  <2>2. CASE Goto(r, "readTeach")
    BY <1>3, <1>5, <2>2 DEF ReadSelect
  <2>3. CASE Finish(r)
    BY <1>5, <2>3, FinishPromise DEF ReadSelect
  <2> QED  BY <1>5, <2>1, <2>2, <2>3 DEF ReadSelect
<1>6. CASE SendTeach(r) \/ ReadTeach(r)
  <2>1. CASE Teaches(h[r].me.id, h[r].conv.batch)
    <3>1. h[r].conv.batch \in Batch
      BY <1>1, <1>6, ConvCases DEF SendTeach, ReadTeach, TeachQuery
    <3>2. <<h[r].me.id, h[r].conv.batch>> \in InBatch
      BY <1>1, <1>6, <2>1, <3>1 DEF SendTeach, ReadTeach, TeachQuery, InBatch
    <3> QED  BY <1>2, <1>6, <2>1, <3>2 DEF SendTeach, ReadTeach, TeachQuery
  <2>2. CASE ~Teaches(h[r].me.id, h[r].conv.batch)
    BY <1>6, <2>2, FinishPromise DEF SendTeach, ReadTeach, TeachQuery
  <2> QED  BY <2>1, <2>2
<1>7. ASSUME Finish(r), Holds(h[r])
      PROVE  PermitOf(h[r]) \in permits /\ permits' \in {permits, permits \ {PermitOf(h[r])}}
  <2>1. \A q \in Request : h'[q] = IF q = r THEN Done ELSE h[q]
    BY <1>7 DEF Finish, IInv
  <2>2. /\ permits' \subseteq permits /\ permits \subseteq permits' \cup {PermitOf(h[r])}
        /\ PermitOf(h[r]) \in permits
    BY <1>7, <2>1, PermitsMove, DoneHoldsNothing
  <2> QED  BY <2>2
<1>8. ASSUME UNCHANGED <<directory, convs>>
      PROVE  /\ mappedPairs' = mappedPairs /\ InBatch' = InBatch /\ ActiveAdmins' = ActiveAdmins
             /\ channels' = channels
  BY <1>8 DEF directory, mappedPairs, InBatch, ActiveAdmins, Teaches, StudentsOf, AreMapped,
              channels, ChannelOf
<1>9. CASE SendInsert(r)
  <2>1. Posts(h[r]) /\ Holds(h[r])
    BY <1>9 DEF SendInsert, Posts, Holds
  <2>2. PICK p : p = PermitOf(h[r])
    OBVIOUS
  <2>3. p.to = "post" /\ p.by = h[r].me.id /\ p.channel = ChannelOf(h[r].conv)
    <3>1. p = Promise!Permit("post", h[r].me.id, ChannelOf(h[r].conv))
      BY <2>1, <2>2, PermitIs
    <3> QED  BY <3>1 DEF Promise!Permit
  <2>4. posted' = posted \cup {<<p.by, p.channel>>} /\ shown' = shown
    <3>1. PICK m : m = [conv |-> h[r].conv, sender |-> h[r].me.id]
      OBVIOUS
    <3>2. messages' = messages \cup {m} /\ seen' = seen
      BY <1>9, <3>1 DEF SendInsert
    <3>3. posted' = posted \cup {<<m.sender, ChannelOf(m.conv)>>} /\ shown' = shown
      BY <3>2 DEF posted, shown, ChannelOf
    <3>4. m.sender = p.by /\ ChannelOf(m.conv) = p.channel
      BY <2>3, <3>1
    <3> QED  BY <3>3, <3>4
  <2>5. Promise!Post(p)
    BY <1>7, <1>8, <1>9, <2>1, <2>2, <2>3, <2>4 DEF SendInsert, Promise!Post, Promise!Spent
  <2>6. p \in permits
    BY <1>7, <1>9, <2>1, <2>2 DEF SendInsert
  <2> QED  BY <2>5, <2>6 DEF Promise!Next
<1>10. CASE ReadRows(r)
  <2>1. Reads(h[r]) /\ Holds(h[r])
    BY <1>10 DEF ReadRows, Reads, Holds
  <2>2. PICK p : p = PermitOf(h[r])
    OBVIOUS
  <2>3. p.to = "read" /\ p.by = h[r].me.id /\ p.channel = ChannelOf(h[r].conv)
    <3>1. p = Promise!Permit("read", h[r].me.id, ChannelOf(h[r].conv))
      BY <2>1, <2>2, PermitIs
    <3> QED  BY <3>1 DEF Promise!Permit
  <2>4. shown' = shown \cup {<<p.by, p.channel>>} /\ posted' = posted
    <3>1. PICK s : s = <<h[r].me.id, h[r].conv>>
      OBVIOUS
    <3>2. seen' = seen \cup {s} /\ messages' = messages
      BY <1>10, <3>1 DEF ReadRows
    <3>3. shown' = shown \cup {<<s[1], ChannelOf(s[2])>>} /\ posted' = posted
      BY <3>2 DEF posted, shown, ChannelOf
    <3>4. s[1] = p.by /\ ChannelOf(s[2]) = p.channel
      BY <2>3, <3>1
    <3> QED  BY <3>3, <3>4
  <2>5. Promise!Show(p)
    BY <1>7, <1>8, <1>10, <2>1, <2>2, <2>3, <2>4 DEF ReadRows, Promise!Show, Promise!Spent
  <2>6. p \in permits
    BY <1>7, <1>10, <2>1, <2>2 DEF ReadRows
  <2> QED  BY <2>5, <2>6 DEF Promise!Next
<1> QED  BY <1>4, <1>5, <1>6, <1>9, <1>10

-----------------------------------------------------------------------------
(* The statements of the admin routes. *)

(* The last of them holds no permit and leaves the chats alone. *)
LEMMA Reassigned ==
  ASSUME IInv', NEW r \in Request, ~Holds(h[r]), UNCHANGED chat,
         \A q \in Request : h'[q] = h[q] \/ (~Holds(h[q]) /\ h'[q] = Done),
         \A u \in UserId : users'[u].active /\ users'[u].role = "admin" =>
                             users[u].active /\ users[u].role = "admin"
  PROVE  Promise!Next
<1>1. channels' = channels /\ posted' = posted /\ shown' = shown
  BY DEF chat, channels, posted, shown, ChannelOf
<1>2. permits' = permits
  <2>1. ASSUME NEW q \in Request
        PROVE  /\ Holds(h'[q]) <=> Holds(h[q])
               /\ Holds(h[q]) => h'[q] = h[q]
    BY DoneHoldsNothing
  <2> QED  BY <2>1, PermitsNext DEF permits
<1>3. mappedPairs' \in SUBSET Promise!Pair
  <2>1. mappings' \subseteq UserId \X UserId
    BY DEF IInv, DirectoryInv
  <2>2. ASSUME NEW s \in mappedPairs'
        PROVE  s \in Promise!Pair
    <3>1. PICK p \in mappings' : s = {p[1], p[2]}
      BY DEF mappedPairs
    <3>2. p[1] \in UserId /\ p[2] \in UserId
      BY <2>1
    <3> QED  BY <3>1, <3>2, PairIs
  <2> QED  BY <2>2
<1>4. InBatch' \in SUBSET (UserId \X Batch)
  BY DEF InBatch
<1>5. ActiveAdmins' \in SUBSET ActiveAdmins
  BY DEF ActiveAdmins
<1> QED  BY <1>1, <1>2, <1>3, <1>4, <1>5 DEF Promise!Next, Promise!Reassign

LEMMA AdminPromise ==
  ASSUME IInv, IInv', NEW r \in Request,
         \/ CreateInsert(r) \/ PatchUpdate(r) \/ ClearFlag(r)
         \/ SelectTutor(r) \/ SelectStudent(r) \/ AssignInsert(r) \/ RemoveDelete(r)
  PROVE  Promise!Next
<1>0. h[r] \in Handler /\ h \in [Request -> Handler]
      /\ users \in [UserId -> UserRow] /\ UNCHANGED chat
  BY DEF IInv, DirectoryInv, CreateInsert, PatchUpdate, ClearFlag, SelectTutor, SelectStudent,
         AssignInsert, RemoveDelete
<1>1. ~Holds(h[r])
  BY DEF CreateInsert, PatchUpdate, ClearFlag, SelectTutor, SelectStudent, AssignInsert,
         RemoveDelete, Holds, Opens, Posts, Reads
<1>2. ASSUME Finish(r) PROVE \A q \in Request : h'[q] = h[q] \/ (~Holds(h[q]) /\ h'[q] = Done)
  BY <1>0, <1>1, <1>2 DEF Finish
<1>3. ASSUME NEW u \in UserId, CreateInsert(r) \/ PatchUpdate(r) \/ ClearFlag(r),
             users'[u].active, users'[u].role = "admin"
      PROVE  users[u].active /\ users[u].role = "admin"
  <2>1. PICK v : v = h[r].peer
    OBVIOUS
  <2>2. CASE CreateInsert(r)
    <3>1. CASE users' = users
      BY <1>3, <3>1
    <3>2. CASE users' # users
      <4>1. PICK role \in {"tutor", "student"}, b \in Batch \cup {NoBatch} :
               users' = [users EXCEPT ![v] = [role |-> role, batch |-> b, active |-> TRUE]]
        BY <2>1, <2>2, <3>2 DEF CreateInsert
      <4>2. u = v => users'[u].role = role
        BY <1>0, <4>1
      <4> QED  BY <1>0, <1>3, <4>1, <4>2
    <3> QED  BY <3>1, <3>2
  <2>3. CASE PatchUpdate(r)
    <3>1. PICK role \in {"tutor", "student", users[v].role}, b \in Batch \cup {NoBatch} :
             users' = IF users[v] = NoRow THEN users
                      ELSE [users EXCEPT ![v].role = role, ![v].batch = b]
      BY <2>1, <2>3 DEF PatchUpdate
    <3>2. CASE users' = users
      BY <1>3, <3>2
    <3>3. CASE users' = [users EXCEPT ![v].role = role, ![v].batch = b] /\ users[v] # NoRow
      <4>1. CASE u # v
        BY <1>0, <1>3, <3>3, <4>1
      <4>2. CASE u = v
        <5>1. users[v] \in [role: Role, batch: Batch \cup {NoBatch}, active: BOOLEAN]
          BY <1>0, <3>3, <4>2 DEF UserRow
        <5>2. users'[v].role = role /\ users'[v].active = users[v].active
          BY <1>0, <3>3, <4>2, <5>1
        <5> QED  BY <1>3, <4>2, <5>2
      <4> QED  BY <4>1, <4>2
    <3> QED  BY <3>1, <3>2, <3>3
  <2>4. CASE ClearFlag(r)
    <3>1. users' = users \/ users' = [users EXCEPT ![v].active = FALSE]
      BY <2>1, <2>4 DEF ClearFlag
    <3>2. users'[u] = users[u] \/ users'[u] = [users[u] EXCEPT !.active = FALSE]
      BY <1>0, <3>1
    <3>3. users[u] \in UserRow
      BY <1>0
    <3>4. users'[u] # [users[u] EXCEPT !.active = FALSE]
      BY <1>3, <3>3 DEF UserRow, NoRow
    <3> QED  BY <1>3, <3>2, <3>4
  <2> QED  BY <1>3, <2>2, <2>3, <2>4
<1>4. CASE CreateInsert(r) \/ PatchUpdate(r) \/ ClearFlag(r)
  <2>1. Finish(r)
    BY <1>4 DEF CreateInsert, PatchUpdate, ClearFlag
  <2> QED  BY <1>0, <1>1, <1>2, <1>3, <1>4, <2>1, Reassigned
<1>5. CASE SelectTutor(r) \/ SelectStudent(r)
  <2>1. UNCHANGED <<directory, chat>>
    BY <1>5 DEF SelectTutor, SelectStudent
  <2>2. ASSUME NEW pc \in {"student", "assign"}, Goto(r, pc)
        PROVE  Promise!Next
    <3>1. ASSUME NEW x \in Handler, x.pc = pc
          PROVE  ~Holds(x)
      BY <3>1 DEF Holds, Opens, Posts, Reads
    <3>2. pc \in Running
      BY DEF Running
    <3> QED  BY <2>1, <2>2, <3>1, <3>2, GotoPromise
  <2> QED  BY <1>5, <2>1, <2>2, FinishPromise DEF SelectTutor, SelectStudent
<1>6. CASE AssignInsert(r)
  <2>1. Finish(r) /\ users' = users
    BY <1>6 DEF AssignInsert
  <2> QED  BY <1>0, <1>1, <1>2, <2>1, Reassigned
<1>7. CASE RemoveDelete(r)
  <2>1. users' = users
    BY <1>7 DEF RemoveDelete
  <2>2. ASSUME NEW q \in Request
        PROVE  h'[q] = h[q] \/ (~Holds(h[q]) /\ h'[q] = Done)
    <3>1. h'[q] = h[q] \/ (h[q].pc = "unassign" /\ h'[q] = Done)
      BY <1>7 DEF RemoveDelete
    <3>2. h[q].pc = "unassign" => ~Holds(h[q])
      BY DEF Holds, Opens, Posts, Reads
    <3> QED  BY <3>1, <3>2
  <2> QED  BY <1>0, <1>1, <2>1, <2>2, Reassigned
<1> QED  BY <1>4, <1>5, <1>6, <1>7

-----------------------------------------------------------------------------

LEMMA PromiseStep == IInv /\ IInv' /\ [Next]_vars => Promise!Next
<1> SUFFICES ASSUME IInv, IInv', [Next]_vars
             PROVE  Promise!Next
  OBVIOUS
<1>1. CASE UNCHANGED vars
  <2>1. UNCHANGED <<directory, chat>> /\ h' = h
    BY <1>1 DEF vars, directory, chat
  <2>2. permits' = permits
    BY <2>1, PermitsNext DEF permits
  <2> QED  BY <2>1, <2>2, PermitLapses
<1>2. ASSUME NEW b \in Batch, EnsureBatchChannel(b)
      PROVE  Promise!Next
  <2>1. /\ mappedPairs' = mappedPairs /\ InBatch' = InBatch /\ ActiveAdmins' = ActiveAdmins
        /\ posted' = posted /\ shown' = shown
    BY <1>2 DEF EnsureBatchChannel, directory, mappedPairs, InBatch, ActiveAdmins, Teaches,
                StudentsOf, AreMapped, posted, shown, ChannelOf
  <2>2. permits' = permits
    <3>1. h' = h
      BY <1>2 DEF EnsureBatchChannel
    <3> QED  BY <3>1, PermitsNext DEF permits
  <2>3. channels' = channels \cup {Promise!Common(b)}
    <3>1. PICK c : c = [kind |-> "batch", batch |-> b]
      OBVIOUS
    <3>2. convs' = convs \cup {c}
      BY <1>2, <3>1 DEF EnsureBatchChannel
    <3>3. channels' = channels \cup {ChannelOf(c)}
      BY <3>2 DEF channels, ChannelOf
    <3>4. ChannelOf(c) = Promise!Common(b)
      BY <3>1 DEF ChannelOf, Promise!Common
    <3> QED  BY <3>3, <3>4
  <2> QED  BY <2>1, <2>2, <2>3 DEF Promise!Next, Promise!Found
<1>3. ASSUME NEW r \in Request, Fail(r)
      PROVE  Promise!Next
  BY <1>3, FinishPromise DEF Fail
<1>4. ASSUME NEW r \in Request, OpenSteps(r) \/ ChatSteps(r) \/ AdminSteps(r)
      PROVE  Promise!Next
  BY <1>4, StartPromise, OpenPromise, ChatPromise, AdminPromise
     DEF OpenSteps, ChatSteps, AdminSteps
<1> QED  BY <1>1, <1>2, <1>3, <1>4 DEF Next

(* The routes with their queries, copies and races implement Channels: every *)
(* permission is one that somebody was entitled to in one moment, and no     *)
(* channel is opened, written or shown without.                              *)
THEOREM PromiseKept == Spec => KeepsPromise
<1>1. Init => Promise!Init
  <2> SUFFICES ASSUME Init PROVE Promise!Init
    OBVIOUS
  <2>1. channels = {} /\ posted = {} /\ shown = {}
    BY DEF Init, channels, posted, shown
  <2>2. permits = {}
    BY DoneHoldsNothing DEF Init, permits
  <2>3. mappedPairs \in SUBSET Promise!Pair
    <3>1. ASSUME NEW s \in mappedPairs
          PROVE  s \in Promise!Pair
      <4>1. PICK p \in mappings : s = {p[1], p[2]}
        BY DEF mappedPairs
      <4>2. p[1] \in UserId /\ p[2] \in UserId
        BY DEF Init
      <4> QED  BY <4>1, <4>2, PairIs
    <3> QED  BY <3>1
  <2>4. InBatch \in SUBSET (UserId \X Batch) /\ ActiveAdmins \in SUBSET UserId
    BY DEF InBatch, ActiveAdmins
  <2> QED  BY <2>1, <2>2, <2>3, <2>4 DEF Promise!Init
<1>2. IInv /\ IInv' /\ [Next]_vars => [Promise!Next]_(Promise!vars)
  BY PromiseStep
<1> QED  BY <1>1, <1>2, InductiveInvariant, PTL DEF Spec, KeepsPromise, Promise!Spec
=============================================================================
