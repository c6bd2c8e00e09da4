--------------------------------- MODULE Rbac ---------------------------------
(***************************************************************************)
(* The permission helpers of rbac.js over the two tables they read, users  *)
(* and mappings.  Each operator is the value the helper returns when its   *)
(* queries all see the same state; Messaging runs the helpers query by     *)
(* query, with other requests in between.                                  *)
(***************************************************************************)
EXTENDS Naturals, FiniteSets

CONSTANTS
    UserId,     \* user ids, each the text in which the server writes it
    Text,       \* what a client may write where an id is asked for; numbers,
                \* whose order is the order in which JavaScript sorts the texts
    UserOf,     \* the id that Postgres takes a text for: an upper-case uuid is
                \* another text of the same id
    Batch,      \* batch labels
    NoBatch     \* users.batch is null

ASSUME RbacAssumption ==
    /\ UserId \subseteq Text /\ Text \subseteq Nat
    /\ UserOf \in [Text -> UserId] /\ \A u \in UserId : UserOf[u] = u
    /\ NoBatch \notin Batch

VARIABLES
    users,      \* the users table: the row of each id
    mappings    \* the mappings table: pairs <<tutor_id, student_id>>

Role == {"admin", "tutor", "student"}

NoRow == [role |-> "none", batch |-> NoBatch, active |-> FALSE]

UserRow == [role: Role, batch: Batch \cup {NoBatch}, active: BOOLEAN] \cup {NoRow}

(* req.user, as authenticate loads it: a copy, which may grow stale.       *)
Principal == [id: UserId, role: Role, batch: Batch \cup {NoBatch}]

Me(u) == [id |-> u, role |-> users[u].role, batch |-> users[u].batch]

(* A conversation row is identified by what its unique constraints cover.  *)
Conv == [kind: {"dm"}, a: UserId, b: UserId] \cup [kind: {"batch"}, batch: Batch]

IsMember(u, c) == u \in {c.a, c.b}

-----------------------------------------------------------------------------

AreMapped(t, s) == <<t, s>> \in mappings

ActiveAdmins == {u \in UserId : users[u].role = "admin" /\ users[u].active}

StudentsOf(t) == {s \in UserId : AreMapped(t, s)}

TutorsOf(s) == {t \in UserId : AreMapped(t, s)}

PeersOf(me) ==
    CASE me.role = "admin"   -> {u \in UserId : u # me.id /\ users[u].active}
      [] me.role = "tutor"   -> StudentsOf(me.id) \cup ActiveAdmins
      [] me.role = "student" -> TutorsOf(me.id) \cup ActiveAdmins

(* GET /messages/contacts *)
Contacts(me) == {u \in PeersOf(me) : users[u].active}

\* Mutation of MappedPeers: the student's branch passes its ids in the order
\* of the tutor's branch.
MappedPeersSwapped(me, other, otherRole) ==
    \/ me.role = "tutor" /\ otherRole = "student" /\ AreMapped(me.id, other)
    \/ me.role = "student" /\ otherRole = "tutor" /\ AreMapped(me.id, other)

(* The last two tests of canCommunicate: which way the mapping must go.    *)
MappedPeers(me, other, otherRole) ==
    \/ me.role = "tutor" /\ otherRole = "student" /\ AreMapped(me.id, other)
    \/ me.role = "student" /\ otherRole = "tutor" /\ AreMapped(other, me.id)

(* The caller's own id is told by its text, everything else by the id.     *)
CanCommunicate(me, text) ==
    LET other == UserOf[text] IN
    /\ me.id # text
    /\ \/ me.role = "admin"
       \/ /\ users[other].active
          /\ \/ users[other].role = "admin"
             \/ MappedPeers(me, other, users[other].role)

(* A tutor teaches a batch if some student mapped to the tutor is in it.   *)
Teaches(t, batch) == \E s \in StudentsOf(t) : users[s].batch = batch

CanAccessConversation(me, c) ==
    \/ me.role = "admin"
    \/ c.kind = "dm" /\ IsMember(me.id, c)
    \/ c.kind = "batch" /\ me.role = "tutor" /\ Teaches(me.id, c.batch)
    \/ c.kind = "batch" /\ me.role = "student" /\ me.batch = c.batch

\* Mutation of Listed: the or of the batch is outside the brackets.
ListedAnyBatch(me, c) ==
    \/ me.role = "admin"
    \/ c.kind = "dm" /\ IsMember(me.id, c)
    \/ c.kind = "batch"

(* The where clause of GET /messages/conversations. *)
Listed(me, c) ==
    \/ me.role = "admin"
    \/ c.kind = "dm" /\ IsMember(me.id, c)
    \/ c.kind = "batch" /\ c.batch = me.batch

-----------------------------------------------------------------------------
(* Properties of the helpers, between two accounts that may use the portal   *)
(* and are named by the ids the server hands out.                           *)

(* Chat and calls are mutual: whenever one may reach the other, the other   *)
(* may reach the first, in whichever role each of them is.                  *)
CommunicationIsMutual ==
    \A u, v \in UserId : (users[u].active /\ users[v].active) =>
        (CanCommunicate(Me(u), v) <=> CanCommunicate(Me(v), u))

(* The contact list hides nobody: whoever canCommunicate lets a user reach  *)
(* is in the list the client renders from peersOf.                          *)
ReachableIsContact ==
    \A u, v \in UserId : (users[u].active /\ users[v].active) =>
        (CanCommunicate(Me(u), v) => v \in Contacts(Me(u)))

(* The list of conversations is neither shorter nor longer than what may be *)
(* read: two routes that decide by different code agree for students and    *)
(* for admins.  (For a tutor they do not: the list goes by the tutor's own  *)
(* batch, the access by the batches of the mapped students.)                *)
ListMatchesAccess ==
    \A u \in UserId, c \in Conv :
        (users[u].active /\ users[u].role # "tutor") =>
            (Listed(Me(u), c) <=> CanAccessConversation(Me(u), c))

(* Both lists that the page is built from agree with the test behind them.  *)
ListsAgree == ReachableIsContact /\ ListMatchesAccess
=============================================================================
