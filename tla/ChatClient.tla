------------------------------ MODULE ChatClient ------------------------------
(***************************************************************************)
(* The chat pane of one page (web/app.js): openChat with its two awaits,   *)
(* the room the socket joins in between, and the messages that arrive by   *)
(* socket.  A conversation is named by the contact it is with; a message   *)
(* by its conversation and its place in it.                                *)
(*                                                                         *)
(* The socket server is not in the tree.  Assumed of it: a message is      *)
(* inserted, then broadcast to the sockets in the room; events reach a     *)
(* page in the order they were emitted to it; a connection that breaks     *)
(* loses its rooms and the events on their way.                            *)
(***************************************************************************)
EXTENDS Views

CONSTANTS
    Peer,       \* the contacts
    Opening,    \* slots for the calls of openChat
    None        \* nobody

ASSUME ChatAssumption == None \notin Peer

VARIABLES
    current,    \* the contact whose name is shown over the pane
    convId,     \* the conversation noted in each contact (current.convId)
    pane,       \* the messages drawn
    opening,    \* the calls of openChat under way
    joins,      \* the conv:join requests under way
    rooms,      \* the rooms this page's socket is in
    count,      \* the messages of each conversation in the database
    posted,     \* those that are inserted and not yet broadcast
    down,       \* the events on their way to the page
    exact       \* history: nothing has disturbed the opening of current

chatVars ==
    <<current, convId, pane, opening, joins, rooms, count, posted, down, exact>>

Message == [of: Peer, n: 1..MaxMoves]
Idle == [pc |-> "free", peer |-> None, conv |-> None, seen |-> 0]
Arrival(m) == [kind |-> "message", of |-> m.of, n |-> m.n]

ChatTypeOK ==
    /\ current \in Peer \cup {None}
    /\ convId \in [Peer -> Peer \cup {None}]
    /\ \A i \in DOMAIN pane : pane[i] \in Message
    /\ opening \in [Opening -> [pc: {"free", "dm", "found", "history", "answered"},
                                peer: Peer \cup {None}, conv: Peer \cup {None},
                                seen: 0..MaxMoves]]
    /\ joins \subseteq Peer /\ rooms \subseteq Peer
    /\ count \in [Peer -> 0..MaxMoves]
    /\ posted \subseteq Message
    /\ exact \in BOOLEAN

(* A page that has just started, or has opened one chat before. *)
ChatInit ==
    /\ current \in Peer \cup {None}
    /\ rooms = {current} \ {None}
    /\ convId = [p \in Peer |-> IF p = current THEN p ELSE None]
    /\ exact = (current # None)
    /\ pane = <<>> /\ down = <<>>
    /\ opening = [o \in Opening |-> Idle]
    /\ joins = {} /\ posted = {}
    /\ count = [p \in Peer |-> 0]

-----------------------------------------------------------------------------

(* No opening is under way, and its room is joined or will not be. *)
Opened == joins = {} /\ \A o \in Opening : opening[o].pc = "free"

(* No message of the conversation is on its way to the page. *)
Quiet(p) ==
    /\ \A m \in posted : m.of # p
    /\ \A i \in DOMAIN down : down[i].kind = "message" => down[i].of # p

History(p, k) == [n \in 1..k |-> [of |-> p, n |-> n]]

(* A click on a contact. *)
OpenChat(o, p) ==
    /\ opening[o].pc = "free" /\ view.of = Chat
    /\ Move
    /\ current' = p
    /\ opening' = [opening EXCEPT ![o] = [Idle EXCEPT !.pc = "dm", !.peer = p]]
    /\ exact' = (Opened /\ Quiet(p))
    /\ UNCHANGED <<convId, pane, joins, rooms, count, posted, down>>

(* POST /messages/dm/:peerId *)
ServeDm(o) ==
    /\ opening[o].pc = "dm"
    /\ opening' = [opening EXCEPT ![o].pc = "found", ![o].conv = opening[o].peer]
    /\ UNCHANGED <<moves, current, convId, pane, joins, rooms,
                   count, posted, down, exact>>

(* Behind the first await: the contact that is current by now takes the id.  *)
(* An error has none, and its room and history are asked for all the same.   *)
AskHistory(o) ==
    LET c == opening[o].conv
    IN  /\ opening[o].pc = "found"
        /\ convId' = [convId EXCEPT ![current] = c]
        /\ joins' = joins \cup ({c} \ {None})
        /\ opening' = [opening EXCEPT ![o].pc = "history"]
        /\ UNCHANGED <<moves, current, pane, rooms, count, posted, down, exact>>

(* GET .../messages *)
ServeHistory(o) ==
    /\ opening[o].pc = "history" /\ opening[o].conv # None
    /\ opening' = [opening EXCEPT ![o].pc = "answered",
                                  ![o].seen = count[opening[o].conv]]
    /\ UNCHANGED <<moves, current, convId, pane, joins, rooms,
                   count, posted, down, exact>>

(* Behind the second await.  What the socket brought meanwhile is wiped. *)
DrawHistory(o) ==
    /\ opening[o].pc = "answered"
    /\ pane' = History(opening[o].conv, opening[o].seen)
    /\ opening' = [opening EXCEPT ![o] = Idle]
    /\ UNCHANGED <<moves, current, convId, joins, rooms,
                   count, posted, down, exact>>

(* An error of the first request leaves no conversation, one of the second   *)
(* empties the pane and throws; a connection that breaks ends openChat.      *)
FailOpening(o) ==
    /\ opening[o].pc \in {"dm", "history"}
    /\ exact' = FALSE
    /\ \/ /\ opening[o].pc = "dm"
          /\ opening' = [opening EXCEPT ![o].pc = "found"]
          /\ UNCHANGED pane
       \/ /\ opening[o].pc = "history"
          /\ opening' = [opening EXCEPT ![o] = Idle]
          /\ pane' = <<>>
       \/ /\ opening' = [opening EXCEPT ![o] = Idle]
          /\ UNCHANGED pane
    /\ UNCHANGED <<moves, current, convId, joins, rooms, count, posted, down>>

-----------------------------------------------------------------------------
(* The server, and the sockets. *)

(* conv:join; a refusal is not looked at. *)
JoinRoom(p) ==
    /\ p \in joins
    /\ joins' = joins \ {p}
    /\ \/ rooms' = rooms \cup {p} /\ UNCHANGED exact
       \/ UNCHANGED rooms /\ exact' = FALSE
    /\ UNCHANGED <<moves, current, convId, pane, opening, count, posted, down>>

(* A message of the contact, of another page of this account, or of this one *)
(* (sendMsg).                                                                *)
Post(p) ==
    /\ count[p] < MaxMoves /\ Move
    /\ count' = [count EXCEPT ![p] = @ + 1]
    /\ posted' = posted \cup {[of |-> p, n |-> count[p] + 1]}
    /\ exact' = (exact /\ (p = current =>
                    Opened /\ p \in rooms /\ \A m \in posted : m.of # p))
    /\ UNCHANGED <<current, convId, pane, opening, joins, rooms, down>>

Broadcast(m) ==
    /\ m \in posted
    /\ posted' = posted \ {m}
    /\ down' = IF m.of \in rooms THEN Append(down, Arrival(m)) ELSE down
    /\ UNCHANGED <<moves, current, convId, pane, opening, joins, rooms,
                   count, exact>>

TakeEvent == down # <<>> /\ down' = Tail(down)

\* Mutation of Arrive: whatever arrives is drawn.
ArriveAnywhere ==
    /\ TakeEvent /\ Head(down).kind = "message"
    /\ pane' = Append(pane, [of |-> Head(down).of, n |-> Head(down).n])
    /\ UNCHANGED <<moves, current, convId, opening, joins, rooms,
                   count, posted, exact>>

(* socket.on('message'): rooms are never left, so the test is needed. *)
Arrive ==
    /\ TakeEvent /\ Head(down).kind = "message"
    /\ pane' = IF current # None /\ convId[current] = Head(down).of
               THEN Append(pane, [of |-> Head(down).of, n |-> Head(down).n])
               ELSE pane
    /\ UNCHANGED <<moves, current, convId, opening, joins, rooms,
                   count, posted, exact>>

(* The socket reconnects by itself, and joins no room again. *)
Reconnect ==
    /\ rooms' = {} /\ joins' = {} /\ down' = <<>> /\ exact' = FALSE
    /\ UNCHANGED <<current, convId, pane, opening, count, posted>>

ChatNext ==
    \/ \E o \in Opening :
        \/ \E p \in Peer : OpenChat(o, p)
        \/ ServeDm(o) \/ AskHistory(o) \/ ServeHistory(o) \/ DrawHistory(o)
        \/ FailOpening(o)
    \/ \E p \in Peer : JoinRoom(p) \/ Post(p)
    \/ \E m \in posted : Broadcast(m)
    \/ Arrive

-----------------------------------------------------------------------------

(* The pane shows the conversation of the contact in its header, every       *)
(* message once and in order, whatever other rooms the socket is still in.   *)
(* That is when the user waited for the chat to open, nobody wrote in it     *)
(* while it opened, and the socket has held since.                           *)
PaneExact ==
    (exact /\ Opened /\ Quiet(current)) =>
        /\ convId[current] = current
        /\ pane = History(current, count[current])
=============================================================================
