------------------------------ MODULE CallClient ------------------------------
(***************************************************************************)
(* Calls as one page sees them (web/app.js): startCall, the modal of an    *)
(* incoming call, joinMeeting with its two awaits, endMeeting, and the     *)
(* events of the socket server.                                            *)
(*                                                                         *)
(* That server is not in the tree.  Assumed of it, after docs/API.md: a    *)
(* ring makes a call that the other party may take or refuse while it      *)
(* rings, the caller may cancel and a timer may end; either may hang up;   *)
(* whoever did not act is told.  It answers a ring when it likes.          *)
(***************************************************************************)
EXTENDS ChatClient

CONSTANTS
    Joining,    \* slots for the calls of joinMeeting
    MaxCalls    \* bound: calls that anybody makes

ASSUME CallAssumption == MaxCalls \in Nat

VARIABLES
    calls,      \* the server's calls, in the order they were made
    up,         \* what the page has emitted and the server not yet handled
    unacked,    \* the calls of this page whose ring is not yet answered
    incoming,   \* state.incoming; 0: null, and the modal is hidden
    active,     \* state.activeCallId; 0: null
    joining,    \* the calls of joinMeeting under way
    script,     \* jitsiApiLoaded: the promise of external_api.js
    room,       \* the meeting in the overlay, of which call; NoRoom: hidden
    told,       \* history: the calls whose end the page has been told
    steady,     \* history: no other chat was opened between ring and answer
    single,     \* history: no ring while another was alive, no broken socket
    intact      \* history: no end of a call has overtaken its meeting

callVars == <<calls, up, unacked, incoming, active, joining, script, room,
              told, steady, single, intact>>
callHistory == <<told, steady, single, intact>>

NoRoom == [peer |-> None, call |-> 0]
Off == [pc |-> "free", peer |-> None, call |-> 0]

CallTypeOK ==
    /\ Len(calls) <= MaxCalls
    /\ \A c \in DOMAIN calls :
          calls[c] \in [peer: Peer, by: {"me", "peer"},
                        status: {"rings", "taken", "over"}]
    /\ unacked \subseteq DOMAIN calls /\ told \subseteq DOMAIN calls
    /\ incoming \in 0..Len(calls) /\ active \in 0..Len(calls)
    /\ joining \in [Joining -> [pc: {"free", "meet", "load"},
                                peer: Peer \cup {None}, call: 0..Len(calls)]]
    /\ script \in {"unasked", "loading", "loaded", "failed"}
    /\ room \in [peer: Peer \cup {None}, call: 0..Len(calls)]
    /\ {steady, single, intact} \subseteq BOOLEAN

CallInit ==
    /\ calls = <<>> /\ up = <<>> /\ unacked = {}
    /\ incoming = 0 /\ active = 0
    /\ joining = [j \in Joining |-> Off]
    /\ script = "unasked"
    /\ room = NoRoom
    /\ told = {} /\ steady = TRUE /\ single = TRUE /\ intact = TRUE

-----------------------------------------------------------------------------
(* The page. *)

Emit(kind, c) == up' = Append(up, [kind |-> kind, call |-> c, peer |-> None])

JoinMeeting(j, p, c) ==
    /\ joining[j].pc = "free"
    /\ joining' = [joining EXCEPT ![j] = [pc |-> "meet", peer |-> p, call |-> c]]

(* A ring of this page has not been answered yet. *)
Ringing ==
    \/ unacked # {}
    \/ \E i \in DOMAIN up : up[i].kind = "ring"
    \/ \E i \in DOMAIN down : down[i].kind = "ack"

Mine(c) == calls[c].by = "me"

(* startCall *)
StartCall ==
    /\ current # None /\ view.of = Chat /\ Move
    /\ up' = Append(up, [kind |-> "ring", call |-> 0, peer |-> current])
    /\ single' = (single /\ ~Ringing
                    /\ \A c \in DOMAIN calls : Mine(c) => calls[c].status = "over")
    /\ UNCHANGED <<down, calls, unacked, incoming, active, joining, script, room,
                   told, steady, intact>>

(* The answer: the meeting is with whoever is current by now. *)
Answered(j) ==
    LET c == Head(down).n
    IN  /\ TakeEvent /\ Head(down).kind = "ack"
        /\ active' = c
        /\ JoinMeeting(j, current, c)
        /\ intact' = (intact /\ c \notin told)
        /\ UNCHANGED <<moves, calls, up, unacked, incoming, script, room, told,
                       steady, single>>

\* Mutation of ShowIncoming: the caller is noted, the call is not.
ShowIncomingCaller ==
    /\ TakeEvent /\ Head(down).kind = "incoming"
    /\ incoming' \in {incoming, calls[Head(down).n].peer}
    /\ UNCHANGED <<moves, calls, up, unacked, active, joining, script, room>>
    /\ UNCHANGED callHistory

(* call:incoming; with do-not-disturb on nothing is shown. *)
ShowIncoming ==
    /\ TakeEvent /\ Head(down).kind = "incoming"
    /\ incoming' \in {incoming, Head(down).n}
    /\ UNCHANGED <<moves, calls, up, unacked, active, joining, script, room>>
    /\ UNCHANGED callHistory

\* Mutation of Accept: the meeting is with whoever is current.
AcceptCurrent(j) ==
    /\ incoming # 0 /\ Move
    /\ Emit("accept", incoming)
    /\ incoming' = 0
    /\ JoinMeeting(j, current, incoming)
    /\ UNCHANGED <<down, calls, unacked, active, script, room>>
    /\ UNCHANGED callHistory

(* The page takes it for granted that the call still rings. *)
Accept(j) ==
    /\ incoming # 0 /\ Move
    /\ Emit("accept", incoming)
    /\ incoming' = 0
    /\ JoinMeeting(j, calls[incoming].peer, incoming)
    /\ UNCHANGED <<down, calls, unacked, active, script, room>>
    /\ UNCHANGED callHistory

Decline ==
    /\ incoming # 0 /\ Move
    /\ Emit("decline", incoming)
    /\ incoming' = 0
    /\ UNCHANGED <<down, calls, unacked, active, joining, script, room>>
    /\ UNCHANGED callHistory

(* call:cancelled hides the modal, of whichever call it is. *)
HideIncoming ==
    /\ TakeEvent /\ Head(down).kind = "cancelled"
    /\ incoming' = 0
    /\ UNCHANGED <<moves, calls, up, unacked, active, joining, script, room>>
    /\ UNCHANGED callHistory

\* Mutation of EndMeeting: nothing to do for a page that did not ring.
EndMeetingOfCaller ==
    /\ IF active = 0 THEN UNCHANGED <<up, room>>
       ELSE Emit("hangup", active) /\ room' = NoRoom
    /\ active' = 0

\* Mutation of EndMeeting: the id is forgotten before it is sent.
EndMeetingForgets == active' = 0 /\ room' = NoRoom /\ UNCHANGED up

(* endMeeting hangs up the call that is noted, whichever has ended. *)
EndMeeting ==
    /\ IF active = 0 THEN UNCHANGED up ELSE Emit("hangup", active)
    /\ active' = 0
    /\ room' = NoRoom

(* The button of the overlay, or readyToClose. *)
PressEnd ==
    /\ room # NoRoom /\ Move
    /\ EndMeeting
    /\ intact' = (intact /\ \A j \in Joining : joining[j].pc = "free")
    /\ UNCHANGED <<down, calls, unacked, incoming, joining, script, told, steady,
                   single>>

(* call:declined, call:ended, call:timeout *)
CallOver ==
    /\ TakeEvent /\ Head(down).kind = "over"
    /\ EndMeeting
    /\ told' = told \cup {Head(down).n}
    /\ intact' = (intact /\ \A j \in Joining : joining[j].pc = "free")
    /\ UNCHANGED <<moves, calls, unacked, incoming, joining, script, steady, single>>

(* joinMeeting behind its first await: loadJitsi, once for the page. *)
MeetAnswered(j) ==
    /\ joining[j].pc = "meet"
    /\ \/ /\ joining' = [joining EXCEPT ![j].pc = "load"]
          /\ script' = IF script = "unasked" THEN "loading" ELSE script
       \/ joining' = [joining EXCEPT ![j] = Off] /\ UNCHANGED script
    /\ UNCHANGED <<moves, down, calls, up, unacked, incoming, active, room>>
    /\ UNCHANGED callHistory

LoadScript ==
    /\ script = "loading"
    /\ script' \in {"loaded", "failed"}
    /\ UNCHANGED <<moves, down, calls, up, unacked, incoming, active, joining, room>>
    /\ UNCHANGED callHistory

(* Behind the second await: the meeting is opened over any other. *)
OpenRoom(j) ==
    /\ joining[j].pc = "load" /\ script \in {"loaded", "failed"}
    /\ room' = IF script = "loaded"
               THEN [peer |-> joining[j].peer, call |-> joining[j].call] ELSE room
    /\ joining' = [joining EXCEPT ![j] = Off]
    /\ UNCHANGED <<moves, down, calls, up, unacked, incoming, active, script>>
    /\ UNCHANGED callHistory

-----------------------------------------------------------------------------
(* The server. *)

Push(kind, c) == down' = Append(down, [kind |-> kind, of |-> None, n |-> c])
Becomes(c, s) == calls' = [calls EXCEPT ![c].status = s]
MakeCall(p, by) ==
    /\ Len(calls) < MaxCalls
    /\ calls' = Append(calls, [peer |-> p, by |-> by, status |-> "rings"])

pageCalls == <<incoming, active, joining, script, room, told, steady, single>>

(* A ring is refused, and the page told so, or makes a call. *)
ServeRing ==
    /\ up # <<>> /\ Head(up).kind = "ring"
    /\ up' = Tail(up)
    /\ \/ UNCHANGED <<calls, unacked>>
       \/ MakeCall(Head(up).peer, "me") /\ unacked' = unacked \cup {Len(calls) + 1}
    /\ UNCHANGED <<moves, down, pageCalls, intact>>

Ack(c) ==
    /\ c \in unacked
    /\ unacked' = unacked \ {c}
    /\ Push("ack", c)
    /\ UNCHANGED <<moves, calls, up, pageCalls, intact>>

(* What the page asks of a call that is over changes nothing. *)
ServeRest ==
    LET c == Head(up).call
    IN  /\ up # <<>> /\ Head(up).kind # "ring"
        /\ up' = Tail(up)
        /\ CASE Head(up).kind = "accept" /\ calls[c].status = "rings"  -> Becomes(c, "taken")
             [] Head(up).kind = "decline" /\ calls[c].status = "rings" -> Becomes(c, "over")
             [] Head(up).kind = "hangup"                               -> Becomes(c, "over")
             [] OTHER                                                  -> UNCHANGED calls
        /\ intact' = (intact /\ ~(Head(up).kind = "accept" /\ calls[c].status # "rings"))
        /\ UNCHANGED <<moves, down, unacked, pageCalls>>

RingMe(p) ==
    /\ MakeCall(p, "peer") /\ Move
    /\ Push("incoming", Len(calls) + 1)
    /\ UNCHANGED <<up, unacked, pageCalls, intact>>

(* The other party takes the call: a toast. *)
PeerAccepts(c) ==
    /\ calls[c] = [calls[c] EXCEPT !.by = "me", !.status = "rings"]
    /\ Becomes(c, "taken")
    /\ UNCHANGED <<moves, down, up, unacked, pageCalls, intact>>

(* The other party, or the timer, ends it. *)
PeerEnds(c) ==
    /\ calls[c].status # "over"
    /\ Becomes(c, "over")
    /\ IF ~Mine(c) /\ calls[c].status = "rings" THEN Push("cancelled", c)
                                                ELSE Push("over", c)
    /\ UNCHANGED <<moves, up, unacked, pageCalls, intact>>

(* With the socket goes what was on its way. *)
Cut ==
    /\ up' = <<>> /\ unacked' = {}
    /\ single' = FALSE /\ intact' = FALSE
    /\ UNCHANGED <<calls, incoming, active, joining, script, room, told, steady>>

CallNext ==
    \/ StartCall \/ ShowIncoming \/ Decline \/ HideIncoming \/ PressEnd \/ CallOver
    \/ LoadScript \/ ServeRing \/ ServeRest
    \/ \E j \in Joining : Answered(j) \/ Accept(j) \/ MeetAnswered(j) \/ OpenRoom(j)
    \/ \E p \in Peer : RingMe(p)
    \/ \E c \in DOMAIN calls : Ack(c) \/ PeerAccepts(c) \/ PeerEnds(c)

-----------------------------------------------------------------------------

(* The meeting in the overlay is that of the two who are in the call, for    *)
(* the caller unless another chat was opened between the ring and its answer. *)
RightRoom ==
    (steady /\ room # NoRoom) => room.peer = calls[room.call].peer

Still ==
    /\ up = <<>> /\ down = <<>> /\ unacked = {}
    /\ \A j \in Joining : joining[j].pc = "free"

(* The page has no button for a call that it does not note as active: when   *)
(* it notes none, no call that it made may be left alive at the server.      *)
NoCallLeft ==
    (single /\ Still /\ active = 0) =>
        \A c \in DOMAIN calls : Mine(c) => calls[c].status = "over"

(* A meeting does not outlive its call, unless the end of the call reached   *)
(* the page, or the server, before the meeting was open.                     *)
RoomGone ==
    (intact /\ Still /\ room # NoRoom) => calls[room.call].status # "over"
=============================================================================
