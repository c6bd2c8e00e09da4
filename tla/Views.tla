-------------------------------- MODULE Views ---------------------------------
(***************************************************************************)
(* The navigation of one page (web/app.js): the entries of the side bar,   *)
(* the views they draw over the chat, and the buttons in the views that    *)
(* change something and draw again.  A view is an answer of the server:    *)
(* between the click and the drawing the user may click elsewhere, and the *)
(* view that is drawn last stays, whatever entry is highlighted.           *)
(*                                                                         *)
(* What the answers contain is a version of the server's tables.           *)
(***************************************************************************)
EXTENDS Naturals, Sequences

CONSTANTS
    Item,       \* the entries of the side bar besides the chat
    Static,     \* those that draw without asking the server
    Waiting,    \* those that say "Loading" until they are answered
    Acting,     \* those whose view has buttons that change something
    Fetch,      \* slots for the requests of the views
    MaxMoves    \* bound: clicks on the page, and what others do

ASSUME ViewsAssumption ==
    /\ Static \cup Waiting \cup Acting \subseteq Item
    /\ Static \cap (Waiting \cup Acting) = {}
    /\ MaxMoves \in Nat

VARIABLES
    nav,        \* the entry that is highlighted
    view,       \* what is drawn, and the version its answer saw; 0: loading
    fetch,      \* the requests under way
    version,    \* the version of the server's tables
    moves,
    own,        \* history: the version that this page's last change made
    chosen,     \* history: the last entry clicked, the bell included
    patient     \* history: no click while a view was under way, no error

viewVars == <<nav, view, fetch, version, own, chosen, patient>>

Chat == "chat"
Bell == "bell"

Free == [pc |-> "free", of |-> Bell, seen |-> 0]

ViewsTypeOK ==
    /\ nav \in Item \cup {Chat}
    /\ view \in [of: Item \cup {Chat, Bell}, seen: 0..version]
    /\ fetch \in [Fetch -> [pc: {"free", "change", "changed", "read", "answered"},
                            of: Item \cup {Bell}, seen: 0..version]]
    /\ version \in 1..(MaxMoves + 1)
    /\ moves \in 0..MaxMoves
    /\ own \in 0..version
    /\ chosen \in Item \cup {Chat, Bell}
    /\ patient \in BOOLEAN

ViewsInit ==
    /\ nav = Chat
    /\ view = [of |-> Chat, seen |-> 0]
    /\ fetch = [f \in Fetch |-> Free]
    /\ version = 1
    /\ moves = 0
    /\ own = 0
    /\ chosen = Chat
    /\ patient = TRUE

Move == moves < MaxMoves /\ moves' = moves + 1

Settled == \A f \in Fetch : fetch[f].pc = "free"

Ask(f, pc, i) == fetch' = [fetch EXCEPT ![f] = [pc |-> pc, of |-> i, seen |-> 0]]

(* What is drawn before the answer. *)
Announced(i) == IF i \in Waiting THEN [of |-> i, seen |-> 0] ELSE view

-----------------------------------------------------------------------------

(* buildNav: the entry is highlighted, then its function runs.  showMessages *)
(* and adminAnnounce draw at once.                                           *)
ClickStatic(i) ==
    /\ i \in Static \cup {Chat}
    /\ Move
    /\ nav' = i /\ chosen' = i
    /\ view' = [of |-> i, seen |-> version]
    /\ patient' = (patient /\ Settled)
    /\ UNCHANGED <<fetch, version, own>>

(* The other views ask first. *)
ClickItem(f, i) ==
    /\ fetch[f].pc = "free" /\ i \in Item \ Static
    /\ Move
    /\ nav' = i /\ chosen' = i
    /\ view' = Announced(i)
    /\ Ask(f, "read", i)
    /\ patient' = (patient /\ Settled)
    /\ UNCHANGED <<version, own>>

(* The bell draws over whatever is shown and highlights nothing. *)
ClickBell(f) ==
    /\ fetch[f].pc = "free"
    /\ Move
    /\ chosen' = Bell
    /\ Ask(f, "read", Bell)
    /\ patient' = (patient /\ Settled)
    /\ UNCHANGED <<nav, view, version, own>>

(* A button of a view: create, deactivate, assign, remove, recompute.  The   *)
(* view must have been drawn, not only announced.                            *)
ClickButton(f) ==
    /\ fetch[f].pc = "free" /\ view.of \in Acting /\ view.seen # 0
    /\ Move
    /\ Ask(f, "change", view.of)
    /\ chosen' = view.of
    /\ patient' = (patient /\ Settled)
    /\ UNCHANGED <<nav, view, version, own>>

-----------------------------------------------------------------------------
(* The server. *)

ServeChange(f) ==
    /\ fetch[f].pc = "change"
    /\ version < MaxMoves + 1
    /\ version' = version + 1
    /\ own' = version + 1
    /\ fetch' = [fetch EXCEPT ![f].pc = "changed"]
    /\ UNCHANGED <<nav, view, moves, chosen, patient>>

ServeView(f) ==
    /\ fetch[f].pc = "read"
    /\ fetch' = [fetch EXCEPT ![f].pc = "answered", ![f].seen = version]
    /\ UNCHANGED <<nav, view, version, moves, own, chosen, patient>>

(* Another client changes something. *)
ChangeElsewhere ==
    /\ version < MaxMoves + 1
    /\ Move
    /\ version' = version + 1
    /\ UNCHANGED <<nav, view, fetch, own, chosen, patient>>

-----------------------------------------------------------------------------
(* The answers reach the page. *)

\* Mutation of Redraw: the view is asked for at once, and overtakes the change.
RedrawAtOnce(f) ==
    /\ fetch[f].pc = "change" /\ version < MaxMoves + 1
    /\ fetch' = [fetch EXCEPT ![f].pc = "answered", ![f].seen = version]
    /\ own' = version + 1 /\ version' = version + 1
    /\ UNCHANGED <<nav, view, moves, chosen, patient>>

(* The change has been answered: the same view again. *)
Redraw(f) ==
    /\ fetch[f].pc = "changed"
    /\ fetch' = [fetch EXCEPT ![f].pc = "read"]
    /\ view' = Announced(fetch[f].of)
    /\ UNCHANGED <<nav, version, moves, own, chosen, patient>>

(* showAdmin *)
Draw(f) ==
    /\ fetch[f].pc = "answered"
    /\ view' = [of |-> fetch[f].of, seen |-> fetch[f].seen]
    /\ fetch' = [fetch EXCEPT ![f] = Free]
    /\ UNCHANGED <<nav, version, moves, own, chosen, patient>>

(* An error, or a connection that breaks.  A failed change is toasted, or    *)
(* redrawn like any other; a body that is no array throws and draws nothing, *)
(* the rest draws what it has.                                               *)
FailView(f) ==
    /\ fetch[f].pc # "free"
    /\ \/ fetch' = [fetch EXCEPT ![f] = Free]
       \/ fetch[f].pc = "change" /\ fetch' = [fetch EXCEPT ![f].pc = "read"]
       \/ fetch[f].pc = "read" /\ fetch' = [fetch EXCEPT ![f].pc = "answered"]
    /\ patient' = FALSE
    /\ UNCHANGED <<nav, view, version, moves, own, chosen>>

ViewsNext ==
    \/ \E i \in Item \cup {Chat} : ClickStatic(i)
    \/ \E f \in Fetch :
        \/ \E i \in Item : ClickItem(f, i)
        \/ ClickBell(f) \/ ClickButton(f)
        \/ ServeChange(f) \/ ServeView(f) \/ Redraw(f) \/ Draw(f) \/ FailView(f)
    \/ ChangeElsewhere

-----------------------------------------------------------------------------

(* To a user who waits for each view before the next click, the page shows   *)
(* what was clicked last, and what this page has changed is already in it:   *)
(* each button waits for its change before it asks for the view again.       *)
ViewCurrent ==
    (patient /\ Settled) => view.of = chosen /\ view.seen >= own
=============================================================================
