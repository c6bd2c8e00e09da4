--------------------------------- MODULE Page ---------------------------------
(***************************************************************************)
(* One page: its views, its chat and its calls.  They share the user's     *)
(* clicks, the socket, and the contact that is current: a chat can be      *)
(* clicked only while the list is shown, and a call rings that contact.    *)
(***************************************************************************)
EXTENDS CallClient

Init == ViewsInit /\ ChatInit /\ CallInit

(* The user opens a chat, and another one may be ringing. *)
Chatting ==
    /\ ChatNext
    /\ steady' = (steady /\ (current' = current \/ ~Ringing))
    /\ UNCHANGED <<viewVars, calls, up, unacked, incoming, active, joining, script,
                   room, told, single, intact>>

CallingOnly ==
    /\ CallNext
    /\ UNCHANGED <<viewVars, current, convId, pane, opening, joins, rooms, count,
                   posted, exact>>

Next ==
    \/ ViewsNext /\ UNCHANGED <<chatVars, callVars>>
    \/ Chatting
    \/ CallingOnly
    \/ Reconnect /\ Cut /\ Move /\ UNCHANGED viewVars

vars == <<viewVars, chatVars, callVars, moves>>
Spec == Init /\ [][Next]_vars

TypeOK == ViewsTypeOK /\ ChatTypeOK /\ CallTypeOK
=============================================================================
