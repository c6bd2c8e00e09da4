------------------------------ MODULE SessionLife ------------------------------
(***************************************************************************)
(* What the server promises about the sessions of its accounts, without    *)
(* requests or statements.  Sessions implements it.                        *)
(*                                                                         *)
(* An account opens once and closes once.  While it is closing, handlers   *)
(* that found it open may still be given tokens, which are late: they can  *)
(* be held but not exchanged.  A closed account has no token that works,   *)
(* and stays closed.                                                       *)
(***************************************************************************)
CONSTANTS User, Token, NoUser, NoToken

VARIABLES
    standing,   \* of each account: "absent", "open", "closing" or "closed"
    state,      \* of each token: "unborn", "live", "spent"; "late", "void"
    holder,     \* the account of each token
    origin      \* the token each was obtained for, NoToken for a log-in

vars == <<standing, state, holder, origin>>

Init ==
    /\ standing \in [User -> {"absent", "open"}]
    /\ state = [t \in Token |-> "unborn"]
    /\ holder = [t \in Token |-> NoUser]
    /\ origin = [t \in Token |-> NoToken]

Usable(u) == {t \in Token : holder[t] = u /\ state[t] \in {"live", "late"}}

Register(u) ==
    /\ standing[u] = "absent"
    /\ standing' = [standing EXCEPT ![u] = "open"]
    /\ UNCHANGED <<state, holder, origin>>

(* A log-in, or the exchange of a token of the same account that is spent    *)
(* and was not late.                                                         *)
Issue(t, u, from) ==
    /\ state[t] = "unborn"
    /\ from # NoToken => state[from] = "spent" /\ holder[from] = u
    /\ \/ standing[u] = "open" /\ state' = [state EXCEPT ![t] = "live"]
       \/ standing[u] = "closing" /\ state' = [state EXCEPT ![t] = "late"]
    /\ holder' = [holder EXCEPT ![t] = u]
    /\ origin' = [origin EXCEPT ![t] = from]
    /\ UNCHANGED standing

Deactivate(u) ==
    /\ standing[u] = "open"
    /\ \/ standing' = [standing EXCEPT ![u] = "closing"]
       \/ standing' = [standing EXCEPT ![u] = "closed"] /\ Usable(u) = {}
    /\ UNCHANGED <<state, holder, origin>>

(* Tokens are revoked or expire, and accounts that were closing are closed   *)
(* when none of theirs is left.                                              *)
Retire ==
    /\ UNCHANGED <<holder, origin>>
    /\ state' \in [Token -> {"unborn", "live", "spent", "late", "void"}]
    /\ \A t \in Token :
          \/ state'[t] = state[t]
          \/ state[t] = "live" /\ state'[t] = "spent"
          \/ state[t] = "late" /\ state'[t] = "void"
    /\ standing' \in [User -> {"absent", "open", "closing", "closed"}]
    /\ \A u \in User :
          \/ standing'[u] = standing[u]
          \/ standing[u] = "closing" /\ standing'[u] = "closed" /\ Usable(u)' = {}

Next ==
    \/ Retire
    \/ \E u \in User : Register(u) \/ Deactivate(u)
    \/ \E t \in Token, u \in User, from \in Token \cup {NoToken} : Issue(t, u, from)

Spec == Init /\ [][Next]_vars
=============================================================================
