-------------------------------- MODULE Channels --------------------------------
(***************************************************************************)
(* What the server promises about its channels, without requests, queries  *)
(* or copies of rows.  Messaging implements it.                            *)
(*                                                                         *)
(* A permit is given in one moment, to who is entitled in that moment, and *)
(* is used once, later.  Losing the mapping, the batch or the role in the  *)
(* meantime takes no permit away; and nothing happens to a channel without *)
(* one.                                                                    *)
(***************************************************************************)
CONSTANTS User, Batch

VARIABLES
    mapped,     \* the pairs of users that are mapped to each other
    attends,    \* who is in which batch, or teaches somebody of it
    admins,     \* the active admins
    channels,   \* the channels there are
    permits,    \* who may do what once, and has not done it yet
    posted,     \* who has a message in which channel
    shown       \* who has been shown the messages of which channel

vars == <<mapped, attends, admins, channels, permits, posted, shown>>

Pair == {{u, v} : u, v \in User}

Private(pair) == [kind |-> "dm", members |-> pair]

Common(b) == [kind |-> "batch", batch |-> b]

Init ==
    /\ mapped \in SUBSET Pair
    /\ attends \in SUBSET (User \X Batch)
    /\ admins \in SUBSET User
    /\ channels = {}
    /\ permits = {}
    /\ posted = {}
    /\ shown = {}

Insider(u, c) ==
    \/ c.kind = "dm" /\ u \in c.members
    \/ c.kind = "batch" /\ <<u, c.batch>> \in attends

(* A DM is opened by one of two users who are mapped, or one of whom is an   *)
(* admin.  An admin reads everything, and posts in every channel but the DMs *)
(* of others.                                                                *)
Entitled(p) ==
    \/ /\ p.to = "open" /\ p.channel.kind = "dm" /\ Insider(p.by, p.channel)
       /\ p.channel.members \in mapped \/ p.channel.members \cap admins # {}
    \/ /\ p.to = "post" /\ p.channel \in channels
       /\ Insider(p.by, p.channel) \/ (p.channel.kind = "batch" /\ p.by \in admins)
    \/ /\ p.to = "read" /\ p.channel \in channels
       /\ Insider(p.by, p.channel) \/ p.by \in admins

Permit(to, u, c) == [to |-> to, by |-> u, channel |-> c]

(* Rights come and go; but nobody becomes an admin. *)
Reassign ==
    /\ mapped' \in SUBSET Pair
    /\ attends' \in SUBSET (User \X Batch)
    /\ admins' \in SUBSET admins
    /\ UNCHANGED <<channels, permits, posted, shown>>

Grant(p) ==
    /\ Entitled(p)
    /\ permits' = permits \cup {p}
    /\ UNCHANGED <<mapped, attends, admins, channels, posted, shown>>

(* A permit lapses: the request was refused later, or it failed.  Of two     *)
(* equal permits one may be left, here as in Spent.                          *)
Lapse ==
    /\ permits' \in SUBSET permits
    /\ UNCHANGED <<mapped, attends, admins, channels, posted, shown>>

Spent(p) ==
    /\ permits' \in {permits, permits \ {p}}
    /\ UNCHANGED <<mapped, attends, admins>>

Open(p) ==
    /\ p.to = "open"
    /\ channels' = channels \cup {p.channel}
    /\ Spent(p)
    /\ UNCHANGED <<posted, shown>>

Post(p) ==
    /\ p.to = "post"
    /\ posted' = posted \cup {<<p.by, p.channel>>}
    /\ Spent(p)
    /\ UNCHANGED <<channels, shown>>

Show(p) ==
    /\ p.to = "read"
    /\ shown' = shown \cup {<<p.by, p.channel>>}
    /\ Spent(p)
    /\ UNCHANGED <<channels, posted>>

Found(b) ==
    /\ channels' = channels \cup {Common(b)}
    /\ UNCHANGED <<mapped, attends, admins, permits, posted, shown>>

Next ==
    \/ Reassign \/ Lapse
    \/ \E p \in permits : Open(p) \/ Post(p) \/ Show(p)
    \/ \E u \in User :
          \/ \E pair \in Pair : Grant(Permit("open", u, Private(pair)))
          \/ \E c \in channels : Grant(Permit("post", u, c)) \/ Grant(Permit("read", u, c))
    \/ \E b \in Batch : Found(b)

Spec == Init /\ [][Next]_vars
=============================================================================
