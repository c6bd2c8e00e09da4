---------------------------- MODULE MCNotifications ----------------------------
(* Notifications on a small instance: the user of the page and one other, two *)
(* calls of the notifier, two requests of the page at a time.                 *)
EXTENDS Notifications, TLC

CONSTANTS me, you, c1, c2, a1, a2

MCUser == {me, you}
MCCall == {c1, c2}
MCAsk  == {a1, a2}

Sym == Permutations(MCCall) \cup Permutations(MCAsk)
=============================================================================
