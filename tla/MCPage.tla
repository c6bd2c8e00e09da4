-------------------------------- MODULE MCPage --------------------------------
(* One page with three entries besides the chat, and two contacts. *)
EXTENDS Page, TLC

CONSTANTS announce, overview, users, p1, p2, f1, f2, o1, o2, j1, j2

MCItem    == {announce, overview, users}
MCStatic  == {announce}
MCWaiting == {overview}
MCActing  == {overview, users}

Sym == Permutations({p1, p2}) \cup Permutations({f1, f2})
         \cup Permutations({o1, o2}) \cup Permutations({j1, j2})
=============================================================================
