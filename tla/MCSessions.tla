------------------------------ MODULE MCSessions ------------------------------
(* Sessions on a small instance: one admin and one ordinary account, three   *)
(* refresh tokens, two requests in flight.                                   *)
EXTENDS Sessions, TLC

CONSTANTS adm, usr, t1, t2, t3, r1, r2

MCUser    == {adm, usr}
MCAdmins  == {adm}
MCToken   == {t1, t2, t3}
MCRequest == {r1, r2}

Sym == Permutations(MCToken) \cup Permutations(MCRequest)
=============================================================================
