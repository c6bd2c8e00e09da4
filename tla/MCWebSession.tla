----------------------------- MODULE MCWebSession -----------------------------
(* Two pages of one browser and two requests at a time. *)
EXTENDS WebSession

CONSTANTS a, b, t1, t2
=============================================================================
