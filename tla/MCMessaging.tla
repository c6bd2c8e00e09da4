----------------------------- MODULE MCMessaging -----------------------------
(* Messaging with an admin (1), a tutor (2), a student (3) in the only batch, *)
(* and an id (4) that POST /admin/users may give out.  0 is the student's id  *)
(* in upper case, which JavaScript sorts before all the others.               *)
EXTENDS Messaging, TLC

CONSTANTS b1, q1, q2, q3

MCUserId  == 1..4
MCText    == 0..4
MCUserOf  == [x \in MCText |-> IF x = 0 THEN 3 ELSE x]
MCBatch   == {b1}
MCRequest == {q1, q2, q3}

MCSeed == [u \in MCUserId |->
    CASE u = 1 -> [role |-> "admin", batch |-> NoBatch, active |-> TRUE]
      [] u = 2 -> [role |-> "tutor", batch |-> NoBatch, active |-> TRUE]
      [] u = 3 -> [role |-> "student", batch |-> b1, active |-> TRUE]
      [] u = 4 -> NoRow]

MCMapped   == {<<2, 3>>}

Sym == Permutations(MCRequest)
=============================================================================
