----------------------------- MODULE MCMeetings -----------------------------
(* Meetings with an admin (2), a tutor (3) and a student (4) of the only     *)
(* batch, not mapped to each other yet.  0 and 1 are the ids of the admin    *)
(* and of the student in upper case, which JavaScript sorts before the rest. *)
EXTENDS Meetings, TLC

CONSTANTS b1, q1, q2, w1, w2

MCUserId  == 2..4
MCText    == 0..4
MCUserOf  == [x \in MCText |-> IF x = 0 THEN 2 ELSE IF x = 1 THEN 4 ELSE x]
MCBatch   == {b1}
MCRequest == {q1, q2}
MCMeet    == {w1, w2}

MCSeed == [u \in MCUserId |->
    CASE u = 2 -> [role |-> "admin", batch |-> NoBatch, active |-> TRUE]
      [] u = 3 -> [role |-> "tutor", batch |-> NoBatch, active |-> TRUE]
      [] u = 4 -> [role |-> "student", batch |-> b1, active |-> TRUE]]

MCMapped == {}

Sym == Permutations(MCRequest) \cup Permutations(MCMeet)
=============================================================================
