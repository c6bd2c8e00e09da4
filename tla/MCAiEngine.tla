------------------------------ MODULE MCAiEngine ------------------------------
(* AiEngine on small instances: one student with two jobs at a time, or a    *)
(* tutor with two students and one job.                                      *)
EXTENDS AiEngine, TLC

CONSTANTS tut, stu, stu2, j1, j2

MCClass   == {tut, stu, stu2}
MCStudent == {stu}
MCPupils  == {stu, stu2}
MCNothing == {}

MCRole ==
    [u \in User |-> IF u = tut THEN "tutor" ELSE "student"]

MCOneJob  == {j1}
MCTwoJobs == {j1, j2}

(* The first version of the records has study time, the second has none but  *)
(* earns a badge.                                                            *)
MCStudied == {1}
MCEarned  == [v \in 1..MaxEvidence |-> IF v = 2 THEN {"all_assignments"} ELSE {}]

Sym == Permutations(MCTwoJobs)
=============================================================================
