------------------------------ MODULE MCScoring ------------------------------
(* Scoring with four possible mock results, from nothing to full marks.      *)
EXTENDS Scoring

MCMockScore == {0, 450, 800, 1000}
=============================================================================
