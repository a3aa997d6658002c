---------------------------- MODULE MCAnalysisQueue ----------------------------
(* Two photos of a jacket and one of a lamp. *)
EXTENDS AnalysisQueue

CONSTANTS jacket1, jacket2, lamp

MCSymmetry == Permutations(Job)

MCShows == [p \in Photo |-> IF p = lamp THEN "lamp" ELSE "jacket"]
================================================================================
