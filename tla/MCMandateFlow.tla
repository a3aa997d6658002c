---------------------------- MODULE MCMandateFlow ----------------------------
(* Two things with the same estimate; two of the four postures.     *)
EXTENDS MandateFlow, TLC

MCPlancher == [t \in Thing |-> 1]
MCHaut == [t \in Thing |-> 2]
Symmetry == Permutations(Thing)
=============================================================================
