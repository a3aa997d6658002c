---------------------------- MODULE MCPublishFlow ----------------------------
(* Two things, two listings, symmetry of the flows.                         *)
EXTENDS PublishFlow, TLC

Symmetry == Permutations(Flow) \cup Permutations(Listing) \cup Permutations(Thing)
=============================================================================
