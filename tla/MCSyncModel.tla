----------------------------- MODULE MCSyncModel -----------------------------
(* Anonymous channels and event keys, interchangeable as in the generators. *)
EXTENDS SyncModel, TLC

MCSymmetry == Permutations(Channel) \cup Permutations(EventKey)
=============================================================================
