--------------------------- MODULE MCMissionScreens ---------------------------
EXTENDS MissionScreens, TLC

MCMandate == {[prixAffiche |-> 3, prixMini |-> 2, livraison |-> "LES_DEUX",
               casComplexes |-> "REFUSER", autoAdjuge |-> auto] : auto \in BOOLEAN}

MCSymmetry == Permutations(Slot)
=============================================================================
