------------------------------ MODULE MCMission ------------------------------
(* Finite instances of Mission: three mandates, of which one is refused.     *)
EXTENDS Mission, TLC

Deal(mini, policy, auto) ==
    [prixAffiche |-> 3, prixMini |-> mini, livraison |-> "ENVOI",
     casComplexes |-> policy, autoAdjuge |-> auto]
MCMandate == {Deal(2, "CONTINUER", FALSE), Deal(3, "ME_DEMANDER", TRUE), Deal(4, "REFUSER", FALSE)}
MCSymmetry == Permutations(Buyer) \cup Permutations(Request)
=============================================================================
