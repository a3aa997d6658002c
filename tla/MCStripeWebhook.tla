--------------------------- MODULE MCStripeWebhook ---------------------------
(* One seller: her wallet is the only row the listings and payments share.   *)
EXTENDS StripeWebhook, TLC

CONSTANTS u1, l1

MCOwnerOf == [l \in Listing |-> u1]
MCPayerOf == [e \in StripeEvent |-> u1]
MCAmountOf == [e \in StripeEvent |-> 2]
MCTier == {"SIMPLE"}
MCPrice == [t \in MCTier |-> 2]
MCSymmetry == Permutations(Request) \cup Permutations(StripeEvent)
=============================================================================
