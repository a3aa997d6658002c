---------------------------- MODULE MCSaleWebhook ----------------------------
(* One seller and one listing, which may start as a QUEUED listing of before. *)
EXTENDS SaleWebhook, TLC

CONSTANTS u1, l1, ebay, shopify, vinted

MCOwnerOf == [l \in Listing |-> u1]
MCPayerOf == [e \in StripeEvent |-> u1]
MCAmountOf == [e \in StripeEvent |-> 2]
MCTier == {"SIMPLE"}
MCPrice == [t \in MCTier |-> 2]
MCApi == [m \in Market |-> IF m = ebay THEN "EBAY"
                           ELSE IF m = shopify THEN "SHOPIFY" ELSE "PARTNER"]
MCSymmetry == Permutations(Publisher) \cup Permutations(SaleHook)
=============================================================================
