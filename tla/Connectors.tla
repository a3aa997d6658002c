----------------------------- MODULE Connectors -----------------------------
(***************************************************************************)
(* The marketplaces behind their connectors (packages/marketplace): what   *)
(* each call of publish() and retract() leaves on the marketplace.         *)
(*                                                                         *)
(* eBay takes an offer, which is invisible, then publishes it; Shopify     *)
(* takes a product, which is on line at once, then its price; Vinted and   *)
(* Leboncoin take one call.  A connector never throws: it reports success  *)
(* after its last call only, and a failure at the first answer that is an  *)
(* error, unreadable or lost, whatever the calls before have left there.   *)
(***************************************************************************)
EXTENDS Naturals, Sequences

CONSTANTS
    Market,      \* marketplaces
    Api,         \* the API each of them is published through
    MaxAnnonces  \* bound: annonces ever created on the marketplaces

ASSUME ConnectorAssumption ==
    /\ Api \in [Market -> {"EBAY", "SHOPIFY", "PARTNER"}]
    /\ MaxAnnonces \in Nat

VARIABLE annonce \* the marketplaces' side: what each externalId stands for

Annonce == 1 .. MaxAnnonces
NoAnnonce == 0

\* Calls that create something, the upload of the item of eBay not counted:
\* it is addressed by the listing and replaced each time.
Calls == [EBAY |-> 2, SHOPIFY |-> 2, PARTNER |-> 1]

Create(l, m, prix, state) ==
    /\ Len(annonce) < MaxAnnonces
    /\ annonce' = Append(annonce, [l |-> l, m |-> m, prix |-> prix, calls |-> 1,
                                   state |-> state])

\* POST offer, then POST publish.
EbayPublish(l, m, prix, id) ==
    \/ id = NoAnnonce /\ Create(l, m, prix, "offer")
    \/ /\ id # NoAnnonce
       /\ annonce' = [annonce EXCEPT ![id].calls = 2, ![id].state = "live"]

\* productCreate, ACTIVE, then productVariantsBulkUpdate.
ShopifyPublish(l, m, prix, id) ==
    \/ id = NoAnnonce /\ Create(l, m, prix, "live")
    \/ /\ id # NoAnnonce
       /\ annonce' = [annonce EXCEPT ![id].calls = 2]

\* POST items, or POST listings.
PartnerPublish(l, m, prix, id) == id = NoAnnonce /\ Create(l, m, prix, "live")

\* The next call of a publication that has created "id" so far.
PublishCall(l, m, prix, id) ==
    \/ Api[m] = "EBAY" /\ EbayPublish(l, m, prix, id)
    \/ Api[m] = "SHOPIFY" /\ ShopifyPublish(l, m, prix, id)
    \/ Api[m] = "PARTNER" /\ PartnerPublish(l, m, prix, id)

\* Mutant: the first call that is answered is a publication.
Complete_OnFirstCall(a) == a.calls >= 1

Complete(a) == a.calls = Calls[Api[a.m]]

\* An offer that is not on line is refused by eBay; archiving a product that
\* is archived or sold changes nothing that is known here.
EbayRetract(id) ==
    annonce' = [annonce EXCEPT ![id].state = IF @ = "live" THEN "down" ELSE @]

ShopifyRetract(id) ==
    annonce' = [annonce EXCEPT ![id].state = IF @ = "live" THEN "down" ELSE @]

\* Vinted and Leboncoin answer CONNECTOR_UNAVAILABLE.
RetractCall(id) ==
    \/ Api[annonce[id].m] = "EBAY" /\ EbayRetract(id)
    \/ Api[annonce[id].m] = "SHOPIFY" /\ ShopifyRetract(id)
=============================================================================
