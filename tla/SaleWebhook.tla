---------------------------- MODULE SaleWebhook ----------------------------
(***************************************************************************)
(* apps/api/src/routes/webhook.ts: a marketplace reports a sale, the row   *)
(* becomes SOLD and the sister annonces are taken down.  Closes the system *)
(* of publication: the routes, the publications, buyers on every           *)
(* marketplace, deliveries that may be repeated, restarts of the server.   *)
(***************************************************************************)
EXTENDS PublicationService

CONSTANTS
    Connected,     \* marketplaces with a sale webhook and a retract(): eBay, Shopify
    SaleHook,      \* webhook requests in flight
    MaxCrashes,    \* bound: server restarts
    MaxDeliveries, \* bound: deliveries of one sale
    NoSale         \* the request handles no sale

ASSUME SaleAssumption ==
    /\ Connected \subseteq Market
    /\ MaxCrashes \in Nat /\ MaxDeliveries \in Nat

VARIABLES
    orders,     \* the purchases, each the set of the annonces bought together
    sale,       \* the delivery each webhook request is in the middle of
    answered,   \* sold annonces whose notification was answered 200
    deliveries, \* deliveries of each sale so far
    crashes     \* server restarts so far

saleVars == <<orders, sale, answered, deliveries, crashes>>
vars == <<engineVars, publicationVars, saleVars>>

\* "ids" are the candidates of the notification, "id" the first that matched.
\* "seen" holds the externalId of each sister read and not yet settled, "ok"
\* and "failed" the outcomes of retract().
SaleCall == [step : {"find", "sold", "siblings", "retract"}, ids : SUBSET Annonce, id : Annonce,
             l : Listing, m : Market, seen : [Market -> Annonce \cup {NoAnnonce}],
             ok : SUBSET Market, failed : SUBSET Market]

ASSUME NoSaleAssumption == NoSale \notin SaleCall

\* Type invariant of the listings, publications, annonces and deliveries.
TypeOK ==
    /\ EngineTypeOK
    /\ PublicationTypeOK
    /\ orders \subseteq SUBSET Annonce
    /\ sale \in [SaleHook -> SaleCall \cup {NoSale}]
    /\ answered \subseteq Annonce
    /\ deliveries \in [Annonce -> Nat]
    /\ crashes \in Nat

Init ==
    /\ EngineInit
    /\ PublicationInit
    /\ orders = {}
    /\ sale = [h \in SaleHook |-> NoSale]
    /\ answered = {}
    /\ deliveries = [a \in Annonce |-> 0]
    /\ crashes = 0

-----------------------------------------------------------------------------

\* Somebody buys an annonce that is online, known to the server or not; an
\* order of Shopify may hold several.
Buy(order) ==
    /\ \A a \in order : annonce[a].state = "live"
    /\ \A a, b \in order :
          annonce[a].m = annonce[b].m /\ (Api[annonce[a].m] = "SHOPIFY" \/ a = b)
    /\ annonce' = [a \in DOMAIN annonce |->
                     IF a \in order THEN [annonce[a] EXCEPT !.state = "sold"] ELSE annonce[a]]
    /\ orders' = orders \cup {order}
    /\ UNCHANGED <<engineVars, pub, job, sale, answered, deliveries, crashes>>

\* A notification is repeated until one is answered, and Shopify sends one
\* more for the same order (orders/create, then orders/paid).
Notified(order, a) ==
    /\ a \in order
    /\ annonce[a].m \in Connected
    /\ a \notin answered \/ Api[annonce[a].m] = "SHOPIFY"
    /\ deliveries[a] < MaxDeliveries

\* verifyShopify takes the products of all the lines.  The fields after "id"
\* are filled by the next steps.
DeliverSale(h, a) ==
    /\ sale[h] = NoSale
    /\ \E order \in orders :
        /\ Notified(order, a)
        /\ deliveries' = [b \in Annonce |-> deliveries[b] + IF b \in order THEN 1 ELSE 0]
        /\ sale' = [sale EXCEPT ![h] =
                      [step |-> "find", ids |-> order, id |-> a, l |-> annonce[a].l,
                       m |-> annonce[a].m, seen |-> [m \in Market |-> NoAnnonce],
                       ok |-> {}, failed |-> {}]]
    /\ UNCHANGED <<engineVars, publicationVars, orders, answered, crashes>>

AtStep(h, step) == sale[h] # NoSale /\ sale[h].step = step

Reply200(h) ==
    /\ answered' = answered \cup sale[h].ids
    /\ sale' = [sale EXCEPT ![h] = NoSale]

\* The listings whose row on marketplace m has this externalId.
Carrying(id, m) == {l \in Listing : pub[l][m] # NoPub /\ pub[l][m].externalId = id}

\* An unknown externalId is acknowledged and forgotten; of several that are
\* known, one is handled.
FindPublication(h) ==
    /\ AtStep(h, "find")
    /\ \/ \E id \in sale[h].ids : \E l \in Carrying(id, sale[h].m) :
            /\ sale' = [sale EXCEPT ![h].step = "sold", ![h].id = id, ![h].l = l]
            /\ UNCHANGED answered
       \/ (\A id \in sale[h].ids : Carrying(id, sale[h].m) = {}) /\ Reply200(h)
    /\ UNCHANGED <<engineVars, publicationVars, orders, deliveries, crashes>>

\* Mutant: the delivery is answered before the sisters are dealt with.
MarkSold_AnswersFirst(h) ==
    /\ AtStep(h, "sold")
    /\ pub' = [pub EXCEPT ![sale[h].l][sale[h].m].status = "SOLD"]
    /\ sale' = [sale EXCEPT ![h].step = "siblings"]
    /\ answered' = answered \cup sale[h].ids
    /\ UNCHANGED <<engineVars, annonce, job, orders, deliveries, crashes>>

MarkSold(h) ==
    /\ AtStep(h, "sold")
    /\ pub' = [pub EXCEPT ![sale[h].l][sale[h].m].status = "SOLD"]
    /\ sale' = [sale EXCEPT ![h].step = "siblings"]
    /\ UNCHANGED <<engineVars, annonce, job, orders, answered, deliveries, crashes>>

Actionable(row) == row # NoPub /\ row.status \in {"ACTIVE", "WITHDRAW_FAILED"}

ReadSiblings(h) ==
    /\ AtStep(h, "siblings")
    /\ LET rows == pub[sale[h].l]
           sisters == {m \in Market \ {sale[h].m} : Actionable(rows[m])} IN
        sale' = [sale EXCEPT
                  ![h].step = "retract",
                  ![h].seen = [m \in Market |-> IF m \in sisters THEN rows[m].externalId
                                                               ELSE NoAnnonce]]
    /\ UNCHANGED <<engineVars, publicationVars, orders, answered, deliveries, crashes>>

Pending(s) == {m \in Market : s.seen[m] # NoAnnonce} \ (s.ok \cup s.failed)

\* Mutant: a rejected retract() is taken for a success.
RetractSettles_IgnoresError(h, m) ==
    /\ AtStep(h, "retract") /\ m \in Pending(sale[h])
    /\ sale' = [sale EXCEPT ![h].ok = @ \cup {m}]
    /\ RetractCall(sale[h].seen[m]) \/ UNCHANGED annonce
    /\ UNCHANGED <<engineVars, pub, job, orders, answered, deliveries, crashes>>

\* retract() settles: done, or failed with the annonce taken down or not (the
\* answer may be lost); a marketplace that is not connected cannot.
RetractSettles(h, m) ==
    /\ AtStep(h, "retract") /\ m \in Pending(sale[h])
    /\ \/ /\ m \in Connected
          /\ RetractCall(sale[h].seen[m])
          /\ \/ sale' = [sale EXCEPT ![h].ok = @ \cup {m}]
             \/ sale' = [sale EXCEPT ![h].failed = @ \cup {m}]
       \/ /\ sale' = [sale EXCEPT ![h].failed = @ \cup {m}]
          /\ UNCHANGED annonce
    /\ UNCHANGED <<engineVars, pub, job, orders, answered, deliveries, crashes>>

\* Mutant: the update is not guarded by NOT SOLD.
Withdrawal_Unguarded(row, ok) ==
    [row EXCEPT !.status = IF ok THEN "WITHDRAWN" ELSE "WITHDRAW_FAILED"]

\* updateMany where NOT SOLD.
Withdrawal(row, ok) ==
    IF row.status = "SOLD" THEN row
    ELSE [row EXCEPT !.status = IF ok THEN "WITHDRAWN" ELSE "WITHDRAW_FAILED"]

\* Every sister has settled: their statuses in one transaction, then 200.
WriteStatuses(h) ==
    /\ AtStep(h, "retract") /\ Pending(sale[h]) = {}
    /\ pub' = [pub EXCEPT ![sale[h].l] =
                [m \in Market |-> IF m \in sale[h].ok \cup sale[h].failed
                                  THEN Withdrawal(@[m], m \in sale[h].ok)
                                  ELSE @[m]]]
    /\ Reply200(h)
    /\ UNCHANGED <<engineVars, annonce, job, orders, deliveries, crashes>>

SaleStep(h) ==
    \/ FindPublication(h)
    \/ MarkSold(h)
    \/ ReadSiblings(h)
    \/ \E m \in Market : RetractSettles(h, m)
    \/ WriteStatuses(h)

\* The process dies: requests in flight vanish, the database and the
\* marketplaces stay.
Crash ==
    /\ crashes < MaxCrashes
    /\ crashes' = crashes + 1
    /\ call' = [r \in Request |-> NoCall]
    /\ job' = [p \in Publisher |-> NoJob]
    /\ sale' = [h \in SaleHook |-> NoSale]
    /\ UNCHANGED <<walletVars, month, rowVars, annonce, pub, orders, answered, deliveries>>

-----------------------------------------------------------------------------

Next ==
    \/ \E l \in Listing : RouteStep(l) /\ UNCHANGED <<publicationVars, saleVars>>
    \/ \E r \in Request : (StartCall(r) \/ CallStep(r)) /\ UNCHANGED <<publicationVars, saleVars>>
    \/ \E p \in Publisher :
        \/ \E l \in Listing, targets \in SUBSET Market :
                StartPublish(p, l, targets) /\ UNCHANGED saleVars
        \/ PublishStep(p) /\ UNCHANGED saleVars
    \/ \E order \in (SUBSET DOMAIN annonce) \ {{}} : Buy(order)
    \/ \E h \in SaleHook, a \in Annonce : DeliverSale(h, a)
    \/ \E h \in SaleHook : SaleStep(h)
    \/ Crash

Spec == Init /\ [][Next]_vars

\* A request that is running runs to its end unless the server dies, and a
\* marketplace repeats a notification that was not answered.
FairSpec ==
    /\ Spec
    /\ \A p \in Publisher : WF_vars(PublishStep(p) /\ UNCHANGED saleVars)
    /\ \A h \in SaleHook : WF_vars(SaleStep(h))
    /\ \A a \in Annonce :
        SF_vars(\E h \in SaleHook : DeliverSale(h, a))

-----------------------------------------------------------------------------
(* Properties.                                                              *)

\* A listing shown as published has a row that says where.
ListedSomewhere ==
    \A l \in Listing : status[l] \in {"PUBLISHED", "EXPIRED"} =>
        \E m \in Market : pub[l][m] # NoPub

\* "Jeton Global" (publication.service.ts): no interleaving of publications,
\* cancellations and restarts shows as published a listing without a row; a
\* publication comes to write PUBLISHED with a success, and with a row on every
\* marketplace where it succeeded.  (A second publication may put its own
\* externalId there: NeverDuplicated.)
PublishedIsBacked ==
    /\ ListedSomewhere
    /\ \A p \in Publisher : PublishingAt(p, "mark") =>
          /\ Successes(job[p]) # {}
          /\ \A m \in Successes(job[p]) : pub[job[p].l][m] # NoPub

\* What a row says happened did happen on the marketplace: SOLD only where an
\* annonce of the listing was bought, WITHDRAWN only where one is off line.
Past(l, m) == {annonce[a].state :
                 a \in {b \in DOMAIN annonce : annonce[b].l = l /\ annonce[b].m = m}}
RowsTellTheTruth ==
    \A l \in Listing, m \in Market :
        pub[l][m] # NoPub =>
            /\ pub[l][m].status = "SOLD" => "sold" \in Past(l, m)
            /\ pub[l][m].status = "WITHDRAWN" => Past(l, m) \cap {"sold", "down"} # {}

\* A sale is never forgotten: no concurrent withdrawal, no republication and
\* no redelivery takes a row out of SOLD (webhook.ts, "set-once, jamais
\* retrograde").
SoldIsFinal ==
    [][\A l \in Listing, m \in Market :
         pub[l][m] # NoPub /\ pub[l][m].status = "SOLD"
            => pub'[l][m] # NoPub /\ pub'[l][m].status = "SOLD"]_vars

\* A row never names what is not an annonce on line at its price: it is written
\* for a publication whose last call was answered, and not for the offer, the
\* product without its price or the other listing an interrupted or a
\* concurrent publication has left.
RowsNameCompleteAnnonces ==
    \A l \in Listing, m \in Market :
        pub[l][m] # NoPub =>
            LET a == annonce[pub[l][m].externalId] IN
            a.l = l /\ a.m = m /\ a.state # "offer" /\ a.calls = Calls[Api[m]]

\* The port (channel-connector.interface.ts:104): publishing again never
\* duplicates.  A listing has one annonce on line on a marketplace at most.
NeverDuplicated ==
    \A a, b \in DOMAIN annonce :
        /\ annonce[a].l = annonce[b].l /\ annonce[a].m = annonce[b].m
        /\ annonce[a].state = "live" /\ annonce[b].state = "live"
        => a = b

Active(l, m) == pub[l][m] # NoPub /\ pub[l][m].status = "ACTIVE"

\* A sister annonce that was on line when the sale of annonce a was being
\* recorded does not stay ACTIVE: restarts and failures of retract() included,
\* it ends withdrawn, marked as not withdrawn, or sold itself; unless a second
\* publication has put another externalId in the place of a, whose
\* redelivered sale is then unknown.
SistersAreDealtWith ==
    \A h \in SaleHook, a \in Annonce, l \in Listing, m \in Market :
        (/\ AtStep(h, "sold") /\ sale[h].id = a /\ sale[h].l = l
         /\ m # sale[h].m /\ pub[l][m] # NoPub)
            ~> (~Active(l, m) \/ \A n \in Market : l \notin Carrying(a, n))

\* A publication that no restart interrupts settles the listing: it leaves
\* QUEUED, published or refunded (or cancelled by its owner meanwhile).
PublicationSettles ==
    \A p \in Publisher, l \in Listing :
        (crashes = MaxCrashes /\ job[p] # NoJob /\ job[p].l = l) ~> status[l] # "QUEUED"

\* The Jeton Global rule (publication.service.ts:49): a platform that
\* publishes means PUBLISHED and no refund.  No row the server considers
\* ACTIVE belongs to a listing that was refunded.
NoRefundWhileOnline ==
    \A l \in Listing, m \in Market :
        Active(l, m) => refund[l] = NoRow

\* What webhook.ts:40 promises of a sale received (its row becomes SOLD): a
\* delivery that is answered has recorded every purchase it told of.
EverySaleIsRecorded ==
    [][\A h \in SaleHook :
         sale[h] # NoSale /\ sale'[h] = NoSale /\ crashes' = crashes =>
            \A a \in sale[h].ids : \A l \in Carrying(a, sale[h].m) :
               pub'[l][sale[h].m].status = "SOLD"]_vars

\* listing-engine.ts:47 (fix F3): the price of a published listing is the
\* price of its annonces.
PublishedPriceIsTheAnnonces ==
    \A l \in Listing, m \in Market :
        status[l] = "PUBLISHED" /\ pub[l][m] # NoPub =>
            annonce[pub[l][m].externalId].prix = prixPublie[l]
-----------------------------------------------------------------------------
(* The inductive invariant of the proofs (SaleWebhookProofs).               *)

\* Annonce id is one of listing l on marketplace m.
Names(id, l, m) == id \in DOMAIN annonce /\ annonce[id].l = l /\ annonce[id].m = m

NamesComplete(id, l, m) ==
    Names(id, l, m) /\ annonce[id].state # "offer" /\ annonce[id].calls = Calls[Api[m]]

\* The first of two calls was made; an offer of eBay is untouched until the second.
NamesHalfMade(id, l, m) ==
    /\ Names(id, l, m) /\ annonce[id].calls = 1 /\ Calls[Api[m]] = 2
    /\ Api[m] = "EBAY" <=> annonce[id].state = "offer"

\* What a publication has got is half made while its connector runs and complete
\* after; its rows are written one by one, all of them before it is marked.
JobIsHonest(j) ==
    /\ \A m \in Market : j.got[m] # NoAnnonce =>
          IF j.step = "call" /\ m \in j.todo THEN NamesHalfMade(j.got[m], j.l, m)
                                             ELSE NamesComplete(j.got[m], j.l, m)
    /\ j.step = "save" => j.todo # {} /\ j.todo \subseteq Successes(j)
    /\ j.step = "mark" => j.todo = {} /\ Successes(j) # {}
    /\ j.step \in {"save", "mark"} =>
          \A m \in Successes(j) \ j.todo : pub[j.l][m] # NoPub

JobsAreHonest == \A p \in Publisher : job[p] # NoJob => JobIsHonest(job[p])

\* An annonce belongs to the publication that has created it.
JobsShareNothing ==
    \A p, q \in Publisher, m \in Market :
        /\ job[p] # NoJob /\ job[q] # NoJob
        /\ job[p].got[m] # NoAnnonce /\ job[p].got[m] = job[q].got[m]
        => p = q

RowsAreComplete ==
    \A l \in Listing, m \in Market :
        pub[l][m] # NoPub => NamesComplete(pub[l][m].externalId, l, m)

AllSold(ids) == \A a \in ids : a \in DOMAIN annonce /\ annonce[a].state = "sold"

OrdersAreSold == \A order \in orders : AllSold(order)

\* A delivery tells of annonces that were sold; what it has found and read are
\* rows and annonces of its listing, and what it has withdrawn is off line.
SaleIsHonest(s) ==
    /\ AllSold(s.ids)
    /\ s.step # "find" =>
          pub[s.l][s.m] # NoPub /\ "sold" \in Past(s.l, s.m)
    /\ \A m \in Market :
          /\ s.step # "retract" => s.seen[m] = NoAnnonce
          /\ s.seen[m] # NoAnnonce =>
                NamesComplete(s.seen[m], s.l, m) /\ pub[s.l][m] # NoPub
          /\ m \in s.ok \cup s.failed => s.seen[m] # NoAnnonce
          /\ m \in s.ok => annonce[s.seen[m]].state \in {"sold", "down"}

SalesAreHonest == \A h \in SaleHook : sale[h] # NoSale => SaleIsHonest(sale[h])

\* A listing that can be published has a price.
PriceIsSet ==
    \A l \in Listing : status[l] \in Editable => prixPublie[l] # NoPrix

SaleInv ==
    /\ TypeOK /\ PriceIsSet
    /\ JobsAreHonest /\ JobsShareNothing /\ RowsAreComplete
    /\ OrdersAreSold /\ SalesAreHonest
    /\ ListedSomewhere /\ RowsTellTheTruth
=============================================================================
