---------------------------- MODULE StripeWebhook ----------------------------
(***************************************************************************)
(* apps/api/src/routes/stripe.ts over WalletService.recharge(): Stripe     *)
(* delivers each payment_intent.succeeded event until one delivery is      *)
(* answered, possibly several times at once; a delivery credits the wallet *)
(* and then re-submits the blocked listings of the payer.                  *)
(*                                                                         *)
(* This module closes the system: the webhook, the /listing routes and the *)
(* month, over one database.  The server may crash between any two steps.  *)
(***************************************************************************)
EXTENDS ListingEngine, FiniteSetsExt

CONSTANTS
    MaxCrashes,   \* bound: server restarts
    MaxDeliveries,\* bound: deliveries of one event
    NoHook        \* the request is not a webhook delivery

ASSUME WebhookAssumption == MaxCrashes \in Nat /\ MaxDeliveries \in Nat

VARIABLES
    hook,       \* the delivery each request is in the middle of
    acked,      \* events one delivery of which was answered with a 2xx
    deliveries, \* deliveries of each event so far
    crashes,    \* server restarts so far
    owed        \* history: listings found blocked when an event was credited
                \* and not yet re-submitted

hookVars == <<hook, acked, deliveries, crashes, owed>>
vars == <<engineVars, hookVars>>

HookCall == [step : {"read", "write", "find", "loop"}, event : StripeEvent,
             isFirst : BOOLEAN, todo : SUBSET Listing]

ASSUME NoHookAssumption == NoHook \notin HookCall

\* Type invariant of the wallet, the listings and the requests in flight;
\* a balance or a free-credit count below zero is outside it.
TypeOK ==
    /\ EngineTypeOK
    /\ hook \in [Request -> HookCall \cup {NoHook}]
    /\ acked \in [StripeEvent -> BOOLEAN]
    /\ deliveries \in [StripeEvent -> Nat]
    /\ crashes \in Nat
    /\ owed \in [StripeEvent -> SUBSET Listing]

Init ==
    /\ EngineInit
    /\ hook = [r \in Request |-> NoHook]
    /\ acked = [e \in StripeEvent |-> FALSE]
    /\ deliveries = [e \in StripeEvent |-> 0]
    /\ crashes = 0
    /\ owed = [e \in StripeEvent |-> {}]

-----------------------------------------------------------------------------

Blocked(u) ==
    {l \in Listing : OwnerOf[l] = u /\ status[l] = "PENDING_AUTH" /\ source[l] = "BLOCKED"}

AtStep(r, step) == hook[r] # NoHook /\ hook[r].step = step

Deliver(r, e) ==
    /\ call[r] = NoCall /\ hook[r] = NoHook
    /\ ~acked[e]
    /\ deliveries[e] < MaxDeliveries
    /\ deliveries' = [deliveries EXCEPT ![e] = @ + 1]
    /\ hook' = [hook EXCEPT ![r] =
                  [step |-> "read", event |-> e, isFirst |-> FALSE, todo |-> {}]]
    /\ UNCHANGED <<engineVars, acked, crashes, owed>>

\* The delivery is answered; the request slot is free again.
Ack(r) ==
    /\ acked' = [acked EXCEPT ![hook[r].event] = TRUE]
    /\ hook' = [hook EXCEPT ![r] = NoHook]

\* Mutant: the delivery is answered before the transaction has committed.
RechargeRead_AnswersFirst(r) ==
    /\ AtStep(r, "read")
    /\ IF credit[hook[r].event]
       THEN Ack(r)
       ELSE /\ hook' = [hook EXCEPT ![r].step = "write"]
            /\ acked' = [acked EXCEPT ![hook[r].event] = TRUE]
    /\ UNCHANGED <<engineVars, deliveries, crashes, owed>>

\* recharge() opens its transaction: is there a CREDIT row, is it the first?
RechargeRead(r) ==
    /\ AtStep(r, "read")
    /\ IF credit[hook[r].event]
       THEN Ack(r)
       ELSE /\ hook' = [hook EXCEPT
                          ![r].step = "write",
                          ![r].isFirst = wallet[PayerOf[hook[r].event]].lifetime = 0]
            /\ UNCHANGED acked
    /\ UNCHANGED <<engineVars, deliveries, crashes, owed>>

\* The writes of recharge(): the credit, or P2002 when another delivery of
\* the event committed first (credited = false, nothing to re-submit).
RechargeCommit(r) ==
    /\ AtStep(r, "write")
    /\ LET e == hook[r].event IN
        \/ /\ RechargeWrite(e, hook[r].isFirst)
           /\ hook' = [hook EXCEPT ![r].step = "find"]
           /\ owed' = [owed EXCEPT ![e] = Blocked(PayerOf[e])]
           /\ UNCHANGED acked
        \/ /\ credit[e]
           /\ Ack(r)
           /\ UNCHANGED <<walletVars, owed>>
    /\ UNCHANGED <<month, rowVars, call, deliveries, crashes>>

FindBlocked(r) ==
    /\ AtStep(r, "find")
    /\ hook' = [hook EXCEPT ![r].step = "loop",
                            ![r].todo = Blocked(PayerOf[hook[r].event])]
    /\ UNCHANGED <<engineVars, acked, deliveries, crashes, owed>>

\* One turn of the loop: reauthorize() the next blocked listing, or catch
\* the error when it is no longer PENDING_AUTH.
ReauthorizeNext(r) ==
    /\ AtStep(r, "loop") /\ call[r] = NoCall
    /\ \E l \in hook[r].todo :
        /\ hook' = [hook EXCEPT ![r].todo = @ \ {l}]
        /\ owed' = [owed EXCEPT ![hook[r].event] = @ \ {l}]
        /\ \/ StartReauthorize(r, l)
           \/ status[l] # "PENDING_AUTH" /\ UNCHANGED engineVars
    /\ UNCHANGED <<acked, deliveries, crashes>>

Answer(r) ==
    /\ AtStep(r, "loop") /\ call[r] = NoCall
    /\ hook[r].todo = {}
    /\ Ack(r)
    /\ UNCHANGED <<engineVars, deliveries, crashes, owed>>

\* The process dies: requests in flight vanish, the database stays.
Crash ==
    /\ crashes < MaxCrashes
    /\ crashes' = crashes + 1
    /\ call' = [r \in Request |-> NoCall]
    /\ hook' = [r \in Request |-> NoHook]
    /\ UNCHANGED <<walletVars, month, rowVars, acked, deliveries, owed>>

-----------------------------------------------------------------------------

HookStep(r) ==
    \/ RechargeRead(r)
    \/ RechargeCommit(r)
    \/ FindBlocked(r)
    \/ ReauthorizeNext(r)
    \/ Answer(r)

\* PublicationService ends a publication one way or the other.
Publication(l) == MarkPublished(l) \/ FailPublish(l)

Next ==
    \/ \E l \in Listing : (RouteStep(l) \/ Publication(l)) /\ UNCHANGED hookVars
    \/ \E r \in Request :
        \/ hook[r] = NoHook /\ StartCall(r) /\ UNCHANGED hookVars
        \/ CallStep(r) /\ UNCHANGED hookVars
        \/ \E e \in StripeEvent : Deliver(r, e)
        \/ HookStep(r)
    \/ NextMonth /\ UNCHANGED hookVars
    \/ Crash

Spec == Init /\ [][Next]_vars

\* Node runs every continuation of a request it has started unless it dies
\* first, and Stripe redelivers an event nobody has answered.  The user and
\* the calendar owe nothing.
FairSpec ==
    /\ Spec
    /\ \A r \in Request : WF_vars(CallStep(r) /\ UNCHANGED hookVars) /\ WF_vars(HookStep(r))
    /\ \A e \in StripeEvent : SF_vars(\E r \in Request : Deliver(r, e))

-----------------------------------------------------------------------------
(* Properties.                                                              *)

SumOf(g, S) == MapThenSumSet(LAMBDA x : g[x], S)

\* What the rows of a DEBIT or REFUND table f amount to for user u, and what
\* the payments with a CREDIT row brought her.
Rows(f) == {x \in DOMAIN f : f[x] # NoRow}
OwnedBy(u, S) == {l \in S : OwnerOf[l] = u}
Amounts(f, u) == SumOf([l \in Rows(f) |-> f[l].amount], OwnedBy(u, Rows(f)))
Credited == {e \in StripeEvent : credit[e]}
PaidBy(u, S) == {e \in S : PayerOf[e] = u}
Payments(u, S) == SumOf(AmountOf, PaidBy(u, S))

\* The ledger explains the balance to the unit, in every state and whatever
\* is in flight: credits + bonuses - debits + refunds.  Relates the UserWallet
\* row to all the WalletTransaction rows (wallet.service.ts: every movement
\* of money writes both in one transaction).
BalanceMatchesLedger ==
    \A u \in User :
        wallet[u].balance = Payments(u, Credited) + bonuses[u] * FirstRechargeBonus
                            - Amounts(debit, u) + Amounts(refund, u)

\* A listing is charged exactly while its status says that the user has
\* bought something, and given back exactly when it ends without service:
\* listing-engine.ts "l'argent ne bouge jamais sans le statut, ni l'inverse".
Paid == {"USER_VALIDATED", "QUEUED", "PUBLISHED", "EXPIRED"}
MoneyFollowsStatus ==
    \A l \in Listing :
        /\ status[l] \in Paid => debit[l] # NoRow /\ refund[l] = NoRow
        /\ status[l] = "PUBLISH_FAILED" => debit[l] # NoRow /\ refund[l] = debit[l]
        /\ status[l] = "USER_CANCELLED" => refund[l] = debit[l]
        /\ status[l] \notin Paid \cup {"PUBLISH_FAILED", "USER_CANCELLED"} =>
              debit[l] = NoRow /\ refund[l] = NoRow

\* What was authorized is what is debited: the ledger row of a listing is the
\* source and the cost frozen on the listing by authorize(), and a BLOCKED
\* listing never gets past PENDING_AUTH (commit() would have no source).
DebitIsWhatWasAuthorized ==
    \A l \in Listing :
        /\ debit[l] # NoRow => debit[l] = [source |-> source[l], amount |-> cost[l]]
        /\ source[l] = "BLOCKED" => status[l] \in {"NO_ROW", "PENDING_AUTH", "USER_CANCELLED"}

\* A free listing costs nothing, and a row that is being created does not
\* exist yet and has no other request working on it.
FreeCostsNothing == \A l \in Listing : source[l] = "FREE_CREDIT" => cost[l] = 0
CreateIsExclusive ==
    \A r \in Request : call[r] # NoCall /\ call[r].op = "create" =>
        /\ status[call[r].l] = "NO_ROW"
        /\ \A q \in Request \ {r} : call[q] # NoCall => call[q].l # call[r].l

\* The inductive invariant the proofs are carried by.
IInv ==
    /\ TypeOK
    /\ MoneyFollowsStatus
    /\ DebitIsWhatWasAuthorized
    /\ FreeCostsNothing
    /\ CreateIsExclusive

\* Free credits only grow by a monthly reset that was due or by giving back
\* the free credit of a listing: two authorize() that race for one reset
\* grant one quota (wallet.service.ts, resetFreeTierIfDue).
FreeCreditsGrowOnlyWhenDue ==
    [][\A u \in User : wallet'[u].free > wallet[u].free =>
         \/ wallet[u].resetAt <= month
         \/ \E l \in Listing : OwnerOf[l] = u /\ refund[l] # refund'[l]]_vars

\* The promise of the billing (ListingContract): a listing is bought once,
\* and ends served or given back, never both.
Phase(l) ==
    CASE debit[l] = NoRow /\ status[l] \in {"NO_ROW", "PENDING_AUTH", "AUTHORIZED",
                                           "AI_PROCESSING", "DRAFT_READY"} -> "open"
      [] debit[l] = NoRow /\ status[l] \in {"AI_FAILED", "USER_CANCELLED"} -> "closed"
      [] debit[l] # NoRow /\ refund[l] = NoRow
                          /\ status[l] \in {"USER_VALIDATED", "QUEUED"} -> "bought"
      [] debit[l] # NoRow /\ refund[l] = NoRow
                          /\ status[l] \in {"PUBLISHED", "EXPIRED"} -> "served"
      [] debit[l] # NoRow /\ refund[l] = debit[l]
                          /\ status[l] \in {"USER_CANCELLED", "PUBLISH_FAILED"} -> "refunded"
      [] OTHER -> "broken"

phases == [l \in Listing |-> Phase(l)]

Contract == INSTANCE ListingContract WITH phase <- phases

\* StripeWebhook implements ListingContract: money and status move together
\* along the contract's transitions, whatever is interleaved or crashes.
ContractImplemented == Contract!Spec

\* Every payment Stripe has taken ends up in the wallet, despite restarts
\* and duplicated deliveries (stripe.ts: a delivery is answered only after
\* recharge() has committed).
PaymentEventuallyCredited == \A e \in StripeEvent : <>credit[e]

\* stripe.ts: "le wallet n'est credite qu'une fois", with the bonus given on
\* the first recharge only (wallet.ts, FIRST_RECHARGE_BONUS_CENTS).
BonusOnFirstRechargeOnly == \A u \in User : bonuses[u] <= 1

\* stripe.ts: after a credit the payer's blocked listings are re-submitted
\* without any action of hers.  Once Stripe has its answer and no delivery is
\* in flight, nobody will do it any more.
AckedRechargeResubmitsBlocked ==
    \A e \in StripeEvent :
        acked[e] /\ (\A r \in Request : hook[r] # NoHook => hook[r].event # e)
            => owed[e] \cap Blocked(PayerOf[e]) = {}
=============================================================================
