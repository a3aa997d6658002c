---------------------------- MODULE ListingEngine ----------------------------
(***************************************************************************)
(* The listing state machine of packages/ai (listing-engine.ts and         *)
(* transitions.ts), called by the /listing routes, over the wallet of      *)
(* WalletService.                                                          *)
(*                                                                         *)
(* An operation that runs in one prisma.$transaction around move() is one  *)
(* action: move() is a compare-and-swap on the status, which takes the     *)
(* row's lock until the transaction ends.  createListing(), reauthorize()  *)
(* and editContent() read, wait and write: each is several steps of a      *)
(* request, whose local state is call[r].                                  *)
(***************************************************************************)
EXTENDS WalletService, ListingTransitions

CONSTANTS
    Request,    \* HTTP requests that may be in flight at the same time
    Tier,       \* listing tiers on sale (PREMIUM_TIER_ENABLED gates POST /listing)
    Price,      \* TIER_PRICING
    PrixHaut,   \* the AI's ceiling price, set by completeAiDraft
    Prix,       \* prices a user may publish at
    MaxMonth,   \* bound: months that may pass
    Legacy,     \* listings left in USER_VALIDATED by the version before fix F1
    NoCall,     \* the request does nothing
    NoPrix      \* a null price

ASSUME EngineAssumption ==
    /\ Price \in [Tier -> Nat \ {0}]
    /\ PrixHaut \in Nat
    /\ Prix \subseteq Nat
    /\ Legacy \subseteq Listing /\ IsFiniteSet(Legacy)
    /\ MaxMonth \in Nat
    /\ NoPrix \notin Nat

VARIABLES
    status,     \* Listing.status, "NO_ROW" before the row exists
    tier,       \* Listing.tier
    source,     \* Listing.paymentSource
    cost,       \* Listing.cost
    prixPublie, \* Listing.prixPublie
    isPriceFlagged,
    call        \* the operation each request is in the middle of

rowVars == <<status, tier, source, cost, prixPublie, isPriceFlagged>>
engineVars == <<walletVars, month, rowVars, call>>

PaymentSource == {"FREE_CREDIT", "WALLET", "BLOCKED"}

AuthCall == [op : {"create", "reauthorize"}, step : {"reset", "write"},
             l : Listing, tier : Tier, seen : WalletRow]
EditCall == [op : {"edit"}, l : Listing, prix : Prix \cup {NoPrix},
             flag : BOOLEAN]

ASSUME NoCallAssumption == NoCall \notin AuthCall \cup EditCall

EngineTypeOK ==
    /\ WalletTypeOK
    /\ status \in [Listing -> ListingStatus \cup {"NO_ROW"}]
    /\ tier \in [Listing -> Tier]
    /\ source \in [Listing -> PaymentSource]
    /\ cost \in [Listing -> Nat]
    /\ prixPublie \in [Listing -> Prix \cup {NoPrix}]
    /\ isPriceFlagged \in [Listing -> BOOLEAN]
    /\ call \in [Request -> AuthCall \cup EditCall \cup {NoCall}]

\* Over 20% above the AI's ceiling: Math.round(prixHaut * 1.2) in integers.
PriceFlagged(prix) == prix > (12 * PrixHaut + 5) \div 10

\* Some of the Legacy rows were left behind, debited (here, a free credit).
EngineInit ==
    /\ WalletInit
    /\ tier \in [Listing -> Tier]
    /\ cost = [l \in Listing |-> 0]
    /\ call = [r \in Request |-> NoCall]
    /\ \E old \in SUBSET Legacy :
        /\ debit = [l \in Listing |-> IF l \in old
                                      THEN [source |-> "FREE_CREDIT", amount |-> 0]
                                      ELSE NoRow]
        /\ status = [l \in Listing |-> IF l \in old THEN "USER_VALIDATED" ELSE "NO_ROW"]
        /\ source = [l \in Listing |-> IF l \in old THEN "FREE_CREDIT" ELSE "BLOCKED"]
        /\ prixPublie \in [Listing -> {NoPrix} \cup Prix]
        /\ \A l \in Listing : prixPublie[l] = NoPrix <=> l \notin old
        /\ isPriceFlagged = [l \in Listing |-> l \in old /\ PriceFlagged(prixPublie[l])]

-----------------------------------------------------------------------------

\* Mutant: the transition table is not consulted.
Move_AnyTransition(l, to) ==
    /\ status[l] # "NO_ROW"
    /\ status' = [status EXCEPT ![l] = to]

Move(l, to) ==
    /\ CanTransition(status[l], to)
    /\ status' = [status EXCEPT ![l] = to]

Reply(r) == call' = [call EXCEPT ![r] = NoCall]

-----------------------------------------------------------------------------
(* createListing and reauthorize: authorize(), then the row.                *)

\* An id is generated for the row: no other request is creating the same one.
StartCreate(r, l, t) ==
    /\ call[r] = NoCall
    /\ status[l] = "NO_ROW"
    /\ \A q \in Request : call[q] # NoCall => call[q].l # l
    /\ call' = [call EXCEPT ![r] =
                  [op |-> "create", step |-> "reset", l |-> l, tier |-> t,
                   seen |-> wallet[OwnerOf[l]]]]
    /\ UNCHANGED <<walletVars, month, rowVars>>

StartReauthorize(r, l) ==
    /\ call[r] = NoCall
    /\ status[l] = "PENDING_AUTH"
    /\ call' = [call EXCEPT ![r] =
                  [op |-> "reauthorize", step |-> "reset", l |-> l, tier |-> tier[l],
                   seen |-> wallet[OwnerOf[l]]]]
    /\ UNCHANGED <<walletVars, month, rowVars>>

Authorizing(r, step) ==
    call[r] # NoCall /\ call[r].op \in {"create", "reauthorize"} /\ call[r].step = step

ResetFreeTierIfDue(r) ==
    /\ Authorizing(r, "reset")
    /\ LET u == OwnerOf[call[r].l] IN
        /\ ResetWallet(u, call[r].seen)
        /\ call' = [call EXCEPT ![r].step = "write",
                                ![r].seen = ResetResult(u, call[r].seen)]
    /\ UNCHANGED <<debit, refund, credit, bonuses, month, rowVars>>

Decision(r) == AuthDecision(call[r].seen, Price[call[r].tier])

FinishCreate(r) ==
    /\ Authorizing(r, "write") /\ call[r].op = "create"
    /\ LET l == call[r].l IN
        /\ status' = [status EXCEPT ![l] = IF Decision(r).source = "BLOCKED"
                                           THEN "PENDING_AUTH" ELSE "AUTHORIZED"]
        /\ tier' = [tier EXCEPT ![l] = call[r].tier]
        /\ source' = [source EXCEPT ![l] = Decision(r).source]
        /\ cost' = [cost EXCEPT ![l] = Decision(r).cost]
    /\ Reply(r)
    /\ UNCHANGED <<walletVars, month, prixPublie, isPriceFlagged>>

\* Mutant: the source and cost of the new authorization are not stored.
FinishReauthorize_KeepsSource(r) ==
    /\ Authorizing(r, "write") /\ call[r].op = "reauthorize"
    /\ IF Decision(r).source # "BLOCKED" /\ CanTransition(status[call[r].l], "AUTHORIZED")
       THEN Move(call[r].l, "AUTHORIZED")
       ELSE UNCHANGED status
    /\ Reply(r)
    /\ UNCHANGED <<walletVars, month, tier, source, cost, prixPublie, isPriceFlagged>>

\* Refused: the row is returned as it is.  Granted: move(), whose failure
\* (the listing was cancelled or authorized meanwhile) is an error reply.
FinishReauthorize(r) ==
    /\ Authorizing(r, "write") /\ call[r].op = "reauthorize"
    /\ LET l == call[r].l IN
        \/ /\ Decision(r).source # "BLOCKED"
           /\ Move(l, "AUTHORIZED")
           /\ source' = [source EXCEPT ![l] = Decision(r).source]
           /\ cost' = [cost EXCEPT ![l] = Decision(r).cost]
        \/ /\ Decision(r).source = "BLOCKED" \/ ~CanTransition(status[l], "AUTHORIZED")
           /\ UNCHANGED <<status, source, cost>>
    /\ Reply(r)
    /\ UNCHANGED <<walletVars, month, tier, prixPublie, isPriceFlagged>>

-----------------------------------------------------------------------------
(* The AI steps, which the mobile drives.                                   *)

StartAiProcessing(l) ==
    /\ Move(l, "AI_PROCESSING")
    /\ UNCHANGED <<walletVars, month, tier, source, cost, prixPublie, isPriceFlagged, call>>

CompleteAiDraft(l) ==
    /\ Move(l, "DRAFT_READY")
    /\ UNCHANGED <<walletVars, month, tier, source, cost, prixPublie, isPriceFlagged, call>>

FailAi(l) ==
    /\ Move(l, "AI_FAILED")
    /\ TolerantRefund(l)
    /\ UNCHANGED <<month, tier, source, cost, prixPublie, isPriceFlagged, call>>

-----------------------------------------------------------------------------
(* validate: price, USER_VALIDATED, debit and QUEUED in one transaction.    *)

Validate(l, prix) ==
    /\ CanTransition(status[l], "USER_VALIDATED")
    /\ CanTransition("USER_VALIDATED", "QUEUED")
    /\ status' = [status EXCEPT ![l] = "QUEUED"]
    /\ prixPublie' = [prixPublie EXCEPT ![l] = prix]
    /\ isPriceFlagged' = [isPriceFlagged EXCEPT ![l] = PriceFlagged(prix)]
    /\ Commit(l, source[l], cost[l])
    /\ UNCHANGED <<month, tier, source, cost, call>>

Cancel(l) ==
    /\ Move(l, "USER_CANCELLED")
    /\ TolerantRefund(l)
    /\ UNCHANGED <<month, tier, source, cost, prixPublie, isPriceFlagged, call>>

-----------------------------------------------------------------------------
(* editContent: the row is read, the flag recomputed, the row updated by id. *)

Editable == {"USER_VALIDATED", "QUEUED"}

\* The patch carries a price, or NoPrix when it leaves the price alone.
StartEdit(r, l, patch) ==
    /\ call[r] = NoCall
    /\ status[l] \in Editable
    /\ LET prix == IF patch = NoPrix THEN prixPublie[l] ELSE patch IN
        call' = [call EXCEPT ![r] =
                   [op |-> "edit", l |-> l, prix |-> patch,
                    flag |-> IF prix # NoPrix THEN PriceFlagged(prix)
                                              ELSE isPriceFlagged[l]]]
    /\ UNCHANGED <<walletVars, month, rowVars>>

FinishEdit(r) ==
    /\ call[r] # NoCall /\ call[r].op = "edit"
    /\ LET l == call[r].l IN
        /\ prixPublie' = [prixPublie EXCEPT ![l] = IF call[r].prix = NoPrix
                                                   THEN @ ELSE call[r].prix]
        /\ isPriceFlagged' = [isPriceFlagged EXCEPT ![l] = call[r].flag]
    /\ Reply(r)
    /\ UNCHANGED <<walletVars, month, status, tier, source, cost>>

-----------------------------------------------------------------------------
(* The queue and what publication makes of it.                              *)

Queue(l) ==
    /\ Move(l, "QUEUED")
    /\ UNCHANGED <<walletVars, month, tier, source, cost, prixPublie, isPriceFlagged, call>>

MarkPublished(l) ==
    /\ Move(l, "PUBLISHED")
    /\ UNCHANGED <<walletVars, month, tier, source, cost, prixPublie, isPriceFlagged, call>>

\* Mutant: the refund is forgotten.
FailPublish_NoRefund(l) ==
    /\ Move(l, "PUBLISH_FAILED")
    /\ UNCHANGED <<walletVars, month, tier, source, cost, prixPublie, isPriceFlagged, call>>

FailPublish(l) ==
    /\ Move(l, "PUBLISH_FAILED")
    /\ Refund(l)
    /\ UNCHANGED <<month, tier, source, cost, prixPublie, isPriceFlagged, call>>

Expire(l) ==
    /\ Move(l, "EXPIRED")
    /\ UNCHANGED <<walletVars, month, tier, source, cost, prixPublie, isPriceFlagged, call>>

-----------------------------------------------------------------------------

\* The operations of the engine that are one transaction: those the /listing
\* routes call, and queue() and expire(), which exist without a route (the
\* recovery of old rows, the end of an annonce).  MarkPublished and FailPublish
\* belong to PublicationService.
RouteStep(l) ==
    \/ StartAiProcessing(l)
    \/ CompleteAiDraft(l)
    \/ FailAi(l)
    \/ \E prix \in Prix : Validate(l, prix)
    \/ Cancel(l)
    \/ Queue(l)
    \/ Expire(l)

CallStep(r) ==
    \/ ResetFreeTierIfDue(r)
    \/ FinishCreate(r)
    \/ FinishReauthorize(r)
    \/ FinishEdit(r)

StartCall(r) ==
    \E l \in Listing :
        \/ \E t \in Tier : StartCreate(r, l, t)
        \/ StartReauthorize(r, l)
        \/ \E patch \in Prix \cup {NoPrix} : StartEdit(r, l, patch)

\* Time passes: the next calendar month begins.
NextMonth ==
    /\ month < MaxMonth
    /\ month' = month + 1
    /\ UNCHANGED <<walletVars, rowVars, call>>
=============================================================================
