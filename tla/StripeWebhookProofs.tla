------------------------- MODULE StripeWebhookProofs -------------------------
(***************************************************************************)
(* Proofs about StripeWebhook for any number of users, listings, payments, *)
(* requests, crashes and deliveries.  IInv is inductive: one lemma per     *)
(* group of actions shows that a step keeps it.                            *)
(***************************************************************************)
EXTENDS StripeWebhook, FiniteSetTheorems, WellFoundedInduction, TLAPS

USE DEF WalletRow, LedgerRow, PaymentSource

-----------------------------------------------------------------------------
(* The requests in flight.                                                  *)

\* A request that runs authorize() holds a record of authorize().
LEMMA AuthCallType ==
    ASSUME EngineTypeOK, NEW r \in Request, NEW step, Authorizing(r, step)
    PROVE  call[r] \in AuthCall
  BY NoCallAssumption DEF EngineTypeOK, Authorizing, AuthCall, EditCall

\* A request that edits a listing holds a record of editContent().
LEMMA EditCallType ==
    ASSUME EngineTypeOK, NEW r \in Request, call[r] # NoCall, call[r].op = "edit"
    PROVE  call[r] \in EditCall
  BY NoCallAssumption DEF EngineTypeOK, AuthCall, EditCall

\* A delivery that is at some step holds a record of the webhook.
LEMMA HookCallType ==
    ASSUME TypeOK, NEW r \in Request, NEW step, AtStep(r, step)
    PROVE  hook[r] \in HookCall
  BY NoHookAssumption DEF TypeOK, AtStep

-----------------------------------------------------------------------------

\* The parts of IInv about a row speak of its status, source and cost and of
\* its ledger rows only.
Row(l) == <<status[l], source[l], cost[l], debit[l], refund[l]>>

RowOK(l) ==
    /\ status[l] \in Paid => debit[l] # NoRow /\ refund[l] = NoRow
    /\ status[l] = "PUBLISH_FAILED" => debit[l] # NoRow /\ refund[l] = debit[l]
    /\ status[l] = "USER_CANCELLED" => refund[l] = debit[l]
    /\ status[l] \notin Paid \cup {"PUBLISH_FAILED", "USER_CANCELLED"} =>
              debit[l] = NoRow /\ refund[l] = NoRow
    /\ debit[l] # NoRow => debit[l] = [source |-> source[l], amount |-> cost[l]]
    /\ source[l] = "BLOCKED" => status[l] \in {"NO_ROW", "PENDING_AUTH", "USER_CANCELLED"}
    /\ source[l] = "FREE_CREDIT" => cost[l] = 0

\* The invariant, listing by listing.
LEMMA IInvByRow ==
    IInv <=> TypeOK /\ CreateIsExclusive /\ \A l \in Listing : RowOK(l)
  BY DEF IInv, MoneyFollowsStatus, DebitIsWhatWasAuthorized, FreeCostsNothing, RowOK

\* The same in the next state.
LEMMA IInvByRowPrimed ==
    (IInv <=> TypeOK /\ CreateIsExclusive /\ \A l \in Listing : RowOK(l))'
  BY DEF IInv, MoneyFollowsStatus, DebitIsWhatWasAuthorized, FreeCostsNothing, RowOK

\* A step that leaves the other rows alone has only this row to answer for.
LEMMA OneRow ==
    ASSUME \A l \in Listing : RowOK(l), NEW k \in Listing, RowOK(k)',
           \A l \in Listing \ {k} : Row(l)' = Row(l)
    PROVE  (\A l \in Listing : RowOK(l))'
  BY DEF RowOK, Row, Paid

\* A step that changes no row keeps the invariant of every row.
LEMMA NoRowChanged ==
    ASSUME \A l \in Listing : RowOK(l), \A l \in Listing : Row(l)' = Row(l)
    PROVE  (\A l \in Listing : RowOK(l))'
  BY DEF RowOK, Row, Paid

-----------------------------------------------------------------------------
(* One listing moves.                                                       *)

\* move() is a transition of the table, from a status that is not NO_ROW.
LEMMA MoveIsATransition ==
    ASSUME NEW from, NEW to, CanTransition(from, to)
    PROVE  <<from, to>> \in
             {<<"PENDING_AUTH", "AUTHORIZED">>, <<"PENDING_AUTH", "USER_CANCELLED">>,
              <<"AUTHORIZED", "AI_PROCESSING">>, <<"AUTHORIZED", "USER_CANCELLED">>,
              <<"AI_PROCESSING", "DRAFT_READY">>, <<"AI_PROCESSING", "AI_FAILED">>,
              <<"AI_PROCESSING", "USER_CANCELLED">>, <<"DRAFT_READY", "USER_VALIDATED">>,
              <<"DRAFT_READY", "USER_CANCELLED">>, <<"USER_VALIDATED", "QUEUED">>,
              <<"QUEUED", "PUBLISHED">>, <<"QUEUED", "PUBLISH_FAILED">>,
              <<"QUEUED", "USER_CANCELLED">>, <<"PUBLISHED", "EXPIRED">>}
  BY DEF CanTransition, Targets

\* A row that moves exists: it is not one that a request is creating.
LEMMA MoveKeepsCreates ==
    ASSUME IInv, NEW l \in Listing, NEW to, CanTransition(status[l], to),
           status' = [status EXCEPT ![l] = to], UNCHANGED call
    PROVE  CreateIsExclusive'
<1>1. status[l] # "NO_ROW"
  BY MoveIsATransition
<1> QED
  BY <1>1 DEF IInv, CreateIsExclusive, TypeOK, EngineTypeOK

\* The moves that touch no money.
LEMMA PlainMoveStep ==
    ASSUME IInv, NEW l \in Listing, UNCHANGED hookVars,
           \/ StartAiProcessing(l) \/ CompleteAiDraft(l) \/ Queue(l)
           \/ MarkPublished(l) \/ Expire(l)
    PROVE  IInv'
<1>1. PICK to \in {"AI_PROCESSING", "DRAFT_READY", "QUEUED", "PUBLISHED", "EXPIRED"} :
        /\ CanTransition(status[l], to)
        /\ status' = [status EXCEPT ![l] = to]
  BY DEF StartAiProcessing, CompleteAiDraft, Queue, MarkPublished, Expire, Move
<1>2. UNCHANGED <<walletVars, month, tier, source, cost, prixPublie, isPriceFlagged, call>>
  BY DEF StartAiProcessing, CompleteAiDraft, Queue, MarkPublished, Expire
<1>3. TypeOK'
  BY <1>1, <1>2 DEF IInv, TypeOK, EngineTypeOK, WalletTypeOK, ListingStatus,
                    walletVars, hookVars
<1>5. CreateIsExclusive'
  BY <1>1, <1>2, MoveKeepsCreates
<1>6. RowOK(l)'
  <2>1. RowOK(l)
    BY IInvByRow
  <2>2. status'[l] = to
    BY <1>1 DEF IInv, TypeOK, EngineTypeOK
  <2>3. <<status[l], to>> \in {<<"AUTHORIZED", "AI_PROCESSING">>,
          <<"AI_PROCESSING", "DRAFT_READY">>, <<"USER_VALIDATED", "QUEUED">>,
          <<"QUEUED", "PUBLISHED">>, <<"PUBLISHED", "EXPIRED">>}
    BY <1>1, MoveIsATransition
  <2> QED
    BY <1>2, <2>1, <2>2, <2>3 DEF RowOK, Paid, walletVars
<1>7. \A k \in Listing \ {l} : Row(k)' = Row(k)
  BY <1>1, <1>2 DEF Row, walletVars, IInv, TypeOK, EngineTypeOK
<1> QED
  <2>1. \A k \in Listing : RowOK(k)
    BY IInvByRow
  <2>2. (\A k \in Listing : RowOK(k))'
    BY <1>6, <1>7, <2>1, OneRow
  <2> QED
    BY <1>3, <1>5, <2>2, IInvByRowPrimed

\* The moves that give the money back: FailAi, Cancel and FailPublish.
LEMMA RefundMoveStep ==
    ASSUME IInv, NEW l \in Listing, UNCHANGED hookVars,
           FailAi(l) \/ Cancel(l) \/ FailPublish(l)
    PROVE  IInv'
<1>1. PICK to \in {"AI_FAILED", "USER_CANCELLED", "PUBLISH_FAILED"} :
        /\ CanTransition(status[l], to)
        /\ status' = [status EXCEPT ![l] = to]
        /\ TolerantRefund(l)
        /\ to = "PUBLISH_FAILED" => Refund(l)
  BY DEF FailAi, Cancel, FailPublish, Move, TolerantRefund
<1>2. UNCHANGED <<month, tier, source, cost, prixPublie, isPriceFlagged, call>>
  BY DEF FailAi, Cancel, FailPublish
<1>3. UNCHANGED <<debit, credit, bonuses>>
  BY <1>1 DEF TolerantRefund, Refund, walletVars
<1>4. \/ debit[l] = NoRow /\ UNCHANGED <<wallet, refund>>
      \/ debit[l] # NoRow /\ refund[l] # NoRow /\ UNCHANGED <<wallet, refund>>
      \/ /\ debit[l] # NoRow /\ refund[l] = NoRow
         /\ wallet' = [wallet EXCEPT ![OwnerOf[l]] = GiveBack(@, debit[l])]
         /\ refund' = [refund EXCEPT ![l] = debit[l]]
  BY <1>1 DEF TolerantRefund, Refund, walletVars
<1>5. wallet' \in [User -> WalletRow]
  <2>1. debit[l] # NoRow => \A w \in WalletRow : GiveBack(w, debit[l]) \in WalletRow
    BY DEF IInv, TypeOK, EngineTypeOK, WalletTypeOK, GiveBack
  <2>2. wallet \in [User -> WalletRow] /\ OwnerOf[l] \in User
    BY WalletAssumption DEF IInv, TypeOK, EngineTypeOK, WalletTypeOK
  <2>3. debit[l] # NoRow => GiveBack(wallet[OwnerOf[l]], debit[l]) \in WalletRow
    BY <2>1, <2>2
  <2> HIDE DEF WalletRow
  <2> QED
    BY <1>4, <2>2, <2>3
<1>6. refund' \in [Listing -> LedgerRow \cup {NoRow}]
  BY <1>4 DEF IInv, TypeOK, EngineTypeOK, WalletTypeOK
<1>7. TypeOK'
  BY <1>1, <1>2, <1>3, <1>5, <1>6 DEF IInv, TypeOK, EngineTypeOK, WalletTypeOK,
                                      ListingStatus, hookVars
<1>8. CreateIsExclusive'
  BY <1>1, <1>2, MoveKeepsCreates
<1>9. RowOK(l)'
  <2>1. RowOK(l)
    BY IInvByRow
  <2>2. status'[l] = to /\ source'[l] = source[l] /\ cost'[l] = cost[l] /\ debit'[l] = debit[l]
    BY <1>1, <1>2, <1>3 DEF IInv, TypeOK, EngineTypeOK
  <2>3. <<status[l], to>> \in {<<"AI_PROCESSING", "AI_FAILED">>,
          <<"PENDING_AUTH", "USER_CANCELLED">>, <<"AUTHORIZED", "USER_CANCELLED">>,
          <<"AI_PROCESSING", "USER_CANCELLED">>, <<"DRAFT_READY", "USER_CANCELLED">>,
          <<"QUEUED", "USER_CANCELLED">>, <<"QUEUED", "PUBLISH_FAILED">>}
    BY <1>1, MoveIsATransition
  <2>4. refund'[l] = IF debit[l] # NoRow /\ refund[l] = NoRow THEN debit[l] ELSE refund[l]
    BY <1>4 DEF IInv, TypeOK, EngineTypeOK, WalletTypeOK
  <2> QED
    BY <2>1, <2>2, <2>3, <2>4 DEF RowOK, Paid
<1>10. \A k \in Listing \ {l} : Row(k)' = Row(k)
  BY <1>1, <1>2, <1>3, <1>4 DEF Row, IInv, TypeOK, EngineTypeOK, WalletTypeOK
<1> QED
  <2>1. \A k \in Listing : RowOK(k)
    BY IInvByRow
  <2>2. (\A k \in Listing : RowOK(k))'
    BY <1>9, <1>10, <2>1, OneRow
  <2> QED
    BY <1>7, <1>8, <2>2, IInvByRowPrimed

\* validate(): the move to QUEUED and the debit.
LEMMA ValidateStep ==
    ASSUME IInv, NEW l \in Listing, NEW prix \in Prix, Validate(l, prix), UNCHANGED hookVars
    PROVE  IInv'
<1> USE DEF Validate, Commit
<1>1. source[l] \in {"FREE_CREDIT", "WALLET"}
  OBVIOUS
<1>2. debit' = [debit EXCEPT ![l] = [source |-> source[l], amount |-> cost[l]]]
  BY DEF CommitFree, CommitWallet, IInv, FreeCostsNothing
<1>3. wallet' \in [User -> WalletRow]
  <2>1. /\ wallet \in [User -> WalletRow] /\ OwnerOf[l] \in User
        /\ cost[l] \in Nat
    BY WalletAssumption DEF IInv, TypeOK, EngineTypeOK, WalletTypeOK
  <2>2. wallet[OwnerOf[l]].free > 0 =>
          [wallet[OwnerOf[l]] EXCEPT !.free = @ - 1] \in WalletRow
    BY <2>1
  <2>3. wallet[OwnerOf[l]].balance >= cost[l] =>
          [wallet[OwnerOf[l]] EXCEPT !.balance = @ - cost[l]] \in WalletRow
    BY <2>1
  <2>4. CASE CommitFree(l)
    BY <2>1, <2>2, <2>4 DEF CommitFree
  <2>5. CASE CommitWallet(l, cost[l])
    BY <2>1, <2>3, <2>5 DEF CommitWallet
  <2> QED
    BY <2>4, <2>5
<1>4. debit' \in [Listing -> LedgerRow \cup {NoRow}]
  BY <1>1, <1>2 DEF IInv, TypeOK, EngineTypeOK, WalletTypeOK
<1>5. PriceFlagged(prix) \in BOOLEAN
  BY DEF PriceFlagged
<1>6. TypeOK'
  BY <1>3, <1>4, <1>5 DEF IInv, TypeOK, EngineTypeOK, WalletTypeOK,
                                      ListingStatus, hookVars
<1>7. status[l] = "DRAFT_READY"
  BY MoveIsATransition
<1>8. CreateIsExclusive'
  BY <1>7 DEF IInv, CreateIsExclusive, TypeOK, EngineTypeOK
<1>9. RowOK(l)'
  <2>1. RowOK(l)
    BY IInvByRow
  <2>2. /\ status'[l] = "QUEUED" /\ source'[l] = source[l] /\ cost'[l] = cost[l]
        /\ debit'[l] = [source |-> source[l], amount |-> cost[l]] /\ refund'[l] = refund[l]
    BY <1>2 DEF IInv, TypeOK, EngineTypeOK, WalletTypeOK
  <2>3. cost[l] \in Nat
    BY DEF IInv, TypeOK, EngineTypeOK
  <2>4. debit'[l] # NoRow
    BY <1>1, <2>2, <2>3, WalletAssumption
  <2> QED
    BY <1>7, <2>1, <2>2, <2>4, <1>1 DEF RowOK, Paid
<1>10. \A k \in Listing \ {l} : Row(k)' = Row(k)
  BY <1>2 DEF Row, IInv, TypeOK, EngineTypeOK, WalletTypeOK
<1> QED
  <2>1. \A k \in Listing : RowOK(k)
    BY IInvByRow
  <2>2. (\A k \in Listing : RowOK(k))'
    BY <1>9, <1>10, <2>1, OneRow
  <2> QED
    BY <1>6, <1>8, <2>2, IInvByRowPrimed

-----------------------------------------------------------------------------
(* Requests start, run and answer.                                          *)

\* A request starts: it holds its record, no row has changed.
LEMMA StartCallStep ==
    ASSUME IInv, NEW r \in Request, StartCall(r)
    PROVE  (EngineTypeOK /\ CreateIsExclusive /\ \A l \in Listing : RowOK(l))'
<1>1. PICK l \in Listing : \/ \E t \in Tier : StartCreate(r, l, t)
                          \/ StartReauthorize(r, l)
                          \/ \E patch \in Prix \cup {NoPrix} : StartEdit(r, l, patch)
  BY DEF StartCall
<1>2. call[r] = NoCall /\ UNCHANGED <<walletVars, month, rowVars>>
  BY <1>1 DEF StartCreate, StartReauthorize, StartEdit
<1>3. PICK c \in AuthCall \cup EditCall :
        /\ call' = [call EXCEPT ![r] = c]
        /\ c.l = l
        /\ c.op = "create" => /\ status[l] = "NO_ROW"
                              /\ \A q \in Request : call[q] # NoCall => call[q].l # l
        /\ c.op # "create" => status[l] # "NO_ROW"
  <2>1. wallet[OwnerOf[l]] \in WalletRow /\ tier[l] \in Tier
    BY WalletAssumption DEF IInv, TypeOK, EngineTypeOK, WalletTypeOK
  <2>2. CASE \E t \in Tier : StartCreate(r, l, t)
    <3>1. PICK t \in Tier : StartCreate(r, l, t)
      BY <2>2
    <3> DEFINE c == [op |-> "create", step |-> "reset", l |-> l, tier |-> t,
                     seen |-> wallet[OwnerOf[l]]]
    <3>2. c \in AuthCall
      BY <2>1 DEF AuthCall
    <3>3. c.op = "create" /\ c.l = l /\ call' = [call EXCEPT ![r] = c]
      BY <3>1 DEF StartCreate
    <3> QED
      BY <3>1, <3>2, <3>3 DEF StartCreate
  <2>3. CASE StartReauthorize(r, l)
    <3> DEFINE c == [op |-> "reauthorize", step |-> "reset", l |-> l, tier |-> tier[l],
                     seen |-> wallet[OwnerOf[l]]]
    <3>1. c \in AuthCall
      BY <2>1 DEF AuthCall
    <3>2. c.op = "reauthorize" /\ c.l = l /\ call' = [call EXCEPT ![r] = c]
      BY <2>3 DEF StartReauthorize
    <3>3. status[l] # "NO_ROW"
      BY <2>3 DEF StartReauthorize
    <3> QED
      BY <3>1, <3>2, <3>3
  <2>4. CASE \E patch \in Prix \cup {NoPrix} : StartEdit(r, l, patch)
    <3>1. PICK patch \in Prix \cup {NoPrix} : StartEdit(r, l, patch)
      BY <2>4
    <3> DEFINE prix == IF patch = NoPrix THEN prixPublie[l] ELSE patch
               flag == IF prix # NoPrix THEN PriceFlagged(prix) ELSE isPriceFlagged[l]
               c == [op |-> "edit", l |-> l, prix |-> patch, flag |-> flag]
    <3>2. flag \in BOOLEAN
      <4>1. PriceFlagged(prix) \in BOOLEAN
        BY DEF PriceFlagged
      <4>2. isPriceFlagged[l] \in BOOLEAN
        BY DEF IInv, TypeOK, EngineTypeOK
      <4> QED
        BY <4>1, <4>2
    <3>3. c \in EditCall
      BY <3>2 DEF EditCall
    <3>4. c.op = "edit" /\ c.l = l /\ call' = [call EXCEPT ![r] = c]
      BY <3>1 DEF StartEdit
    <3>5. status[l] # "NO_ROW"
      BY <3>1 DEF StartEdit, Editable
    <3> QED
      BY <3>3, <3>4, <3>5
  <2> QED
    BY <1>1, <2>2, <2>3, <2>4
<1>4. EngineTypeOK'
  BY <1>2, <1>3 DEF IInv, TypeOK, EngineTypeOK, WalletTypeOK, walletVars, rowVars
<1>5. CreateIsExclusive'
  BY <1>2, <1>3 DEF IInv, CreateIsExclusive, TypeOK, EngineTypeOK, rowVars
<1>6. \A k \in Listing : Row(k)' = Row(k)
  BY <1>2 DEF Row, walletVars, rowVars
<1> QED
  <2>1. \A k \in Listing : RowOK(k)
    BY IInvByRow
  <2>2. (\A k \in Listing : RowOK(k))'
    BY <1>6, <2>1, NoRowChanged
  <2> QED
    BY <1>4, <1>5, <2>2

\* The monthly reset writes a wallet row and hands one to the request.
LEMMA ResetStep ==
    ASSUME IInv, NEW r \in Request, ResetFreeTierIfDue(r), UNCHANGED hookVars
    PROVE  IInv'
<1> DEFINE l == call[r].l
           u == OwnerOf[l]
           seen == call[r].seen
<1>1. call[r] \in AuthCall
  BY AuthCallType DEF ResetFreeTierIfDue, IInv, TypeOK
<1>2. /\ l \in Listing /\ u \in User /\ seen \in WalletRow /\ wallet[u] \in WalletRow
      /\ call[r] # NoCall
  BY <1>1, WalletAssumption, NoCallAssumption DEF AuthCall, IInv, TypeOK, EngineTypeOK, WalletTypeOK
<1>3. ASSUME NEW w \in WalletRow
      PROVE  AfterReset(w) \in WalletRow
  <2>1. FreeMonthly \in Nat /\ month + 1 \in Nat
    BY WalletAssumption DEF IInv, TypeOK, EngineTypeOK, WalletTypeOK
  <2> QED
    BY <2>1 DEF AfterReset
<1>4. ResetResult(u, seen) \in WalletRow
  BY <1>2, <1>3 DEF ResetResult
<1>5. wallet' \in [User -> WalletRow]
  <2> HIDE DEF WalletRow
  <2>1. wallet' = [wallet EXCEPT ![u] = IF ResetWins(u, seen) THEN AfterReset(@) ELSE @]
    BY DEF ResetFreeTierIfDue, ResetWallet
  <2> QED
    BY <1>2, <1>3, <2>1 DEF IInv, TypeOK, EngineTypeOK, WalletTypeOK
<1>6. PICK c \in AuthCall :
        call' = [call EXCEPT ![r] = c] /\ c.l = l /\ c.op = call[r].op
  <2> DEFINE c == [call[r] EXCEPT !.step = "write", !.seen = ResetResult(u, seen)]
  <2>1. c \in AuthCall /\ c.l = l /\ c.op = call[r].op
    BY <1>1, <1>4 DEF AuthCall
  <2>2. call' = [call EXCEPT ![r] = c]
    BY DEF ResetFreeTierIfDue, IInv, TypeOK, EngineTypeOK
  <2> QED
    BY <2>1, <2>2
<1>7. UNCHANGED <<debit, refund, credit, bonuses, month, rowVars>>
  BY DEF ResetFreeTierIfDue
<1>8. TypeOK'
  BY <1>5, <1>6, <1>7 DEF IInv, TypeOK, EngineTypeOK, WalletTypeOK, rowVars, hookVars
<1>9. CreateIsExclusive'
  BY <1>2, <1>6, <1>7 DEF IInv, CreateIsExclusive, TypeOK, EngineTypeOK, rowVars
<1>10. \A k \in Listing : Row(k)' = Row(k)
  BY <1>7 DEF Row, rowVars
<1> QED
  <2>1. \A k \in Listing : RowOK(k)
    BY IInvByRow
  <2>2. (\A k \in Listing : RowOK(k))'
    BY <1>10, <2>1, NoRowChanged
  <2> QED
    BY <1>8, <1>9, <2>2, IInvByRowPrimed

\* What authorize() decides is typed, and a free listing costs nothing.
LEMMA DecisionType ==
    ASSUME EngineTypeOK, NEW r \in Request, call[r] \in AuthCall
    PROVE  /\ Decision(r).source \in PaymentSource
           /\ Decision(r).cost \in Nat
           /\ Decision(r).source = "FREE_CREDIT" => Decision(r).cost = 0
<1>1. call[r].seen \in WalletRow /\ Price[call[r].tier] \in Nat
  BY EngineAssumption DEF AuthCall
<1> QED
  BY <1>1 DEF Decision, AuthDecision

\* createListing(): the row appears, undebited, with the decision.
LEMMA FinishCreateStep ==
    ASSUME IInv, NEW r \in Request, FinishCreate(r), UNCHANGED hookVars
    PROVE  IInv'
<1> PICK l : l = call[r].l
  OBVIOUS
<1> DEFINE d == Decision(r)
<1>1. call[r] \in AuthCall /\ call[r].op = "create" /\ call[r] # NoCall
  BY AuthCallType, NoCallAssumption DEF FinishCreate, IInv, TypeOK
<1>2. /\ l \in Listing /\ call[r].tier \in Tier
      /\ d.source \in PaymentSource /\ d.cost \in Nat
      /\ d.source = "FREE_CREDIT" => d.cost = 0
  BY <1>1, DecisionType DEF AuthCall, IInv, TypeOK
<1>3. /\ status' = [status EXCEPT ![l] = IF d.source = "BLOCKED"
                                         THEN "PENDING_AUTH" ELSE "AUTHORIZED"]
      /\ tier' = [tier EXCEPT ![l] = call[r].tier]
      /\ source' = [source EXCEPT ![l] = d.source]
      /\ cost' = [cost EXCEPT ![l] = d.cost]
      /\ call' = [call EXCEPT ![r] = NoCall]
      /\ UNCHANGED <<walletVars, month, prixPublie, isPriceFlagged>>
  BY DEF FinishCreate, Reply
<1> HIDE DEF d
<1>4. TypeOK'
  BY <1>2, <1>3 DEF IInv, TypeOK, EngineTypeOK, WalletTypeOK, ListingStatus, walletVars, hookVars
<1>5. /\ status[l] = "NO_ROW"
      /\ \A q \in Request \ {r} : call[q] # NoCall => call[q].l # l
  BY <1>1 DEF IInv, CreateIsExclusive
<1>6. CreateIsExclusive'
  BY <1>2, <1>3, <1>5 DEF IInv, CreateIsExclusive, TypeOK, EngineTypeOK
<1>7. RowOK(l)'
  <2>1. RowOK(l)
    BY <1>2, IInvByRow
  <2>2. /\ status'[l] = IF d.source = "BLOCKED" THEN "PENDING_AUTH" ELSE "AUTHORIZED"
        /\ source'[l] = d.source /\ cost'[l] = d.cost
        /\ debit'[l] = debit[l] /\ refund'[l] = refund[l]
    BY <1>2, <1>3 DEF IInv, TypeOK, EngineTypeOK, walletVars
  <2> QED
    BY <1>2, <1>5, <2>1, <2>2 DEF RowOK, Paid
<1>8. \A k \in Listing \ {l} : Row(k)' = Row(k)
  BY <1>3 DEF Row, IInv, TypeOK, EngineTypeOK, walletVars
<1> QED
  <2>1. \A k \in Listing : RowOK(k)
    BY IInvByRow
  <2>2. (\A k \in Listing : RowOK(k))'
    BY <1>2, <1>7, <1>8, <2>1, OneRow
  <2> QED
    BY <1>4, <1>6, <2>2, IInvByRowPrimed

\* reauthorize(): refused, or AUTHORIZED with the new decision.
LEMMA FinishReauthorizeStep ==
    ASSUME IInv, NEW r \in Request, FinishReauthorize(r), UNCHANGED hookVars
    PROVE  IInv'
<1> PICK l : l = call[r].l
  OBVIOUS
<1> DEFINE d == Decision(r)
<1>1. call[r] \in AuthCall
  BY AuthCallType DEF FinishReauthorize, IInv, TypeOK
<1>2. /\ l \in Listing /\ d.source \in PaymentSource /\ d.cost \in Nat
      /\ d.source = "FREE_CREDIT" => d.cost = 0
  BY <1>1, DecisionType DEF AuthCall, IInv, TypeOK
<1>3. /\ call' = [call EXCEPT ![r] = NoCall]
      /\ UNCHANGED <<walletVars, month, tier, prixPublie, isPriceFlagged>>
  BY DEF FinishReauthorize, Reply
<1>4. \/ /\ d.source # "BLOCKED"
         /\ CanTransition(status[l], "AUTHORIZED")
         /\ status' = [status EXCEPT ![l] = "AUTHORIZED"]
         /\ source' = [source EXCEPT ![l] = d.source]
         /\ cost' = [cost EXCEPT ![l] = d.cost]
      \/ UNCHANGED <<status, source, cost>>
  BY DEF FinishReauthorize, Move
<1> HIDE DEF d
<1>5. TypeOK'
  BY <1>2, <1>3, <1>4 DEF IInv, TypeOK, EngineTypeOK, WalletTypeOK, ListingStatus,
                          walletVars, hookVars
<1>6. CanTransition(status[l], "AUTHORIZED") => status[l] = "PENDING_AUTH"
  BY MoveIsATransition
<1>7. CreateIsExclusive'
  <2>1. \A k \in Listing : status[k] = "NO_ROW" => status'[k] = "NO_ROW"
    BY <1>2, <1>4, <1>6 DEF IInv, TypeOK, EngineTypeOK
  <2>2. \A q \in Request : call'[q] # NoCall => q # r /\ call'[q] = call[q]
    BY <1>3 DEF IInv, TypeOK, EngineTypeOK
  <2>3. \A q \in Request : call[q] # NoCall /\ call[q].op = "create" => call[q].l \in Listing
    BY AuthCallType, NoCallAssumption DEF IInv, TypeOK, EngineTypeOK, AuthCall, EditCall
  <2> QED
    BY <2>1, <2>2, <2>3 DEF IInv, CreateIsExclusive
<1>8. RowOK(l)'
  <2>1. RowOK(l)
    BY <1>2, IInvByRow
  <2>2. debit'[l] = debit[l] /\ refund'[l] = refund[l]
    BY <1>3 DEF walletVars
  <2>3. CASE UNCHANGED <<status, source, cost>>
    BY <2>1, <2>2, <2>3 DEF RowOK, Paid
  <2>4. CASE ~UNCHANGED <<status, source, cost>>
    <3>1. /\ status[l] = "PENDING_AUTH" /\ status'[l] = "AUTHORIZED"
          /\ source'[l] = d.source /\ cost'[l] = d.cost /\ d.source # "BLOCKED"
      BY <1>2, <1>4, <1>6, <2>4 DEF IInv, TypeOK, EngineTypeOK
    <3> QED
      BY <1>2, <2>1, <2>2, <3>1 DEF RowOK, Paid
  <2> QED
    BY <2>3, <2>4
<1>9. \A k \in Listing \ {l} : Row(k)' = Row(k)
  BY <1>3, <1>4 DEF Row, IInv, TypeOK, EngineTypeOK, walletVars
<1> QED
  <2>1. \A k \in Listing : RowOK(k)
    BY IInvByRow
  <2>2. (\A k \in Listing : RowOK(k))'
    BY <1>2, <1>8, <1>9, <2>1, OneRow
  <2> QED
    BY <1>5, <1>7, <2>2, IInvByRowPrimed

\* editContent() writes the price and the flag, nothing of the billing.
LEMMA FinishEditStep ==
    ASSUME IInv, NEW r \in Request, FinishEdit(r), UNCHANGED hookVars
    PROVE  IInv'
<1>1. call[r] \in EditCall
  BY EditCallType DEF FinishEdit, IInv, TypeOK
<1>2. /\ call[r].l \in Listing /\ call[r].prix \in Prix \cup {NoPrix}
      /\ call[r].flag \in BOOLEAN
  BY <1>1 DEF EditCall
<1>3. UNCHANGED <<walletVars, month, status, tier, source, cost>>
  BY DEF FinishEdit
<1>4. TypeOK'
  BY <1>2, <1>3 DEF FinishEdit, Reply, IInv, TypeOK, EngineTypeOK, WalletTypeOK, walletVars, hookVars
<1>5. CreateIsExclusive'
  BY <1>3 DEF FinishEdit, Reply, IInv, CreateIsExclusive, TypeOK, EngineTypeOK
<1>6. \A k \in Listing : Row(k)' = Row(k)
  BY <1>3 DEF Row, walletVars
<1> QED
  <2>1. \A k \in Listing : RowOK(k)
    BY IInvByRow
  <2>2. (\A k \in Listing : RowOK(k))'
    BY <1>6, <2>1, NoRowChanged
  <2> QED
    BY <1>4, <1>5, <2>2, IInvByRowPrimed

-----------------------------------------------------------------------------
(* The webhook.                                                             *)

\* The steps of a delivery that only read the database.
LEMMA QuietStep ==
    ASSUME IInv, NEW r \in Request,
           \/ \E e \in StripeEvent : Deliver(r, e)
           \/ RechargeRead(r) \/ FindBlocked(r) \/ Answer(r)
    PROVE  IInv'
<1> USE DEF IInv, TypeOK
<1>1. UNCHANGED engineVars
  BY DEF Deliver, RechargeRead, FindBlocked, Answer
<1>3. EngineTypeOK'
  BY <1>1 DEF EngineTypeOK, WalletTypeOK, engineVars, walletVars, rowVars
<1>4. CreateIsExclusive'
  BY <1>1 DEF CreateIsExclusive, engineVars, rowVars
<1>5. /\ hook' \in [Request -> HookCall \cup {NoHook}]
      /\ acked' \in [StripeEvent -> BOOLEAN]
      /\ deliveries' \in [StripeEvent -> Nat]
      /\ crashes' \in Nat
      /\ owed' \in [StripeEvent -> SUBSET Listing]
  <2>1. CASE \E e \in StripeEvent : Deliver(r, e)
    BY <2>1 DEF Deliver, HookCall
  <2>2. CASE RechargeRead(r)
    <3>1. hook[r] \in HookCall
      BY <2>2, HookCallType DEF RechargeRead
    <3>2. (wallet[PayerOf[hook[r].event]].lifetime = 0) \in BOOLEAN
      OBVIOUS
    <3>3. [hook[r] EXCEPT !.step = "write",
                          !.isFirst = wallet[PayerOf[hook[r].event]].lifetime = 0] \in HookCall
      BY <3>1, <3>2 DEF HookCall
    <3>4. \/ Ack(r)
          \/ /\ hook' = [hook EXCEPT ![r] =
                 [hook[r] EXCEPT !.step = "write",
                                 !.isFirst = wallet[PayerOf[hook[r].event]].lifetime = 0]]
             /\ UNCHANGED acked
      BY <2>2 DEF RechargeRead
    <3>5. UNCHANGED <<deliveries, crashes, owed>>
      BY <2>2 DEF RechargeRead
    <3>6. hook' \in [Request -> HookCall \cup {NoHook}]
      BY <3>3, <3>4 DEF Ack
    <3>7. acked' \in [StripeEvent -> BOOLEAN]
      BY <3>1, <3>4 DEF Ack, HookCall
    <3> QED
      BY <3>5, <3>6, <3>7
  <2>3. CASE FindBlocked(r)
    <3>1. hook[r] \in HookCall
      BY <2>3, HookCallType DEF FindBlocked
    <3>2. Blocked(PayerOf[hook[r].event]) \in SUBSET Listing
      BY DEF Blocked
    <3> QED
      BY <2>3, <3>1, <3>2 DEF FindBlocked, HookCall
  <2>4. CASE Answer(r)
    BY <2>4, HookCallType DEF Answer, Ack, HookCall
  <2> QED
    BY <2>1, <2>2, <2>3, <2>4
<1>6. \A k \in Listing : Row(k)' = Row(k)
  BY <1>1 DEF Row, engineVars, walletVars, rowVars
<1> QED
  <2>1. \A k \in Listing : RowOK(k)
    BY IInvByRow
  <2>2. (\A k \in Listing : RowOK(k))'
    BY <1>6, <2>1, NoRowChanged
  <2> QED
    BY <1>3, <1>4, <1>5, <2>2, IInvByRowPrimed

\* A credit keeps a wallet row a wallet row.
LEMMA CreditedRow ==
    ASSUME NEW w \in WalletRow, NEW a \in Nat, NEW b \in Nat
    PROVE  [w EXCEPT !.balance = @ + a + b, !.lifetime = @ + a] \in WalletRow
<1>1. ASSUME NEW x \in Nat, NEW y \in Nat
      PROVE  [w EXCEPT !.balance = x, !.lifetime = y] \in WalletRow
  OBVIOUS
<1>2. w.balance + a + b \in Nat /\ w.lifetime + a \in Nat
  OBVIOUS
<1> QED
  BY <1>1, <1>2

\* The credit: a wallet and a ledger row change, no listing does.
LEMMA RechargeCommitStep ==
    ASSUME IInv, NEW r \in Request, RechargeCommit(r)
    PROVE  IInv'
<1> USE DEF IInv, TypeOK
<1> PICK e : e = hook[r].event
  OBVIOUS
<1>1. hook[r] \in HookCall /\ e \in StripeEvent /\ PayerOf[e] \in User /\ AmountOf[e] \in Nat
  BY HookCallType, WalletAssumption DEF RechargeCommit, HookCall
<1>2. UNCHANGED <<debit, refund, month, rowVars, call, deliveries, crashes>>
  BY DEF RechargeCommit, RechargeWrite, walletVars
<1>3. CASE UNCHANGED walletVars /\ Ack(r) /\ UNCHANGED owed
  <2>1. TypeOK'
    BY <1>1, <1>2, <1>3 DEF EngineTypeOK, WalletTypeOK, walletVars, rowVars, Ack
  <2>2. CreateIsExclusive' /\ \A k \in Listing : Row(k)' = Row(k)
    BY <1>2 DEF CreateIsExclusive, Row, rowVars
  <2> QED
    BY <2>1, <2>2, IInvByRow, NoRowChanged, IInvByRowPrimed
<1>4. CASE RechargeWrite(e, hook[r].isFirst)
          /\ hook' = [hook EXCEPT ![r].step = "find"]
          /\ owed' = [owed EXCEPT ![e] = Blocked(PayerOf[e])]
          /\ UNCHANGED acked
  <2> DEFINE u == PayerOf[e]
             bonus == IF BonusApplies(e, hook[r].isFirst) THEN 1 ELSE 0
             w == [wallet[u] EXCEPT !.balance = @ + AmountOf[e] + bonus * FirstRechargeBonus,
                                    !.lifetime = @ + AmountOf[e]]
  <2>1. bonus \in {0, 1} /\ bonus * FirstRechargeBonus \in Nat
    <3>1. bonus = 0 \/ bonus = 1
      OBVIOUS
    <3> HIDE DEF bonus
    <3> QED
      BY <3>1, WalletAssumption
  <2>2. wallet[u] \in WalletRow
    BY <1>1 DEF EngineTypeOK, WalletTypeOK
  <2>3. w \in WalletRow
    <3> HIDE DEF bonus, WalletRow
    <3> QED
      BY <1>1, <2>1, <2>2, CreditedRow
  <2>4. /\ wallet' = [wallet EXCEPT ![u] = w]
        /\ credit' = [credit EXCEPT ![e] = TRUE]
        /\ bonuses' = [bonuses EXCEPT ![u] = @ + bonus]
    BY <1>1, <1>4 DEF RechargeWrite, EngineTypeOK, WalletTypeOK
  <2> HIDE DEF w, bonus
  <2>5. EngineTypeOK'
    BY <1>1, <1>2, <2>1, <2>3, <2>4 DEF EngineTypeOK, WalletTypeOK, rowVars
  <2>6. [hook[r] EXCEPT !.step = "find"] \in HookCall
    BY <1>1 DEF HookCall
  <2>7. hook' = [hook EXCEPT ![r] = [hook[r] EXCEPT !.step = "find"]]
    BY <1>4
  <2>8. owed' \in [StripeEvent -> SUBSET Listing]
    BY <1>1, <1>4 DEF Blocked
  <2>9. TypeOK'
    BY <1>2, <1>4, <2>5, <2>6, <2>7, <2>8
  <2>10. CreateIsExclusive' /\ \A k \in Listing : Row(k)' = Row(k)
    BY <1>2 DEF CreateIsExclusive, Row, rowVars
  <2> QED
    BY <2>9, <2>10, IInvByRow, NoRowChanged, IInvByRowPrimed
<1> QED
  BY <1>3, <1>4 DEF RechargeCommit

\* A turn of the loop: a request starts on a blocked listing, or not.
LEMMA ReauthorizeNextStep ==
    ASSUME IInv, NEW r \in Request, ReauthorizeNext(r)
    PROVE  IInv'
<1>1. PICK l \in hook[r].todo :
        /\ hook' = [hook EXCEPT ![r].todo = @ \ {l}]
        /\ owed' = [owed EXCEPT ![hook[r].event] = @ \ {l}]
        /\ StartReauthorize(r, l) \/ UNCHANGED engineVars
  BY DEF ReauthorizeNext
<1>2. hook[r] \in HookCall
  BY HookCallType DEF ReauthorizeNext, IInv
<1>3. UNCHANGED <<acked, deliveries, crashes>>
  BY DEF ReauthorizeNext
<1>4. (EngineTypeOK /\ CreateIsExclusive /\ \A k \in Listing : RowOK(k))'
  <2>1. CASE StartReauthorize(r, l)
    <3>1. l \in Listing
      BY <1>2 DEF HookCall
    <3>2. StartCall(r)
      BY <2>1, <3>1 DEF StartCall
    <3> QED
      BY <3>2, StartCallStep
  <2>2. CASE UNCHANGED engineVars
    <3>1. EngineTypeOK' /\ CreateIsExclusive' /\ \A k \in Listing : Row(k)' = Row(k)
      BY <2>2 DEF engineVars, walletVars, rowVars, IInv, TypeOK, EngineTypeOK, WalletTypeOK,
                  CreateIsExclusive, Row
    <3>2. \A k \in Listing : RowOK(k)
      BY IInvByRow
    <3> QED
      BY <3>1, <3>2, NoRowChanged
  <2> QED
    BY <1>1, <2>1, <2>2
<1>5. TypeOK'
  <2>1. [hook[r] EXCEPT !.todo = @ \ {l}] \in HookCall
    BY <1>2 DEF HookCall
  <2>2. hook' = [hook EXCEPT ![r] = [hook[r] EXCEPT !.todo = @ \ {l}]]
    BY <1>1
  <2>3. owed' \in [StripeEvent -> SUBSET Listing]
    BY <1>1, <1>2 DEF HookCall, IInv, TypeOK
  <2> QED
    BY <1>3, <1>4, <2>1, <2>2, <2>3 DEF TypeOK, IInv
<1> QED
  BY <1>4, <1>5, IInvByRowPrimed

-----------------------------------------------------------------------------
(* The invariant.                                                           *)

\* The initial states satisfy the inductive invariant.
LEMMA InitIInv == Init => IInv
<1> SUFFICES ASSUME Init PROVE IInv
  OBVIOUS
<1> USE DEF Init, EngineInit, WalletInit
<1>1. PICK old \in SUBSET Legacy :
        /\ debit = [l \in Listing |-> IF l \in old
                                      THEN [source |-> "FREE_CREDIT", amount |-> 0]
                                      ELSE NoRow]
        /\ status = [l \in Listing |-> IF l \in old THEN "USER_VALIDATED" ELSE "NO_ROW"]
        /\ source = [l \in Listing |-> IF l \in old THEN "FREE_CREDIT" ELSE "BLOCKED"]
        /\ prixPublie \in [Listing -> {NoPrix} \cup Prix]
        /\ isPriceFlagged = [l \in Listing |-> l \in old /\ PriceFlagged(prixPublie[l])]
  OBVIOUS
<1>2. WalletTypeOK
  BY <1>1, WalletAssumption DEF WalletTypeOK
<1>3. EngineTypeOK
  <2>1. isPriceFlagged \in [Listing -> BOOLEAN]
    BY <1>1 DEF PriceFlagged
  <2> QED
    BY <1>1, <1>2, <2>1 DEF EngineTypeOK, ListingStatus
<1>4. TypeOK
  BY <1>3 DEF TypeOK
<1>5. CreateIsExclusive
  BY DEF CreateIsExclusive
<1>6. \A l \in Listing : RowOK(l)
  BY <1>1, WalletAssumption DEF RowOK, Paid
<1> QED
  BY <1>4, <1>5, <1>6, IInvByRow

\* Every step preserves the inductive invariant.
LEMMA NextIInv == IInv /\ [Next]_vars => IInv'
<1> SUFFICES ASSUME IInv, [Next]_vars PROVE IInv'
  OBVIOUS
<1>1. ASSUME NEW l \in Listing, RouteStep(l) \/ Publication(l), UNCHANGED hookVars
      PROVE  IInv'
  BY <1>1, PlainMoveStep, RefundMoveStep, ValidateStep DEF RouteStep, Publication
<1>2. ASSUME NEW r \in Request, StartCall(r), UNCHANGED hookVars
      PROVE  IInv'
  <2>1. TypeOK'
    BY <1>2, StartCallStep DEF TypeOK, hookVars, IInv
  <2> QED
    BY <1>2, <2>1, StartCallStep, IInvByRowPrimed
<1>3. ASSUME NEW r \in Request, CallStep(r), UNCHANGED hookVars
      PROVE  IInv'
  BY <1>3, ResetStep, FinishCreateStep, FinishReauthorizeStep, FinishEditStep DEF CallStep
<1>4. ASSUME NEW r \in Request, HookStep(r) \/ \E e \in StripeEvent : Deliver(r, e)
      PROVE  IInv'
  BY <1>4, QuietStep, RechargeCommitStep, ReauthorizeNextStep DEF HookStep
<1>5. ASSUME (NextMonth /\ UNCHANGED hookVars) \/ Crash
      PROVE  IInv'
  <2>1. \A l \in Listing : RowOK(l)
    BY IInvByRow
  <2>2. \A l \in Listing : Row(l)' = Row(l)
    BY <1>5 DEF NextMonth, Crash, Row, walletVars, rowVars
  <2>3. TypeOK'
    BY <1>5 DEF NextMonth, Crash, walletVars, rowVars, hookVars, IInv, TypeOK,
                EngineTypeOK, WalletTypeOK
  <2>4. CreateIsExclusive'
    BY <1>5 DEF NextMonth, Crash, rowVars, CreateIsExclusive, IInv, TypeOK, EngineTypeOK
  <2> QED
    BY <2>1, <2>2, <2>3, <2>4, NoRowChanged, IInvByRowPrimed
<1>6. CASE UNCHANGED vars
  <2>1. \A l \in Listing : RowOK(l)
    BY IInvByRow
  <2>2. \A l \in Listing : Row(l)' = Row(l)
    BY <1>6 DEF vars, engineVars, Row, walletVars, rowVars
  <2>3. TypeOK' /\ CreateIsExclusive'
    BY <1>6 DEF vars, engineVars, walletVars, rowVars, hookVars, IInv, TypeOK,
                EngineTypeOK, WalletTypeOK, CreateIsExclusive
  <2> QED
    BY <2>1, <2>2, <2>3, NoRowChanged, IInvByRowPrimed
<1> QED
  BY <1>1, <1>2, <1>3, <1>4, <1>5, <1>6 DEF Next

\* IInv holds in every reachable state.
LEMMA Invariance == Spec => []IInv
  BY InitIInv, NextIInv, PTL DEF Spec

\* No wallet goes below zero and no request holds an ill-formed record,
\* whatever is interleaved: the guards of commit() are enough.
THEOREM TypeCorrect == Spec => []TypeOK
  BY Invariance, PTL DEF IInv

\* Money and status never move apart (listing-engine.ts, move() inside the
\* transaction of every operation that charges or gives back).
THEOREM MoneyIsSafe == Spec => []MoneyFollowsStatus
  BY Invariance, PTL DEF IInv

\* A listing is debited from the source and of the cost that authorize()
\* froze on its row, and never while it is BLOCKED.
THEOREM DebitIsFaithful == Spec => []DebitIsWhatWasAuthorized
  BY Invariance, PTL DEF IInv

-----------------------------------------------------------------------------
(* The free quota.                                                          *)

\* One step: a free credit appears by a reset that was due or by a refund.
LEMMA FreeCreditsStep ==
    ASSUME IInv, [Next]_vars, NEW u \in User, wallet'[u].free > wallet[u].free
    PROVE  \/ wallet[u].resetAt <= month
           \/ \E l \in Listing : OwnerOf[l] = u /\ refund[l] # refund'[l]
<1> USE WalletAssumption DEF IInv, TypeOK, EngineTypeOK, WalletTypeOK
<1>1. wallet[u].free \in Nat /\ wallet'[u] # wallet[u]
  OBVIOUS
<1>2. ~UNCHANGED wallet
  BY <1>1
<1>3. ASSUME NEW l \in Listing, FailAi(l) \/ Cancel(l) \/ FailPublish(l)
      PROVE  \E k \in Listing : OwnerOf[k] = u /\ refund[k] # refund'[k]
  <2>1. /\ debit[l] # NoRow /\ refund[l] = NoRow
        /\ wallet' = [wallet EXCEPT ![OwnerOf[l]] = GiveBack(@, debit[l])]
        /\ refund' = [refund EXCEPT ![l] = debit[l]]
    BY <1>2, <1>3 DEF FailAi, Cancel, FailPublish, TolerantRefund, Refund, walletVars
  <2>2. OwnerOf[l] = u
    BY <1>1, <2>1
  <2> QED
    BY <2>1, <2>2
<1>4. ASSUME NEW l \in Listing, NEW prix \in Prix, Validate(l, prix)
      PROVE  FALSE
  <2>1. /\ wallet \in [User -> WalletRow] /\ OwnerOf[l] \in User /\ cost[l] \in Nat
    OBVIOUS
  <2>2. CASE CommitFree(l)
    BY <1>1, <2>1, <2>2 DEF CommitFree
  <2>3. CASE CommitWallet(l, cost[l])
    BY <1>1, <2>1, <2>3 DEF CommitWallet
  <2> QED
    BY <1>4, <2>2, <2>3 DEF Validate, Commit
<1>5. ASSUME NEW r \in Request, ResetFreeTierIfDue(r)
      PROVE  wallet[u].resetAt <= month
  <2>1. call[r] \in AuthCall
    BY <1>5, AuthCallType DEF ResetFreeTierIfDue
  <2>2. ResetWins(u, call[r].seen)
    BY <1>1, <1>5 DEF ResetFreeTierIfDue, ResetWallet
  <2> QED
    BY <2>2 DEF ResetWins, ResetDue
<1>6. ASSUME NEW r \in Request, RechargeCommit(r)
      PROVE  FALSE
  <2> PICK e : e = hook[r].event
    OBVIOUS
  <2>1. RechargeWrite(e, hook[r].isFirst)
    BY <1>2, <1>6 DEF RechargeCommit, walletVars
  <2> QED
    BY <1>1, <2>1 DEF RechargeWrite
<1>7. ASSUME NEW l \in Listing,
             \/ StartAiProcessing(l) \/ CompleteAiDraft(l) \/ Queue(l)
             \/ MarkPublished(l) \/ Expire(l)
      PROVE  UNCHANGED wallet
  BY <1>7 DEF StartAiProcessing, CompleteAiDraft, Queue, MarkPublished, Expire, walletVars
<1>8. ASSUME NEW r \in Request,
             \/ StartCall(r) \/ FinishCreate(r) \/ FinishReauthorize(r) \/ FinishEdit(r)
             \/ \E e \in StripeEvent : Deliver(r, e)
             \/ RechargeRead(r) \/ FindBlocked(r) \/ ReauthorizeNext(r) \/ Answer(r)
      PROVE  UNCHANGED wallet
  BY <1>8 DEF StartCall, StartCreate, StartReauthorize, StartEdit, FinishCreate,
              FinishReauthorize, FinishEdit, Deliver, RechargeRead, FindBlocked,
              ReauthorizeNext, Answer, engineVars, walletVars
<1>9. NextMonth \/ Crash \/ UNCHANGED vars => UNCHANGED wallet
  BY DEF NextMonth, Crash, vars, engineVars, walletVars
<1> HIDE DEF IInv
<1>10. ASSUME NEW l \in Listing, RouteStep(l) \/ Publication(l)
       PROVE  \E k \in Listing : OwnerOf[k] = u /\ refund[k] # refund'[k]
  BY <1>2, <1>3, <1>4, <1>7, <1>10 DEF RouteStep, Publication
<1>11. ASSUME NEW r \in Request, CallStep(r) \/ HookStep(r)
       PROVE  wallet[u].resetAt <= month
  BY <1>2, <1>5, <1>6, <1>8, <1>11 DEF CallStep, HookStep
<1> QED
  BY <1>2, <1>8, <1>9, <1>10, <1>11 DEF Next

\* Two authorize() that race for the monthly reset, on any number of
\* requests, never grant two quotas (wallet.service.ts, resetFreeTierIfDue).
THEOREM QuotaIsGrantedOnce == Spec => FreeCreditsGrowOnlyWhenDue
<1>1. IInv /\ [Next]_vars =>
        [\A u \in User : wallet'[u].free > wallet[u].free =>
           \/ wallet[u].resetAt <= month
           \/ \E l \in Listing : OwnerOf[l] = u /\ refund[l] # refund'[l]]_vars
  BY FreeCreditsStep
<1> QED
  BY <1>1, Invariance, PTL DEF Spec, FreeCreditsGrowOnlyWhenDue

-----------------------------------------------------------------------------
(* The contract.                                                            *)

\* The phase of a listing can be read off its status, save that a cancelled
\* listing is closed or refunded according to whether it had been debited.
LEMMA PhaseByStatus ==
    ASSUME NEW l \in Listing, RowOK(l), status[l] \in ListingStatus \cup {"NO_ROW"}
    PROVE  Phase(l) =
      CASE status[l] \in {"NO_ROW", "PENDING_AUTH", "AUTHORIZED", "AI_PROCESSING",
                          "DRAFT_READY"}                                  -> "open"
        [] status[l] = "AI_FAILED"                                       -> "closed"
        [] status[l] = "USER_CANCELLED" /\ debit[l] = NoRow              -> "closed"
        [] status[l] \in {"USER_VALIDATED", "QUEUED"}                    -> "bought"
        [] status[l] \in {"PUBLISHED", "EXPIRED"}                        -> "served"
        [] status[l] = "PUBLISH_FAILED"                                  -> "refunded"
        [] status[l] = "USER_CANCELLED" /\ debit[l] # NoRow              -> "refunded"
  BY DEF Phase, RowOK, Paid, ListingStatus

\* The same in the next state.
LEMMA PhaseByStatusPrimed ==
    ASSUME NEW l \in Listing, RowOK(l)', status'[l] \in ListingStatus \cup {"NO_ROW"}
    PROVE  Phase(l)' =
      CASE status'[l] \in {"NO_ROW", "PENDING_AUTH", "AUTHORIZED", "AI_PROCESSING",
                           "DRAFT_READY"}                                 -> "open"
        [] status'[l] = "AI_FAILED"                                      -> "closed"
        [] status'[l] = "USER_CANCELLED" /\ debit'[l] = NoRow            -> "closed"
        [] status'[l] \in {"USER_VALIDATED", "QUEUED"}                   -> "bought"
        [] status'[l] \in {"PUBLISHED", "EXPIRED"}                       -> "served"
        [] status'[l] = "PUBLISH_FAILED"                                 -> "refunded"
        [] status'[l] = "USER_CANCELLED" /\ debit'[l] # NoRow            -> "refunded"
  BY DEF Phase, RowOK, Paid, ListingStatus

PhaseMoves == {<<"open", "bought">>, <<"open", "closed">>,
               <<"bought", "served">>, <<"bought", "refunded">>}

\* When only row l may change, the contract stutters or moves listing l.
LEMMA OnePhaseMoves ==
    ASSUME NEW l \in Listing,
           \A k \in Listing \ {l} : Row(k)' = Row(k),
           Phase(l)' = Phase(l) \/ <<Phase(l), Phase(l)'>> \in PhaseMoves
    PROVE  [Contract!Next]_phases
<1>1. \A k \in Listing \ {l} : Phase(k)' = Phase(k)
  BY DEF Row, Phase
<1>2. CASE Phase(l)' = Phase(l)
  BY <1>1, <1>2 DEF phases
<1>3. CASE <<Phase(l), Phase(l)'>> \in PhaseMoves
  <2>1. phases' = [phases EXCEPT ![l] = Phase(l)']
    BY <1>1 DEF phases
  <2>2. Contract!Next
    BY <1>3, <2>1 DEF phases, PhaseMoves, Contract!Next, Contract!Buy, Contract!Close,
                      Contract!Serve, Contract!GiveBack, Contract!Step
  <2> QED
    BY <2>2
<1> QED
  BY <1>2, <1>3

\* Initially every listing is open, or bought by the version before.
LEMMA InitContract == Init => Contract!Init
<1> SUFFICES ASSUME Init PROVE Contract!Init
  OBVIOUS
<1>1. PICK old \in SUBSET Legacy :
        /\ debit = [l \in Listing |-> IF l \in old
                                      THEN [source |-> "FREE_CREDIT", amount |-> 0]
                                      ELSE NoRow]
        /\ status = [l \in Listing |-> IF l \in old THEN "USER_VALIDATED" ELSE "NO_ROW"]
  BY DEF Init, EngineInit
<1>2. refund = [l \in Listing |-> NoRow]
  BY DEF Init, EngineInit, WalletInit
<1>3. \A l \in Listing : Phase(l) \in {"open", "bought"}
  BY <1>1, <1>2, WalletAssumption DEF Phase
<1> QED
  BY <1>3 DEF Contract!Init, phases

\* Every step of the system is a step of the contract, or leaves it alone.
LEMMA NextContract ==
    IInv /\ IInv' /\ [Next]_vars => [Contract!Next]_phases
<1> SUFFICES ASSUME IInv, IInv', [Next]_vars
             PROVE  [Contract!Next]_phases
  OBVIOUS
<1>1. /\ \A l \in Listing : RowOK(l) /\ RowOK(l)'
      /\ \A l \in Listing : status[l] \in ListingStatus \cup {"NO_ROW"}
      /\ \A l \in Listing : status'[l] \in ListingStatus \cup {"NO_ROW"}
  BY IInvByRow, IInvByRowPrimed DEF IInv, TypeOK, EngineTypeOK
<1>2. ASSUME \A k \in Listing : Row(k)' = Row(k)
      PROVE  [Contract!Next]_phases
  BY <1>2 DEF phases, Row, Phase
<1>3. ASSUME NEW l \in Listing,
             \/ StartAiProcessing(l) \/ CompleteAiDraft(l) \/ Queue(l)
             \/ MarkPublished(l) \/ Expire(l)
      PROVE  [Contract!Next]_phases
  <2>1. PICK to \in {"AI_PROCESSING", "DRAFT_READY", "QUEUED", "PUBLISHED", "EXPIRED"} :
          /\ CanTransition(status[l], to)
          /\ status' = [status EXCEPT ![l] = to]
          /\ UNCHANGED <<walletVars, source, cost>>
    BY <1>3 DEF StartAiProcessing, CompleteAiDraft, Queue, MarkPublished, Expire, Move
  <2>2. /\ <<status[l], to>> \in {<<"AUTHORIZED", "AI_PROCESSING">>,
            <<"AI_PROCESSING", "DRAFT_READY">>, <<"USER_VALIDATED", "QUEUED">>,
            <<"QUEUED", "PUBLISHED">>, <<"PUBLISHED", "EXPIRED">>}
        /\ status'[l] = to
    BY <2>1, MoveIsATransition DEF IInv, TypeOK, EngineTypeOK
  <2>3. \A k \in Listing \ {l} : Row(k)' = Row(k)
    BY <2>1 DEF Row, walletVars, IInv, TypeOK, EngineTypeOK
  <2>4. Phase(l)' = Phase(l) \/ <<Phase(l), Phase(l)'>> \in PhaseMoves
    BY <1>1, <2>2, PhaseByStatus, PhaseByStatusPrimed DEF PhaseMoves
  <2> QED
    BY <2>3, <2>4, OnePhaseMoves
<1>4. ASSUME NEW l \in Listing, FailAi(l) \/ Cancel(l) \/ FailPublish(l)
      PROVE  [Contract!Next]_phases
  <2>1. PICK to \in {"AI_FAILED", "USER_CANCELLED", "PUBLISH_FAILED"} :
          /\ CanTransition(status[l], to)
          /\ status' = [status EXCEPT ![l] = to]
          /\ UNCHANGED <<source, cost, debit>>
          /\ UNCHANGED refund \/ refund' = [refund EXCEPT ![l] = debit[l]]
    BY <1>4 DEF FailAi, Cancel, FailPublish, Move, TolerantRefund, Refund, walletVars
  <2>2. /\ <<status[l], to>> \in {<<"AI_PROCESSING", "AI_FAILED">>,
            <<"PENDING_AUTH", "USER_CANCELLED">>, <<"AUTHORIZED", "USER_CANCELLED">>,
            <<"AI_PROCESSING", "USER_CANCELLED">>, <<"DRAFT_READY", "USER_CANCELLED">>,
            <<"QUEUED", "USER_CANCELLED">>, <<"QUEUED", "PUBLISH_FAILED">>}
        /\ status'[l] = to
    BY <2>1, MoveIsATransition DEF IInv, TypeOK, EngineTypeOK
  <2>3. \A k \in Listing \ {l} : Row(k)' = Row(k)
    BY <2>1 DEF Row, IInv, TypeOK, EngineTypeOK, WalletTypeOK
  <2>4. status[l] = "QUEUED" <=> debit[l] # NoRow
    BY <1>1, <2>2 DEF RowOK, Paid
  <2>5. <<Phase(l), Phase(l)'>> \in PhaseMoves
    BY <1>1, <2>1, <2>2, <2>4, PhaseByStatus, PhaseByStatusPrimed DEF PhaseMoves
  <2> QED
    BY <2>3, <2>5, OnePhaseMoves
<1>5. ASSUME NEW l \in Listing, NEW prix \in Prix, Validate(l, prix)
      PROVE  [Contract!Next]_phases
  <2>1. status[l] = "DRAFT_READY" /\ status' = [status EXCEPT ![l] = "QUEUED"]
    BY <1>5, MoveIsATransition DEF Validate
  <2>2. \A k \in Listing \ {l} : Row(k)' = Row(k)
    BY <1>5 DEF Row, Validate, Commit, CommitFree, CommitWallet, IInv, TypeOK,
                EngineTypeOK, WalletTypeOK
  <2>3. status'[l] = "QUEUED"
    BY <2>1 DEF IInv, TypeOK, EngineTypeOK
  <2>4. Phase(l) = "open"
    BY <1>1, <2>1, PhaseByStatus
  <2>5. Phase(l)' = "bought"
    BY <1>1, <2>3, PhaseByStatusPrimed
  <2> QED
    BY <2>2, <2>4, <2>5, OnePhaseMoves DEF PhaseMoves
<1>6. ASSUME NEW r \in Request, FinishCreate(r) \/ FinishReauthorize(r)
      PROVE  [Contract!Next]_phases
  <2> PICK l : l = call[r].l
    OBVIOUS
  <2>1. call[r] \in AuthCall
    BY <1>6, AuthCallType DEF FinishCreate, FinishReauthorize, IInv, TypeOK
  <2>2. l \in Listing
    BY <2>1 DEF AuthCall
  <2>3. \/ UNCHANGED <<status, source, cost>>
        \/ /\ status[l] \in {"NO_ROW", "PENDING_AUTH"}
           /\ status'[l] \in {"PENDING_AUTH", "AUTHORIZED"}
    <3>1. CASE FinishCreate(r)
      <4>1. status[l] = "NO_ROW"
        BY <2>1, <3>1, NoCallAssumption DEF FinishCreate, IInv, CreateIsExclusive
      <4>2. status'[l] \in {"PENDING_AUTH", "AUTHORIZED"}
        BY <2>2, <3>1 DEF FinishCreate, IInv, TypeOK, EngineTypeOK
      <4> QED
        BY <4>1, <4>2
    <3>2. CASE FinishReauthorize(r)
      BY <2>2, <3>2, MoveIsATransition
         DEF FinishReauthorize, Move, IInv, TypeOK, EngineTypeOK
    <3> QED
      BY <1>6, <3>1, <3>2
  <2>4. UNCHANGED <<debit, refund>> /\ \A k \in Listing \ {l} : Row(k)' = Row(k)
    BY <1>6 DEF Row, FinishCreate, FinishReauthorize, Move, walletVars, IInv, TypeOK, EngineTypeOK
  <2>5. Phase(l)' = Phase(l)
    <3>1. CASE UNCHANGED <<status, source, cost>>
      BY <2>4, <3>1 DEF Phase
    <3>2. CASE /\ status[l] \in {"NO_ROW", "PENDING_AUTH"}
               /\ status'[l] \in {"PENDING_AUTH", "AUTHORIZED"}
      BY <1>1, <2>2, <3>2, PhaseByStatus, PhaseByStatusPrimed
    <3> QED
      BY <2>3, <3>1, <3>2
  <2> QED
    BY <2>2, <2>4, <2>5, OnePhaseMoves
<1>7. ASSUME NEW r \in Request,
             \/ StartCall(r) \/ ResetFreeTierIfDue(r) \/ FinishEdit(r)
             \/ \E e \in StripeEvent : Deliver(r, e)
             \/ HookStep(r)
      PROVE  \A k \in Listing : Row(k)' = Row(k)
  BY <1>7 DEF StartCall, StartCreate, StartReauthorize, StartEdit, ResetFreeTierIfDue,
              FinishEdit, Deliver, HookStep, RechargeRead, RechargeCommit, RechargeWrite,
              FindBlocked, ReauthorizeNext, Answer, engineVars, walletVars, rowVars, Row
<1>8. NextMonth \/ Crash \/ UNCHANGED vars => \A k \in Listing : Row(k)' = Row(k)
  BY DEF NextMonth, Crash, vars, engineVars, walletVars, rowVars, Row
<1>9. ASSUME NEW l \in Listing, RouteStep(l) \/ Publication(l)
      PROVE  [Contract!Next]_phases
  BY <1>3, <1>4, <1>5, <1>9 DEF RouteStep, Publication
<1>10. ASSUME NEW r \in Request, CallStep(r)
       PROVE  [Contract!Next]_phases
  BY <1>2, <1>6, <1>7, <1>10 DEF CallStep
<1> QED
  BY <1>2, <1>7, <1>8, <1>9, <1>10 DEF Next

\* The billing keeps its promise: a listing is bought at most once and what
\* was bought ends served or given back, never both, through any
\* interleaving of requests, deliveries and crashes.
THEOREM BillingKeepsItsPromise == Spec => ContractImplemented
  BY InitContract, NextContract, Invariance, PTL DEF Spec, ContractImplemented, Contract!Spec

-----------------------------------------------------------------------------
(* Sums over finite sets.  The recursive function of the library is shown   *)
(* to exist, and what it computes is found by looking at a smallest         *)
(* counterexample.                                                          *)

\* The element that the sum takes first.
First(s) == CHOOSE x \in s : TRUE

\* h is the running sum of g over the subsets of S.
IsRunningSum(g, S, h) ==
    h = [s \in SUBSET S |-> IF s = {} THEN 0 ELSE g[First(s)] + h[s \ {First(s)}]]

RunningSum(g, S) == CHOOSE h : IsRunningSum(g, S, h)

\* The library's sum is the last of the running sums.
LEMMA SumIsRunningSum ==
    ASSUME NEW g, NEW S
    PROVE  SumOf(g, S) = RunningSum(g, S)[S]
  BY DEF SumOf, MapThenSumSet, MapThenFoldSet, RunningSum, IsRunningSum, First

\* Induction over finite sets: of the subsets of a finite set that have some
\* trait, one is smallest.
LEMMA SmallestSubset ==
    ASSUME NEW S, IsFiniteSet(S), NEW T \in SUBSET SUBSET S, T # {}
    PROVE  \E s \in T : \A t \in SUBSET s : t # s => t \notin T
<1>1. IsWellFoundedOn(StrictSubsetOrdering(S), FiniteSubsetsOf(S))
  BY FS_StrictSubsetOrderingWellFounded
<1>2. T \subseteq FiniteSubsetsOf(S)
  BY FS_Subset DEF FiniteSubsetsOf
<1>3. \A X : X # {} /\ X \subseteq FiniteSubsetsOf(S)
     => \E s \in X : \A t \in X : ~(<<t, s>> \in StrictSubsetOrdering(S))
  <2> TAKE X
  <2> HAVE X # {} /\ X \subseteq FiniteSubsetsOf(S)
  <2> QED
    BY <1>1, WFMin
<1>4. PICK s \in T : \A t \in T : ~(<<t, s>> \in StrictSubsetOrdering(S))
  BY <1>2, <1>3
<1>5. \A t \in SUBSET s : t # s => t \notin T
  <2> TAKE t \in SUBSET s
  <2> SUFFICES ASSUME t # s, t \in T PROVE FALSE
    OBVIOUS
  <2>1. /\ <<t, s>> \in (SUBSET S) \X (SUBSET S)
        /\ <<t, s>>[1] \subseteq <<t, s>>[2] /\ <<t, s>>[1] # <<t, s>>[2]
    OBVIOUS
  <2>2. <<t, s>> \in StrictSubsetOrdering(S)
    BY <2>1 DEF StrictSubsetOrdering
  <2> QED
    BY <1>4, <2>2
<1> QED
  BY <1>5

\* Two running sums agree on a finite set where both are defined.
LEMMA RunningSumsAgree ==
    ASSUME NEW g, NEW S, NEW R, NEW h, NEW k, IsRunningSum(g, S, h), IsRunningSum(g, R, k),
           NEW s, IsFiniteSet(s), s \subseteq S, s \subseteq R
    PROVE  h[s] = k[s]
<1> DEFINE T == {t \in SUBSET s : h[t] # k[t]}
<1> SUFFICES ASSUME T # {} PROVE FALSE
  OBVIOUS
<1>1. PICK t \in T : \A u \in SUBSET t : u # t => u \notin T
  <2> T \in SUBSET SUBSET s
    OBVIOUS
  <2> HIDE DEF T
  <2> QED
    BY SmallestSubset
<1>2. t \in SUBSET s /\ t \in SUBSET S /\ t \in SUBSET R /\ h[t] # k[t]
  OBVIOUS
<1>3. h[t] = IF t = {} THEN 0 ELSE g[First(t)] + h[t \ {First(t)}]
  BY <1>2 DEF IsRunningSum
<1>4. k[t] = IF t = {} THEN 0 ELSE g[First(t)] + k[t \ {First(t)}]
  BY <1>2 DEF IsRunningSum
<1>5. t # {} => First(t) \in t
  BY DEF First
<1>6. t # {} => h[t \ {First(t)}] = k[t \ {First(t)}]
  BY <1>1, <1>2, <1>5
<1> QED
  BY <1>2, <1>3, <1>4, <1>6

\* The running sum of a finite set exists.
LEMMA RunningSumExists ==
    ASSUME NEW g, NEW S, IsFiniteSet(S)
    PROVE  IsRunningSum(g, S, RunningSum(g, S))
<1> DEFINE T == {s \in SUBSET S : ~\E h : IsRunningSum(g, s, h)}
<1>1. T = {}
  <2> SUFFICES ASSUME T # {} PROVE FALSE
    OBVIOUS
  <2>1. PICK s \in T : \A t \in SUBSET s : t # s => t \notin T
    <3> T \in SUBSET SUBSET S
      OBVIOUS
    <3> HIDE DEF T
    <3> QED
      BY SmallestSubset
  <2>2. \A t \in SUBSET s : IsFiniteSet(t)
    BY FS_Subset
  <2>3. \A t \in SUBSET s : t # s => IsRunningSum(g, t, RunningSum(g, t))
    BY <2>1 DEF RunningSum
  <2> DEFINE h == [t \in SUBSET s |-> IF t = {} THEN 0 ELSE
                      g[First(t)] + RunningSum(g, t \ {First(t)})[t \ {First(t)}]]
  <2>4. \A t \in SUBSET s : t # {} => First(t) \in t
    BY DEF First
  <2>5. ASSUME NEW t \in SUBSET s, t # {}
        PROVE h[t \ {First(t)}] = RunningSum(g, t \ {First(t)})[t \ {First(t)}]
    <3> DEFINE p == t \ {First(t)}
    <3>1. p \in SUBSET s /\ p # s
      BY <2>4, <2>5
    <3>2. IsRunningSum(g, p, RunningSum(g, p))
      BY <2>3, <3>1
    <3>3. RunningSum(g, p)[p] =
            IF p = {} THEN 0 ELSE g[First(p)] + RunningSum(g, p)[p \ {First(p)}]
      BY <3>2 DEF IsRunningSum
    <3>4. h[p] =
            IF p = {} THEN 0 ELSE g[First(p)] + RunningSum(g, p \ {First(p)})[p \ {First(p)}]
      BY <3>1
    <3>5. ASSUME p # {}
          PROVE  RunningSum(g, p)[p \ {First(p)}] = RunningSum(g, p \ {First(p)})[p \ {First(p)}]
      <4> DEFINE q == p \ {First(p)}
      <4>1. q \in SUBSET s /\ q # s /\ q \subseteq p
        BY <2>4, <3>1, <3>5
      <4>2. IsRunningSum(g, q, RunningSum(g, q))
        BY <2>3, <4>1
      <4>3. RunningSum(g, q)[q] = RunningSum(g, p)[q]
        <5> HIDE DEF p, q
        <5> QED
          BY <4>1, <4>2, <3>2, <2>2, RunningSumsAgree
      <4> QED
        BY <4>3
    <3> QED
      BY <3>3, <3>4, <3>5
  <2>6. h = [t \in SUBSET s |-> IF t = {} THEN 0 ELSE g[First(t)] + h[t \ {First(t)}]]
    BY <2>5
  <2>7. IsRunningSum(g, s, h)
    BY <2>6 DEF IsRunningSum
  <2> QED
    BY <2>7
<1> QED
  BY <1>1 DEF RunningSum

\* The empty sum.
LEMMA SumOfNothing ==
    ASSUME NEW g
    PROVE  SumOf(g, {}) = 0
<1>1. IsFiniteSet({})
  BY FS_EmptySet
<1>2. IsRunningSum(g, {}, RunningSum(g, {}))
  BY <1>1, RunningSumExists
<1>3. RunningSum(g, {})[{}] = 0
  BY <1>2 DEF IsRunningSum
<1> QED
  BY <1>3, SumIsRunningSum

\* The sum of a finite set is its first element and the sum of the others.
LEMMA SumFromFirst ==
    ASSUME NEW g, NEW S, IsFiniteSet(S), S # {}
    PROVE  /\ First(S) \in S
           /\ SumOf(g, S) = g[First(S)] + SumOf(g, S \ {First(S)})
<1> DEFINE rest == S \ {First(S)}
<1>1. IsFiniteSet(rest)
  BY FS_Subset
<1>2. IsRunningSum(g, S, RunningSum(g, S)) /\ IsRunningSum(g, rest, RunningSum(g, rest))
  BY <1>1, RunningSumExists
<1>3. RunningSum(g, S)[S] = g[First(S)] + RunningSum(g, S)[rest]
  BY <1>2 DEF IsRunningSum
<1>4. RunningSum(g, S)[rest] = RunningSum(g, rest)[rest]
  <2> rest \subseteq S
    OBVIOUS
  <2> HIDE DEF rest
  <2> QED
    BY <1>1, <1>2, RunningSumsAgree
<1>5. SumOf(g, S) = RunningSum(g, S)[S] /\ SumOf(g, rest) = RunningSum(g, rest)[rest]
  BY SumIsRunningSum
<1>6. First(S) \in S
  BY DEF First
<1> QED
  BY <1>3, <1>4, <1>5, <1>6

\* A sum of integers is an integer.
LEMMA SumIsAnInteger ==
    ASSUME NEW g, NEW S, IsFiniteSet(S), \A x \in S : g[x] \in Int
    PROVE  SumOf(g, S) \in Int
<1> DEFINE T == {s \in SUBSET S : SumOf(g, s) \notin Int}
<1> SUFFICES ASSUME T # {} PROVE FALSE
  OBVIOUS
<1>1. PICK s \in T : \A t \in SUBSET s : t # s => t \notin T
  <2> T \in SUBSET SUBSET S
    OBVIOUS
  <2> HIDE DEF T
  <2> QED
    BY SmallestSubset
<1>2. IsFiniteSet(s)
  BY FS_Subset
<1>3. s # {}
  BY SumOfNothing
<1>4. First(s) \in s /\ SumOf(g, s) = g[First(s)] + SumOf(g, s \ {First(s)})
  BY <1>2, <1>3, SumFromFirst
<1>5. SumOf(g, s \ {First(s)}) \in Int
  BY <1>1, <1>4
<1>6. g[First(s)] \in Int
  BY <1>4
<1>7. SumOf(g, s) \notin Int
  OBVIOUS
<1> HIDE DEF T
<1> QED
  BY <1>4, <1>5, <1>6, <1>7

\* Whatever the element: a sum is that element and the sum of the others.
LEMMA SumFromAny ==
    ASSUME NEW g, NEW S, IsFiniteSet(S), \A y \in S : g[y] \in Int, NEW x \in S
    PROVE  SumOf(g, S) = g[x] + SumOf(g, S \ {x})
<1> DEFINE T == {s \in SUBSET S : \E y \in s : SumOf(g, s) # g[y] + SumOf(g, s \ {y})}
<1> SUFFICES ASSUME T # {} PROVE FALSE
  OBVIOUS
<1>1. PICK s \in T : \A t \in SUBSET s : t # s => t \notin T
  <2> T \in SUBSET SUBSET S
    OBVIOUS
  <2> HIDE DEF T
  <2> QED
    BY SmallestSubset
<1>2. s \in SUBSET S
  OBVIOUS
<1>3. PICK y \in s : SumOf(g, s) # g[y] + SumOf(g, s \ {y})
  OBVIOUS
<1> DEFINE c == First(s)
           p == s \ {c}
           q == s \ {y}
           r == (s \ {c}) \ {y}
<1>4. IsFiniteSet(s) /\ IsFiniteSet(r)
  BY <1>2, FS_Subset
<1>5. c \in s /\ SumOf(g, s) = g[c] + SumOf(g, p)
  BY <1>3, <1>4, SumFromFirst
<1>6. c # y
  BY <1>3, <1>5
<1>7. p \in SUBSET s /\ p # s /\ q \in SUBSET s /\ q # s /\ y \in p /\ c \in q
  BY <1>5, <1>6
<1>8. SumOf(g, p) = g[y] + SumOf(g, r)
  BY <1>1, <1>2, <1>7
<1>9. SumOf(g, q) = g[c] + SumOf(g, r)
  <2>1. (s \ {y}) \ {c} = r
    OBVIOUS
  <2>2. SumOf(g, q) = g[c] + SumOf(g, q \ {c})
    BY <1>1, <1>2, <1>7
  <2> QED
    BY <2>1, <2>2
<1>10. g[c] \in Int /\ g[y] \in Int /\ SumOf(g, r) \in Int
  <2>1. \A z \in r : g[z] \in Int
    BY <1>2
  <2>2. SumOf(g, r) \in Int
    BY <1>4, <2>1, SumIsAnInteger
  <2> QED
    BY <2>2, <1>2, <1>5
<1>11. g[c] + (g[y] + SumOf(g, r)) = g[y] + (g[c] + SumOf(g, r))
  BY <1>10
<1> QED
  BY <1>3, <1>5, <1>8, <1>9, <1>11

\* A sum of zeros is zero.
LEMMA SumOfZeros ==
    ASSUME NEW g, NEW S, IsFiniteSet(S), \A x \in S : g[x] = 0
    PROVE  SumOf(g, S) = 0
<1> DEFINE T == {s \in SUBSET S : SumOf(g, s) # 0}
<1> SUFFICES ASSUME T # {} PROVE FALSE
  OBVIOUS
<1>1. PICK s \in T : \A t \in SUBSET s : t # s => t \notin T
  <2> T \in SUBSET SUBSET S
    OBVIOUS
  <2> HIDE DEF T
  <2> QED
    BY SmallestSubset
<1>2. IsFiniteSet(s)
  BY FS_Subset
<1>3. s # {}
  BY SumOfNothing
<1>4. First(s) \in s /\ SumOf(g, s) = g[First(s)] + SumOf(g, s \ {First(s)})
  BY <1>2, <1>3, SumFromFirst
<1>5. SumOf(g, s \ {First(s)}) = 0 /\ g[First(s)] = 0
  BY <1>1, <1>4
<1>6. SumOf(g, s) # 0
  OBVIOUS
<1> HIDE DEF T
<1> QED
  BY <1>4, <1>5, <1>6

\* A sum looks at the values on its set only.
LEMMA SumOfEquals ==
    ASSUME NEW g, NEW k, NEW S, IsFiniteSet(S), \A x \in S : g[x] = k[x]
    PROVE  SumOf(g, S) = SumOf(k, S)
<1> DEFINE T == {s \in SUBSET S : SumOf(g, s) # SumOf(k, s)}
<1> SUFFICES ASSUME T # {} PROVE FALSE
  OBVIOUS
<1>1. PICK s \in T : \A t \in SUBSET s : t # s => t \notin T
  <2> T \in SUBSET SUBSET S
    OBVIOUS
  <2> HIDE DEF T
  <2> QED
    BY SmallestSubset
<1>2. IsFiniteSet(s)
  BY FS_Subset
<1>3. s # {}
  BY SumOfNothing
<1>4. /\ First(s) \in s
      /\ SumOf(g, s) = g[First(s)] + SumOf(g, s \ {First(s)})
      /\ SumOf(k, s) = k[First(s)] + SumOf(k, s \ {First(s)})
  BY <1>2, <1>3, SumFromFirst
<1>5. SumOf(g, s \ {First(s)}) = SumOf(k, s \ {First(s)})
  BY <1>1, <1>4
<1> QED
  BY <1>4, <1>5

\* One more element.
LEMMA SumWithOneMore ==
    ASSUME NEW g, NEW k, NEW S, IsFiniteSet(S), NEW x, x \notin S,
           \A y \in S : g[y] \in Int /\ k[y] = g[y], k[x] \in Int
    PROVE  SumOf(k, S \cup {x}) = SumOf(g, S) + k[x]
<1>1. IsFiniteSet(S \cup {x})
  BY FS_AddElement
<1>2. SumOf(k, S \cup {x}) = k[x] + SumOf(k, (S \cup {x}) \ {x})
  <2>1. \A y \in S \cup {x} : k[y] \in Int
    OBVIOUS
  <2> QED
    BY <1>1, <2>1, SumFromAny
<1>3. (S \cup {x}) \ {x} = S
  OBVIOUS
<1>4. SumOf(k, S) = SumOf(g, S)
  BY SumOfEquals
<1>5. SumOf(g, S) \in Int
  BY SumIsAnInteger
<1>6. SumOf(k, S \cup {x}) = k[x] + SumOf(g, S)
  BY <1>2, <1>3, <1>4
<1> QED
  BY <1>5, <1>6

-----------------------------------------------------------------------------
(* The ledger.                                                              *)

\* The tables stay finite: a sum over them means something.
LedgerIsFinite ==
    /\ IsFiniteSet(Rows(debit))
    /\ IsFiniteSet(Rows(refund))
    /\ IsFiniteSet(Credited)

LedgerInv == LedgerIsFinite /\ BalanceMatchesLedger

\* What a table amounts to is an integer.
LEMMA AmountsType ==
    ASSUME NEW f \in [Listing -> LedgerRow \cup {NoRow}], IsFiniteSet(Rows(f)), NEW u
    PROVE  Amounts(f, u) \in Int
<1>1. OwnedBy(u, Rows(f)) \subseteq Rows(f)
  BY DEF OwnedBy
<1>2. IsFiniteSet(OwnedBy(u, Rows(f)))
  BY <1>1, FS_Subset
<1>3. \A l \in Rows(f) : f[l] \in LedgerRow /\ f[l].amount \in Int
  BY DEF Rows
<1>4. \A l \in OwnedBy(u, Rows(f)) : [k \in Rows(f) |-> f[k].amount][l] \in Int
  BY <1>1, <1>3
<1> QED
  BY <1>2, <1>4, SumIsAnInteger DEF Amounts

\* A new row of a table counts for the owner of its listing, and only her.
LEMMA NewLedgerRow ==
    ASSUME NEW f, NEW new, NEW l \in Listing, NEW d \in LedgerRow,
           DOMAIN f = Listing, DOMAIN new = Listing, IsFiniteSet(Rows(f)),
           \A k \in Listing : f[k] \in LedgerRow \cup {NoRow},
           f[l] = NoRow, new[l] = d, \A k \in Listing \ {l} : new[k] = f[k]
    PROVE  /\ IsFiniteSet(Rows(new))
           /\ \A u : Amounts(new, u) = Amounts(f, u) + (IF OwnerOf[l] = u THEN d.amount ELSE 0)
<1>1. d # NoRow
  BY WalletAssumption
<1>2. Rows(new) = Rows(f) \cup {l} /\ l \notin Rows(f) /\ Rows(f) \subseteq Listing
  BY <1>1 DEF Rows
<1>3. IsFiniteSet(Rows(new))
  <2>1. IsFiniteSet(Rows(f) \cup {l})
    BY FS_AddElement
  <2> QED
    BY <1>2, <2>1
<1>4. \A k \in Rows(f) : f[k] \in LedgerRow /\ f[k].amount \in Int /\ new[k] = f[k]
  BY <1>1, <1>2 DEF Rows
<1>5. ASSUME NEW u
      PROVE  Amounts(new, u) = Amounts(f, u) + (IF OwnerOf[l] = u THEN d.amount ELSE 0)
  <2> DEFINE S == OwnedBy(u, Rows(f))
             g == [k \in Rows(f) |-> f[k].amount]
             h == [k \in Rows(new) |-> new[k].amount]
  <2>1. /\ IsFiniteSet(S) /\ l \notin S
        /\ \A k \in S : g[k] \in Int /\ h[k] = g[k]
        /\ h[l] = d.amount /\ d.amount \in Int
    <3>1. S \subseteq Rows(f)
      BY DEF OwnedBy
    <3>2. IsFiniteSet(S)
      BY <3>1, FS_Subset
    <3>3. \A k \in Rows(f) : h[k] = new[k].amount /\ g[k] = f[k].amount
      BY <1>2
    <3>4. h[l] = new[l].amount
      BY <1>2
    <3> HIDE DEF g, h, S
    <3> QED
      BY <1>1, <1>2, <1>4, <3>1, <3>2, <3>3, <3>4
  <2>2. OwnedBy(u, Rows(new)) = IF OwnerOf[l] = u THEN S \cup {l} ELSE S
    BY <1>2 DEF OwnedBy
  <2>3. Amounts(f, u) = SumOf(g, S) /\ Amounts(new, u) = SumOf(h, OwnedBy(u, Rows(new)))
    BY DEF Amounts
  <2> HIDE DEF g, h, S
  <2>4. CASE OwnerOf[l] = u
    <3>1. SumOf(h, S \cup {l}) = SumOf(g, S) + h[l]
      BY <2>1, SumWithOneMore
    <3> QED
      BY <2>1, <2>2, <2>3, <2>4, <3>1
  <2>5. CASE OwnerOf[l] # u
    <3>1. SumOf(h, S) = SumOf(g, S) /\ SumOf(g, S) \in Int
      BY <2>1, SumOfEquals, SumIsAnInteger
    <3> QED
      BY <2>2, <2>3, <2>5, <3>1
  <2> QED
    BY <2>4, <2>5
<1> QED
  BY <1>3, <1>5

\* What payments bring is an integer.
LEMMA PaymentsType ==
    ASSUME NEW S, S \subseteq StripeEvent, IsFiniteSet(S), NEW u
    PROVE  Payments(u, S) \in Int
<1>1. PaidBy(u, S) \subseteq S
  BY DEF PaidBy
<1>2. IsFiniteSet(PaidBy(u, S))
  BY <1>1, FS_Subset
<1>3. \A e \in PaidBy(u, S) : AmountOf[e] \in Int
  BY <1>1, WalletAssumption
<1> QED
  BY <1>2, <1>3, SumIsAnInteger DEF Payments

\* A new CREDIT row counts for the payer, and only her.
LEMMA NewCredit ==
    ASSUME NEW S, S \subseteq StripeEvent, IsFiniteSet(S), NEW e \in StripeEvent, e \notin S
    PROVE  /\ IsFiniteSet(S \cup {e})
           /\ \A u : Payments(u, S \cup {e}) =
                       Payments(u, S) + (IF PayerOf[e] = u THEN AmountOf[e] ELSE 0)
<1>1. IsFiniteSet(S \cup {e})
  BY FS_AddElement
<1>2. \A x \in StripeEvent : AmountOf[x] \in Int
  BY WalletAssumption
<1>3. ASSUME NEW u
      PROVE  Payments(u, S \cup {e}) =
               Payments(u, S) + (IF PayerOf[e] = u THEN AmountOf[e] ELSE 0)
  <2> DEFINE P == PaidBy(u, S)
  <2>1. P \subseteq S /\ e \notin P /\ P \subseteq StripeEvent
    BY DEF PaidBy
  <2>2. PaidBy(u, S \cup {e}) = IF PayerOf[e] = u THEN P \cup {e} ELSE P
    BY DEF PaidBy
  <2>3. Payments(u, S) = SumOf(AmountOf, P)
    BY DEF Payments
  <2> HIDE DEF P
  <2>4. IsFiniteSet(P)
    BY <2>1, FS_Subset
  <2>5. SumOf(AmountOf, P) \in Int
    BY <1>2, <2>1, <2>4, SumIsAnInteger
  <2>6. SumOf(AmountOf, P \cup {e}) = SumOf(AmountOf, P) + AmountOf[e]
    BY <1>2, <2>1, <2>4, SumWithOneMore
  <2> QED
    BY <2>2, <2>3, <2>5, <2>6 DEF Payments
<1> QED
  BY <1>1, <1>3

\* The terms of the balance of a user.
LEMMA LedgerTerms ==
    ASSUME IInv, LedgerInv, NEW u \in User
    PROVE  /\ Payments(u, Credited) \in Int /\ Amounts(debit, u) \in Int
           /\ Amounts(refund, u) \in Int /\ bonuses[u] * FirstRechargeBonus \in Int
           /\ wallet[u].balance =
                Payments(u, Credited) + bonuses[u] * FirstRechargeBonus
                - Amounts(debit, u) + Amounts(refund, u)
<1>1. Payments(u, Credited) \in Int
  BY PaymentsType DEF Credited, LedgerInv, LedgerIsFinite
<1>2. Amounts(debit, u) \in Int /\ Amounts(refund, u) \in Int
  BY AmountsType DEF LedgerInv, LedgerIsFinite, IInv, TypeOK, EngineTypeOK, WalletTypeOK
<1>3. bonuses[u] * FirstRechargeBonus \in Int
  <2>1. bonuses[u] \in Int /\ FirstRechargeBonus \in Int
    BY WalletAssumption DEF IInv, TypeOK, EngineTypeOK, WalletTypeOK
  <2> QED
    BY <2>1
<1> QED
  BY <1>1, <1>2, <1>3 DEF LedgerInv, BalanceMatchesLedger

\* A step that writes no row of the ledger moves no balance.
LEMMA QuietLedger ==
    ASSUME LedgerInv, UNCHANGED <<debit, refund, credit, bonuses>>,
           \A u \in User : wallet'[u].balance = wallet[u].balance
    PROVE  LedgerInv'
  BY DEF LedgerInv, LedgerIsFinite, BalanceMatchesLedger, Rows, Amounts, OwnedBy,
         Payments, PaidBy, Credited

\* commit(): the balance goes down by what the DEBIT row says.
LEMMA DebitLedger ==
    ASSUME IInv, LedgerInv, NEW l \in Listing, NEW prix \in Prix, Validate(l, prix)
    PROVE  LedgerInv'
<1> DEFINE d == [source |-> source[l], amount |-> cost[l]]
<1>1. /\ wallet \in [User -> WalletRow] /\ OwnerOf[l] \in User
      /\ debit \in [Listing -> LedgerRow \cup {NoRow}]
      /\ refund \in [Listing -> LedgerRow \cup {NoRow}]
      /\ cost[l] \in Nat
  BY WalletAssumption DEF IInv, TypeOK, EngineTypeOK, WalletTypeOK
<1>2. debit[l] = NoRow /\ d \in LedgerRow /\ UNCHANGED <<refund, credit, bonuses>>
  BY <1>1 DEF Validate, Commit
<1>3. debit' = [debit EXCEPT ![l] = d]
  BY DEF Validate, Commit, CommitFree, CommitWallet, IInv, FreeCostsNothing
<1>4. ASSUME NEW u \in User
      PROVE  wallet'[u].balance = wallet[u].balance - (IF OwnerOf[l] = u THEN d.amount ELSE 0)
  <2>1. CASE source[l] = "FREE_CREDIT" /\ CommitFree(l)
    BY <1>1, <2>1 DEF CommitFree, IInv, FreeCostsNothing
  <2>2. CASE source[l] = "WALLET" /\ CommitWallet(l, cost[l])
    BY <1>1, <2>2 DEF CommitWallet
  <2> QED
    BY <2>1, <2>2 DEF Validate, Commit
<1> HIDE DEF d
<1>5. /\ IsFiniteSet(Rows(debit'))
      /\ \A u : Amounts(debit', u) = Amounts(debit, u) + (IF OwnerOf[l] = u THEN d.amount ELSE 0)
  <2> HIDE DEF LedgerRow
  <2>1. IsFiniteSet(Rows(debit))
    BY DEF LedgerInv, LedgerIsFinite
  <2>2. /\ DOMAIN debit = Listing /\ DOMAIN debit' = Listing
        /\ \A k \in Listing : debit[k] \in LedgerRow \cup {NoRow}
        /\ debit'[l] = d /\ \A k \in Listing \ {l} : debit'[k] = debit[k]
    BY <1>1, <1>3
  <2> QED
    BY <1>2, <2>1, <2>2, NewLedgerRow
<1>6. LedgerIsFinite'
  BY <1>2, <1>5 DEF LedgerInv, LedgerIsFinite, Rows, Credited
<1>7. BalanceMatchesLedger'
  <2>1. Credited' = Credited
    BY <1>2 DEF Credited
  <2> SUFFICES ASSUME NEW u \in User
               PROVE  wallet'[u].balance = Payments(u, Credited) + bonuses[u] * FirstRechargeBonus
                                           - Amounts(debit', u) + Amounts(refund, u)
    BY <1>2, <2>1 DEF BalanceMatchesLedger, Payments, PaidBy, Amounts, OwnedBy, Rows
  <2>2. (IF OwnerOf[l] = u THEN d.amount ELSE 0) \in Int
    BY <1>2
  <2> QED
    BY <1>4, <1>5, <2>2, LedgerTerms
<1> QED
  BY <1>6, <1>7 DEF LedgerInv

\* refund(): the balance goes up by what the REFUND row says, or nothing is
\* written.
LEMMA RefundLedger ==
    ASSUME IInv, LedgerInv, NEW l \in Listing, TolerantRefund(l)
    PROVE  LedgerInv'
<1> DEFINE d == debit[l]
<1>1. /\ wallet \in [User -> WalletRow] /\ OwnerOf[l] \in User
      /\ debit \in [Listing -> LedgerRow \cup {NoRow}]
      /\ refund \in [Listing -> LedgerRow \cup {NoRow}]
  BY WalletAssumption DEF IInv, TypeOK, EngineTypeOK, WalletTypeOK
<1>2. CASE UNCHANGED <<wallet, debit, refund, credit, bonuses>>
  BY <1>2, QuietLedger
<1>3. CASE /\ d # NoRow /\ refund[l] = NoRow
           /\ wallet' = [wallet EXCEPT ![OwnerOf[l]] = GiveBack(@, d)]
           /\ refund' = [refund EXCEPT ![l] = d]
           /\ UNCHANGED <<debit, credit, bonuses>>
  <2>1. d \in LedgerRow /\ (d.source = "FREE_CREDIT" => d.amount = 0)
    BY <1>1, <1>3 DEF IInv, DebitIsWhatWasAuthorized, FreeCostsNothing
  <2>2. ASSUME NEW u \in User
        PROVE  wallet'[u].balance = wallet[u].balance + (IF OwnerOf[l] = u THEN d.amount ELSE 0)
    <3>1. GiveBack(wallet[u], d).balance = wallet[u].balance + d.amount
      BY <1>1, <2>1 DEF GiveBack
    <3>2. wallet'[u] = IF OwnerOf[l] = u THEN GiveBack(wallet[u], d) ELSE wallet[u]
      BY <1>1, <1>3
    <3>3. wallet[u].balance \in Int
      BY <1>1
    <3> QED
      BY <3>1, <3>2, <3>3
  <2> HIDE DEF d
  <2>3. /\ IsFiniteSet(Rows(refund'))
        /\ \A u : Amounts(refund', u) = Amounts(refund, u) + (IF OwnerOf[l] = u THEN d.amount ELSE 0)
    <3> HIDE DEF LedgerRow
    <3>1. IsFiniteSet(Rows(refund))
      BY DEF LedgerInv, LedgerIsFinite
    <3>2. /\ DOMAIN refund = Listing /\ DOMAIN refund' = Listing
          /\ \A k \in Listing : refund[k] \in LedgerRow \cup {NoRow}
          /\ refund[l] = NoRow /\ refund'[l] = d
          /\ \A k \in Listing \ {l} : refund'[k] = refund[k]
      BY <1>1, <1>3
    <3>3. d \in LedgerRow
      BY <2>1
    <3> QED
      BY <3>1, <3>2, <3>3, NewLedgerRow
  <2>4. LedgerIsFinite'
    BY <1>3, <2>3 DEF LedgerInv, LedgerIsFinite, Rows, Credited
  <2>5. BalanceMatchesLedger'
    <3>1. Credited' = Credited
      BY <1>3 DEF Credited
    <3> SUFFICES ASSUME NEW u \in User
                 PROVE  wallet'[u].balance = Payments(u, Credited) + bonuses[u] * FirstRechargeBonus
                                             - Amounts(debit, u) + Amounts(refund', u)
      BY <1>3, <3>1 DEF BalanceMatchesLedger, Payments, PaidBy, Amounts, OwnedBy, Rows
    <3>2. (IF OwnerOf[l] = u THEN d.amount ELSE 0) \in Int
      BY <2>1
    <3> QED
      BY <2>2, <2>3, <3>2, LedgerTerms
  <2> QED
    BY <2>4, <2>5 DEF LedgerInv
<1> QED
  BY <1>2, <1>3 DEF TolerantRefund, Refund, walletVars

\* recharge(): the balance goes up by the CREDIT row and the BONUS row.
LEMMA CreditLedger ==
    ASSUME IInv, LedgerInv, NEW e \in StripeEvent, NEW isFirst, RechargeWrite(e, isFirst)
    PROVE  LedgerInv'
<1> DEFINE a == AmountOf[e]
           b == IF BonusApplies(e, isFirst) THEN 1 ELSE 0
           F == FirstRechargeBonus
<1>1. /\ wallet \in [User -> WalletRow] /\ bonuses \in [User -> Nat] /\ PayerOf[e] \in User
      /\ credit \in [StripeEvent -> BOOLEAN] /\ a \in Nat /\ F \in Nat
  BY WalletAssumption DEF IInv, TypeOK, EngineTypeOK, WalletTypeOK
<1>2. ~credit[e] /\ credit' = [credit EXCEPT ![e] = TRUE] /\ UNCHANGED <<debit, refund>>
  BY DEF RechargeWrite
<1>3. /\ wallet' = [wallet EXCEPT ![PayerOf[e]].balance = @ + a + b * F,
                                  ![PayerOf[e]].lifetime = @ + a]
      /\ bonuses' = [bonuses EXCEPT ![PayerOf[e]] = @ + b]
  BY DEF RechargeWrite
<1>4. b = 0 \/ b = 1
  OBVIOUS
<1> HIDE DEF a, b, F
<1>5. Credited' = Credited \cup {e} /\ e \notin Credited /\ Credited \subseteq StripeEvent
  BY <1>1, <1>2 DEF Credited
<1>6. /\ IsFiniteSet(Credited')
      /\ \A u : Payments(u, Credited') =
                  Payments(u, Credited) + (IF PayerOf[e] = u THEN a ELSE 0)
  <2>1. IsFiniteSet(Credited)
    BY DEF LedgerInv, LedgerIsFinite
  <2> QED
    BY <1>5, <2>1, NewCredit DEF a
<1>7. LedgerIsFinite'
  BY <1>2, <1>6 DEF LedgerInv, LedgerIsFinite, Rows
<1>8. BalanceMatchesLedger'
  <2> SUFFICES ASSUME NEW u \in User
               PROVE  wallet'[u].balance = Payments(u, Credited') + bonuses'[u] * F
                                           - Amounts(debit, u) + Amounts(refund, u)
    BY <1>2 DEF BalanceMatchesLedger, Payments, PaidBy, Amounts, OwnedBy, Rows, F
  <2>1. CASE PayerOf[e] # u
    <3>1. wallet'[u] = wallet[u] /\ bonuses'[u] = bonuses[u]
      BY <1>1, <1>3, <2>1
    <3> QED
      BY <1>6, <2>1, <3>1, LedgerTerms DEF F
  <2>2. CASE PayerOf[e] = u
    <3>1. wallet'[u].balance = wallet[u].balance + a + b * F
      BY <1>1, <1>3, <2>2
    <3>2. bonuses'[u] = bonuses[u] + b
      BY <1>1, <1>3, <2>2
    <3>3. /\ bonuses[u] \in Nat /\ (bonuses[u] + b) * F = bonuses[u] * F + b * F
          /\ bonuses[u] * F \in Int /\ b * F \in Int
      <4>1. bonuses[u] \in Nat
        BY <1>1
      <4>2. CASE b = 0
        BY <1>1, <4>1, <4>2
      <4>3. CASE b = 1
        BY <1>1, <4>1, <4>3
      <4> QED
        BY <1>4, <4>1, <4>2, <4>3
    <3>4. /\ Payments(u, Credited) \in Int /\ Amounts(debit, u) \in Int
          /\ Amounts(refund, u) \in Int
          /\ wallet[u].balance = Payments(u, Credited) + bonuses[u] * F
                                 - Amounts(debit, u) + Amounts(refund, u)
      BY LedgerTerms DEF F
    <3>5. Payments(u, Credited') = Payments(u, Credited) + a
      BY <1>6, <2>2
    <3> DEFINE bF == b * F
               oF == bonuses[u] * F
    <3>6. bonuses'[u] * F = oF + bF
      BY <3>2, <3>3
    <3>7. bF \in Int /\ oF \in Int /\ wallet'[u].balance = wallet[u].balance + a + bF
      BY <3>1, <3>3
    <3>8. wallet[u].balance = Payments(u, Credited) + oF - Amounts(debit, u) + Amounts(refund, u)
      BY <3>4
    <3> HIDE DEF bF, oF
    <3> QED
      BY <1>1, <3>4, <3>5, <3>6, <3>7, <3>8
  <2> QED
    BY <2>1, <2>2
<1> QED
  BY <1>7, <1>8 DEF LedgerInv

\* Every step preserves the ledger invariant.
LEMMA NextLedger == IInv /\ LedgerInv /\ [Next]_vars => LedgerInv'
<1> SUFFICES ASSUME IInv, LedgerInv, [Next]_vars PROVE LedgerInv'
  OBVIOUS
<1>1. ASSUME UNCHANGED walletVars
      PROVE  LedgerInv'
  BY <1>1, QuietLedger DEF walletVars
<1>2. ASSUME NEW l \in Listing, RouteStep(l) \/ Publication(l)
      PROVE  LedgerInv'
  <2>1. CASE \/ StartAiProcessing(l) \/ CompleteAiDraft(l) \/ Queue(l)
             \/ MarkPublished(l) \/ Expire(l)
    BY <1>1, <2>1 DEF StartAiProcessing, CompleteAiDraft, Queue, MarkPublished, Expire
  <2>2. CASE FailAi(l) \/ Cancel(l) \/ FailPublish(l)
    BY <2>2, RefundLedger DEF FailAi, Cancel, FailPublish, TolerantRefund
  <2>3. CASE \E prix \in Prix : Validate(l, prix)
    BY <2>3, DebitLedger
  <2> QED
    BY <1>2, <2>1, <2>2, <2>3 DEF RouteStep, Publication
<1>3. ASSUME NEW r \in Request, ResetFreeTierIfDue(r)
      PROVE  LedgerInv'
  <2> DEFINE u == OwnerOf[call[r].l]
             seen == call[r].seen
  <2>1. wallet' = [wallet EXCEPT ![u] = IF ResetWins(u, seen) THEN AfterReset(@) ELSE @]
    BY <1>3 DEF ResetFreeTierIfDue, ResetWallet
  <2>2. \A w \in WalletRow : AfterReset(w).balance = w.balance
    BY DEF AfterReset
  <2>3. wallet \in [User -> WalletRow]
    BY DEF IInv, TypeOK, EngineTypeOK, WalletTypeOK
  <2> HIDE DEF u, seen, WalletRow
  <2>4. \A v \in User : wallet'[v].balance = wallet[v].balance
    BY <2>1, <2>2, <2>3
  <2> QED
    BY <1>3, <2>4, QuietLedger DEF ResetFreeTierIfDue
<1>4. ASSUME NEW r \in Request, RechargeCommit(r)
      PROVE  LedgerInv'
  <2>1. hook[r].event \in StripeEvent
    BY <1>4, HookCallType DEF RechargeCommit, HookCall, IInv
  <2> QED
    BY <1>1, <1>4, <2>1, CreditLedger DEF RechargeCommit
<1>5. ASSUME NEW r \in Request,
             \/ StartCall(r) \/ FinishCreate(r) \/ FinishReauthorize(r) \/ FinishEdit(r)
             \/ \E e \in StripeEvent : Deliver(r, e)
             \/ RechargeRead(r) \/ FindBlocked(r) \/ ReauthorizeNext(r) \/ Answer(r)
      PROVE  UNCHANGED walletVars
  BY <1>5 DEF StartCall, StartCreate, StartReauthorize, StartEdit, FinishCreate,
              FinishReauthorize, FinishEdit, Deliver, RechargeRead, FindBlocked,
              ReauthorizeNext, Answer, engineVars
<1>6. NextMonth \/ Crash \/ UNCHANGED vars => UNCHANGED walletVars
  BY DEF NextMonth, Crash, vars, engineVars
<1>7. ASSUME NEW r \in Request, CallStep(r) \/ HookStep(r)
      PROVE  LedgerInv'
  BY <1>1, <1>3, <1>4, <1>5, <1>7 DEF CallStep, HookStep
<1> HIDE DEF IInv, LedgerInv
<1> QED
  BY <1>1, <1>2, <1>5, <1>6, <1>7 DEF Next

\* Initially there are at most some free debits, of legacy rows.
LEMMA InitLedger == Init => LedgerInv
<1> SUFFICES ASSUME Init PROVE LedgerInv
  OBVIOUS
<1>1. PICK old \in SUBSET Legacy :
        debit = [l \in Listing |-> IF l \in old
                                   THEN [source |-> "FREE_CREDIT", amount |-> 0]
                                   ELSE NoRow]
  BY DEF Init, EngineInit
<1>2. /\ refund = [l \in Listing |-> NoRow] /\ credit = [e \in StripeEvent |-> FALSE]
      /\ \A u \in User : wallet[u].balance = 0 /\ bonuses[u] = 0
  BY DEF Init, EngineInit, WalletInit
<1>3. Rows(debit) = old /\ \A l \in old : debit[l].amount = 0
  BY <1>1, WalletAssumption, EngineAssumption DEF Rows
<1>4. Rows(refund) = {} /\ Credited = {}
  BY <1>2 DEF Rows, Credited
<1>5. LedgerIsFinite
  <2>1. IsFiniteSet(old)
    BY EngineAssumption, FS_Subset
  <2> QED
    BY <1>3, <1>4, <2>1, FS_EmptySet DEF LedgerIsFinite
<1>6. BalanceMatchesLedger
  <2> SUFFICES ASSUME NEW u \in User
               PROVE  wallet[u].balance = Payments(u, Credited) + bonuses[u] * FirstRechargeBonus
                                          - Amounts(debit, u) + Amounts(refund, u)
    BY DEF BalanceMatchesLedger
  <2>1. Amounts(debit, u) = 0
    <3> DEFINE S == OwnedBy(u, old)
               g == [l \in Rows(debit) |-> debit[l].amount]
    <3>1. S \subseteq old
      BY DEF OwnedBy
    <3>2. \A l \in S : g[l] = 0
      BY <1>3, <3>1
    <3>3. Amounts(debit, u) = SumOf(g, S)
      BY <1>3 DEF Amounts
    <3> HIDE DEF S, g
    <3>4. IsFiniteSet(S)
      BY <1>3, <1>5, <3>1, FS_Subset DEF LedgerIsFinite
    <3> QED
      BY <3>2, <3>3, <3>4, SumOfZeros
  <2>2. Amounts(refund, u) = 0
    <3>1. OwnedBy(u, Rows(refund)) = {}
      BY <1>4 DEF OwnedBy
    <3> QED
      BY <3>1, SumOfNothing DEF Amounts
  <2>3. Payments(u, Credited) = 0
    <3>1. PaidBy(u, Credited) = {}
      BY <1>4 DEF PaidBy
    <3> QED
      BY <3>1, SumOfNothing DEF Payments
  <2>4. 0 * FirstRechargeBonus = 0
    BY WalletAssumption
  <2> QED
    BY <1>2, <2>1, <2>2, <2>3, <2>4
<1> QED
  BY <1>5, <1>6 DEF LedgerInv

\* The balance of every wallet is explained by its ledger to the unit,
\* whatever is interleaved, redelivered or crashes, for any number of users,
\* listings and payments (wallet.service.ts: every movement of money writes
\* the wallet and the ledger in one transaction).
THEOREM LedgerExplainsBalance == Spec => []BalanceMatchesLedger
<1>1. LedgerInv => BalanceMatchesLedger
  BY DEF LedgerInv
<1> QED
  BY <1>1, InitLedger, NextLedger, Invariance, PTL DEF Spec
=============================================================================
