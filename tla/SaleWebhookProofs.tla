-------------------------- MODULE SaleWebhookProofs --------------------------
(***************************************************************************)
(* Proofs about SaleWebhook for any number of listings, marketplaces,      *)
(* publications, deliveries and restarts.  SaleInv is inductive.  The      *)
(* engine only matters by the status and the price it leaves; everything   *)
(* else is about annonces that never go back (Grows), and about the        *)
(* publications and deliveries that hold some of them.                     *)
(***************************************************************************)
EXTENDS SaleWebhook, SequenceTheorems, TLAPS

USE DEF WalletRow, LedgerRow, PaymentSource

-----------------------------------------------------------------------------
(* The engine: types, and the listings that are shown as published.         *)

\* A step of the engine publishes nothing, and leaves the price of what can be
\* published set.
EngineStep ==
    /\ EngineTypeOK' /\ PriceIsSet'
    /\ \A k \in Listing : status'[k] \in {"PUBLISHED", "EXPIRED"} =>
                             status[k] \in {"PUBLISHED", "EXPIRED"}

\* move() is a transition of the table.
LEMMA MoveIsATransition ==
    ASSUME NEW from, NEW to, CanTransition(from, to)
    PROVE  <<from, to>> \in
             {<<"PENDING_AUTH", "AUTHORIZED">>, <<"PENDING_AUTH", "USER_CANCELLED">>,
              <<"AUTHORIZED", "AI_PROCESSING">>, <<"AUTHORIZED", "USER_CANCELLED">>,
              <<"AI_PROCESSING", "DRAFT_READY">>, <<"AI_PROCESSING", "AI_FAILED">>,
              <<"AI_PROCESSING", "USER_CANCELLED">>, <<"DRAFT_READY", "USER_VALIDATED">>,
              <<"DRAFT_READY", "USER_CANCELLED">>, <<"USER_VALIDATED", "QUEUED">>,
              <<"QUEUED", "PUBLISHED">>, <<"QUEUED", "PUBLISH_FAILED">>,
              <<"QUEUED", "USER_CANCELLED">>, <<"PUBLISHED", "EXPIRED">>}
  BY DEF CanTransition, Targets

\* The moves that touch no money.
LEMMA PlainMoves ==
    ASSUME EngineTypeOK, PriceIsSet, NEW l \in Listing,
           \/ StartAiProcessing(l) \/ CompleteAiDraft(l) \/ Queue(l)
           \/ MarkPublished(l) \/ Expire(l)
    PROVE  EngineTypeOK' /\ PriceIsSet'
<1>1. PICK to \in {"AI_PROCESSING", "DRAFT_READY", "QUEUED", "PUBLISHED", "EXPIRED"} :
        /\ CanTransition(status[l], to)
        /\ status' = [status EXCEPT ![l] = to]
  BY DEF StartAiProcessing, CompleteAiDraft, Queue, MarkPublished, Expire, Move
<1>2. UNCHANGED <<walletVars, month, tier, source, cost, prixPublie, isPriceFlagged, call>>
  BY DEF StartAiProcessing, CompleteAiDraft, Queue, MarkPublished, Expire
<1>3. EngineTypeOK'
  BY <1>1, <1>2 DEF EngineTypeOK, WalletTypeOK, ListingStatus, walletVars
<1>4. to = "QUEUED" => status[l] = "USER_VALIDATED"
  BY <1>1, MoveIsATransition
<1>5. PriceIsSet'
  BY <1>1, <1>2, <1>4 DEF EngineTypeOK, PriceIsSet, Editable
<1> QED
  BY <1>3, <1>5

\* Of these, only MarkPublished makes a listing PUBLISHED.
LEMMA PlainMovesPublishNothing ==
    ASSUME EngineTypeOK, NEW l \in Listing,
           StartAiProcessing(l) \/ CompleteAiDraft(l) \/ Queue(l) \/ Expire(l)
    PROVE  \A k \in Listing : status'[k] \in {"PUBLISHED", "EXPIRED"} =>
                                 status[k] \in {"PUBLISHED", "EXPIRED"}
<1>1. PICK to \in {"AI_PROCESSING", "DRAFT_READY", "QUEUED", "EXPIRED"} :
        /\ CanTransition(status[l], to)
        /\ status' = [status EXCEPT ![l] = to]
  BY DEF StartAiProcessing, CompleteAiDraft, Queue, Expire, Move
<1>2. to = "EXPIRED" => status[l] = "PUBLISHED"
  BY <1>1, MoveIsATransition
<1> QED
  BY <1>1, <1>2 DEF EngineTypeOK

\* The moves that give the money back.
LEMMA RefundMoves ==
    ASSUME EngineTypeOK, PriceIsSet, NEW l \in Listing,
           FailAi(l) \/ Cancel(l) \/ FailPublish(l)
    PROVE  EngineStep
<1>1. PICK to \in {"AI_FAILED", "USER_CANCELLED", "PUBLISH_FAILED"} :
        /\ status' = [status EXCEPT ![l] = to]
        /\ TolerantRefund(l)
  BY DEF FailAi, Cancel, FailPublish, Move, TolerantRefund
<1>2. UNCHANGED <<month, tier, source, cost, prixPublie, isPriceFlagged, call>>
  BY DEF FailAi, Cancel, FailPublish
<1>3. UNCHANGED <<debit, credit, bonuses>>
  BY <1>1 DEF TolerantRefund, Refund, walletVars
<1>4. \/ UNCHANGED <<wallet, refund>>
      \/ /\ debit[l] # NoRow
         /\ wallet' = [wallet EXCEPT ![OwnerOf[l]] = GiveBack(@, debit[l])]
         /\ refund' = [refund EXCEPT ![l] = debit[l]]
  BY <1>1 DEF TolerantRefund, Refund, walletVars
<1>5. wallet' \in [User -> WalletRow]
  <2>1. debit[l] # NoRow => \A w \in WalletRow : GiveBack(w, debit[l]) \in WalletRow
    BY DEF EngineTypeOK, WalletTypeOK, GiveBack
  <2>2. wallet \in [User -> WalletRow] /\ OwnerOf[l] \in User
    BY WalletAssumption DEF EngineTypeOK, WalletTypeOK
  <2>3. debit[l] # NoRow => GiveBack(wallet[OwnerOf[l]], debit[l]) \in WalletRow
    BY <2>1, <2>2
  <2> HIDE DEF WalletRow
  <2> QED
    BY <1>4, <2>2, <2>3
<1>6. refund' \in [Listing -> LedgerRow \cup {NoRow}]
  BY <1>4 DEF EngineTypeOK, WalletTypeOK
<1>7. EngineTypeOK'
  BY <1>1, <1>2, <1>3, <1>5, <1>6 DEF EngineTypeOK, WalletTypeOK, ListingStatus
<1> QED
  BY <1>1, <1>2, <1>7 DEF EngineStep, EngineTypeOK, PriceIsSet, Editable

\* validate(): the price, the debit, QUEUED.
LEMMA ValidateMove ==
    ASSUME EngineTypeOK, PriceIsSet, NEW l \in Listing, NEW prix \in Prix, Validate(l, prix)
    PROVE  EngineStep
<1>1. /\ status' = [status EXCEPT ![l] = "QUEUED"]
      /\ prixPublie' = [prixPublie EXCEPT ![l] = prix]
      /\ isPriceFlagged' = [isPriceFlagged EXCEPT ![l] = PriceFlagged(prix)]
      /\ Commit(l, source[l], cost[l])
      /\ UNCHANGED <<month, tier, source, cost, call>>
  BY DEF Validate
<1>2. wallet' \in [User -> WalletRow] /\ debit' \in [Listing -> LedgerRow \cup {NoRow}]
  <2>1. /\ wallet \in [User -> WalletRow] /\ OwnerOf[l] \in User /\ cost[l] \in Nat
        /\ debit \in [Listing -> LedgerRow \cup {NoRow}]
    BY WalletAssumption DEF EngineTypeOK, WalletTypeOK
  <2>2. wallet[OwnerOf[l]].free > 0 =>
          [wallet[OwnerOf[l]] EXCEPT !.free = @ - 1] \in WalletRow
    BY <2>1
  <2>3. wallet[OwnerOf[l]].balance >= cost[l] =>
          [wallet[OwnerOf[l]] EXCEPT !.balance = @ - cost[l]] \in WalletRow
    BY <2>1
  <2>4. CASE CommitFree(l)
    BY <2>1, <2>2, <2>4 DEF CommitFree
  <2>5. CASE CommitWallet(l, cost[l])
    BY <2>1, <2>3, <2>5 DEF CommitWallet
  <2> QED
    BY <1>1, <2>4, <2>5 DEF Commit
<1>3. UNCHANGED <<refund, credit, bonuses>>
  BY <1>1 DEF Commit
<1>4. PriceFlagged(prix) \in BOOLEAN
  BY DEF PriceFlagged
<1>5. EngineTypeOK'
  BY <1>1, <1>2, <1>3, <1>4 DEF EngineTypeOK, WalletTypeOK, ListingStatus
<1>6. prix # NoPrix
  BY EngineAssumption
<1> QED
  BY <1>1, <1>5, <1>6 DEF EngineStep, EngineTypeOK, PriceIsSet, Editable

\* A request starts: it holds its record, no row has changed.
LEMMA RequestStarts ==
    ASSUME EngineTypeOK, PriceIsSet, NEW r \in Request, StartCall(r)
    PROVE  EngineStep
<1>1. PICK l \in Listing : \/ \E t \in Tier : StartCreate(r, l, t)
                           \/ StartReauthorize(r, l)
                           \/ \E patch \in Prix \cup {NoPrix} : StartEdit(r, l, patch)
  BY DEF StartCall
<1>2. UNCHANGED <<walletVars, month, rowVars>>
  BY <1>1 DEF StartCreate, StartReauthorize, StartEdit
<1>3. \E c \in AuthCall \cup EditCall : call' = [call EXCEPT ![r] = c]
  <2>1. wallet[OwnerOf[l]] \in WalletRow /\ tier[l] \in Tier
    BY WalletAssumption DEF EngineTypeOK, WalletTypeOK
  <2>2. CASE \E t \in Tier : StartCreate(r, l, t)
    <3>1. PICK t \in Tier : StartCreate(r, l, t)
      BY <2>2
    <3> DEFINE c == [op |-> "create", step |-> "reset", l |-> l, tier |-> t,
                     seen |-> wallet[OwnerOf[l]]]
    <3>2. c \in AuthCall
      BY <2>1 DEF AuthCall
    <3>3. call' = [call EXCEPT ![r] = c]
      BY <3>1 DEF StartCreate
    <3> QED
      BY <3>2, <3>3
  <2>3. CASE StartReauthorize(r, l)
    <3> DEFINE c == [op |-> "reauthorize", step |-> "reset", l |-> l, tier |-> tier[l],
                     seen |-> wallet[OwnerOf[l]]]
    <3>1. c \in AuthCall
      BY <2>1 DEF AuthCall
    <3>2. call' = [call EXCEPT ![r] = c]
      BY <2>3 DEF StartReauthorize
    <3> QED
      BY <3>1, <3>2
  <2>4. CASE \E patch \in Prix \cup {NoPrix} : StartEdit(r, l, patch)
    <3>1. PICK patch \in Prix \cup {NoPrix} : StartEdit(r, l, patch)
      BY <2>4
    <3> DEFINE prix == IF patch = NoPrix THEN prixPublie[l] ELSE patch
               flag == IF prix # NoPrix THEN PriceFlagged(prix) ELSE isPriceFlagged[l]
               c == [op |-> "edit", l |-> l, prix |-> patch, flag |-> flag]
    <3>2. flag \in BOOLEAN
      <4>1. PriceFlagged(prix) \in BOOLEAN
        BY DEF PriceFlagged
      <4>2. isPriceFlagged[l] \in BOOLEAN
        BY DEF EngineTypeOK
      <4> QED
        BY <4>1, <4>2
    <3>3. c \in EditCall
      BY <3>2 DEF EditCall
    <3>4. call' = [call EXCEPT ![r] = c]
      BY <3>1 DEF StartEdit
    <3> QED
      BY <3>3, <3>4
  <2> QED
    BY <1>1, <2>2, <2>3, <2>4
<1>4. EngineTypeOK'
  BY <1>2, <1>3 DEF EngineTypeOK, WalletTypeOK, walletVars, rowVars
<1> QED
  BY <1>2, <1>4 DEF EngineStep, PriceIsSet, rowVars

\* A request that runs authorize() holds a record of authorize().
LEMMA AuthCallType ==
    ASSUME EngineTypeOK, NEW r \in Request, NEW step, Authorizing(r, step)
    PROVE  call[r] \in AuthCall
  BY NoCallAssumption DEF EngineTypeOK, Authorizing, AuthCall, EditCall

\* The monthly reset, and the two writes that end authorize().
LEMMA RequestAuthorizes ==
    ASSUME EngineTypeOK, PriceIsSet, NEW r \in Request,
           ResetFreeTierIfDue(r) \/ FinishCreate(r) \/ FinishReauthorize(r)
    PROVE  EngineStep
<1> DEFINE c == call[r]
           u == OwnerOf[call[r].l]
           d == Decision(r)
<1>1. c \in AuthCall
  BY AuthCallType DEF ResetFreeTierIfDue, FinishCreate, FinishReauthorize
<1>2. /\ c.l \in Listing /\ u \in User /\ c.seen \in WalletRow /\ wallet[u] \in WalletRow
      /\ c.tier \in Tier
  BY <1>1, WalletAssumption DEF AuthCall, EngineTypeOK, WalletTypeOK
<1>3. d.source \in PaymentSource /\ d.cost \in Nat
  <2>1. c.seen \in WalletRow /\ Price[c.tier] \in Nat
    BY <1>2, EngineAssumption
  <2> QED
    BY <2>1 DEF Decision, AuthDecision
<1>4. CASE ResetFreeTierIfDue(r)
  <2>1. \A w \in WalletRow : AfterReset(w) \in WalletRow
    <3>1. FreeMonthly \in Nat /\ month + 1 \in Nat
      BY WalletAssumption DEF EngineTypeOK, WalletTypeOK
    <3> QED
      BY <3>1 DEF AfterReset
  <2>2. ResetResult(u, c.seen) \in WalletRow
    BY <1>2, <2>1 DEF ResetResult
  <2>3. wallet' \in [User -> WalletRow]
    <3> HIDE DEF WalletRow
    <3>1. wallet' = [wallet EXCEPT ![u] = IF ResetWins(u, c.seen) THEN AfterReset(@) ELSE @]
      BY <1>4 DEF ResetFreeTierIfDue, ResetWallet
    <3> QED
      BY <1>2, <2>1, <3>1 DEF EngineTypeOK, WalletTypeOK
  <2>4. [c EXCEPT !.step = "write", !.seen = ResetResult(u, c.seen)] \in AuthCall
    BY <1>1, <2>2 DEF AuthCall
  <2>5. call' = [call EXCEPT ![r] =
                   [c EXCEPT !.step = "write", !.seen = ResetResult(u, c.seen)]]
    BY <1>4 DEF ResetFreeTierIfDue, EngineTypeOK
  <2>6. UNCHANGED <<debit, refund, credit, bonuses, month, rowVars>>
    BY <1>4 DEF ResetFreeTierIfDue
  <2>7. EngineTypeOK'
    BY <2>3, <2>4, <2>5, <2>6 DEF EngineTypeOK, WalletTypeOK, rowVars
  <2> QED
    BY <2>6, <2>7 DEF EngineStep, PriceIsSet, rowVars
<1>5. CASE FinishCreate(r) \/ FinishReauthorize(r)
  <2>1. /\ \/ UNCHANGED <<status, tier, source, cost>>
           \/ /\ \E s \in {"PENDING_AUTH", "AUTHORIZED"} :
                    status' = [status EXCEPT ![c.l] = s]
              /\ \/ UNCHANGED tier
                 \/ tier' = [tier EXCEPT ![c.l] = c.tier]
              /\ source' = [source EXCEPT ![c.l] = d.source]
              /\ cost' = [cost EXCEPT ![c.l] = d.cost]
        /\ call' = [call EXCEPT ![r] = NoCall]
        /\ UNCHANGED <<walletVars, month, prixPublie, isPriceFlagged>>
    BY <1>5 DEF FinishCreate, FinishReauthorize, Move, Reply
  <2> HIDE DEF c, d
  <2>2. status' \in [Listing -> ListingStatus \cup {"NO_ROW"}]
    BY <1>2, <2>1 DEF EngineTypeOK, ListingStatus
  <2>3. tier' \in [Listing -> Tier]
    BY <1>2, <2>1 DEF EngineTypeOK
  <2>4. source' \in [Listing -> PaymentSource] /\ cost' \in [Listing -> Nat]
    BY <1>2, <1>3, <2>1 DEF EngineTypeOK
  <2>5. call' \in [Request -> AuthCall \cup EditCall \cup {NoCall}]
    BY <2>1 DEF EngineTypeOK
  <2>6. EngineTypeOK'
    <3>1. UNCHANGED <<walletVars, month, prixPublie, isPriceFlagged>>
      BY <2>1
    <3> QED
      BY <2>2, <2>3, <2>4, <2>5, <3>1 DEF EngineTypeOK, WalletTypeOK, walletVars
  <2> QED
    BY <1>2, <2>1, <2>6 DEF EngineStep, EngineTypeOK, PriceIsSet, Editable
<1> QED
  BY <1>4, <1>5

\* editContent() writes a price, or leaves the one that is set.
LEMMA RequestEdits ==
    ASSUME EngineTypeOK, PriceIsSet, NEW r \in Request, FinishEdit(r)
    PROVE  EngineStep
<1>1. call[r] \in EditCall
  BY NoCallAssumption DEF FinishEdit, EngineTypeOK, AuthCall, EditCall
<1>2. /\ call[r].l \in Listing /\ call[r].prix \in Prix \cup {NoPrix}
      /\ call[r].flag \in BOOLEAN
  BY <1>1 DEF EditCall
<1>3. UNCHANGED <<walletVars, month, status, tier, source, cost>>
  BY DEF FinishEdit
<1>4. EngineTypeOK'
  BY <1>2, <1>3 DEF FinishEdit, Reply, EngineTypeOK, WalletTypeOK, walletVars
<1>5. PriceIsSet'
  BY <1>2, <1>3, EngineAssumption DEF FinishEdit, EngineTypeOK, PriceIsSet
<1> QED
  BY <1>3, <1>4, <1>5 DEF EngineStep

\* Every operation that a route of the engine starts or goes on with.
LEMMA EngineSteps ==
    ASSUME EngineTypeOK, PriceIsSet,
           \/ \E l \in Listing : RouteStep(l)
           \/ \E r \in Request : StartCall(r) \/ CallStep(r)
    PROVE  EngineStep
  BY PlainMoves, PlainMovesPublishNothing, RefundMoves, ValidateMove, RequestStarts,
     RequestAuthorizes, RequestEdits DEF RouteStep, CallStep, EngineStep

-----------------------------------------------------------------------------
(* The annonces never go back.                                              *)

Grows ==
    /\ DOMAIN annonce \subseteq DOMAIN annonce'
    /\ \A a \in DOMAIN annonce :
        /\ annonce'[a].l = annonce[a].l /\ annonce'[a].m = annonce[a].m
        /\ annonce[a].state # "offer" => annonce'[a].state # "offer"
        /\ annonce[a].state \in {"sold", "down"} => annonce'[a].state = annonce[a].state
        /\ annonce[a].calls = Calls[Api[annonce[a].m]] => annonce'[a].calls = annonce[a].calls

\* What another publication has half made stays as it is.
Untouched(a) ==
    /\ annonce'[a].calls = annonce[a].calls
    /\ annonce[a].state = "offer" => annonce'[a].state = "offer"

RowsLast == \A l \in Listing, m \in Market : pub[l][m] # NoPub => pub'[l][m] # NoPub

AnnoncesOK == annonce \in Seq(Remote) /\ Len(annonce) <= MaxAnnonces

\* An annonce has the fields of a marketplace's record.
LEMMA AnnonceType ==
    ASSUME AnnoncesOK, NEW a \in DOMAIN annonce
    PROVE  annonce[a] \in Remote /\ a \in Annonce /\ a # NoAnnonce
  BY ConnectorAssumption DEF AnnoncesOK, Annonce, NoAnnonce

\* A marketplace takes one more annonce.
LEMMA CreateAdds ==
    ASSUME AnnoncesOK, NEW l \in Listing, NEW m \in Market, NEW prix \in Prix,
           NEW state \in {"offer", "live"}, Create(l, m, prix, state)
    PROVE  /\ AnnoncesOK' /\ Grows
           /\ Len(annonce') \in Annonce /\ Len(annonce') \notin DOMAIN annonce
           /\ Len(annonce') \in DOMAIN annonce' /\ Len(annonce') # NoAnnonce
           /\ \A a \in DOMAIN annonce : Untouched(a)
           /\ annonce'[Len(annonce')] = [l |-> l, m |-> m, prix |-> prix, calls |-> 1,
                                         state |-> state]
<1> DEFINE new == [l |-> l, m |-> m, prix |-> prix, calls |-> 1, state |-> state]
<1>1. new \in Remote
  BY DEF Remote
<1>2. Len(annonce) < MaxAnnonces /\ annonce' = Append(annonce, new)
  BY DEF Create
<1> HIDE DEF new
<1>3. /\ annonce' \in Seq(Remote) /\ Len(annonce') = Len(annonce) + 1
      /\ \A i \in 1 .. Len(annonce) : annonce'[i] = annonce[i]
      /\ annonce'[Len(annonce) + 1] = new
  BY <1>1, <1>2, AppendProperties DEF AnnoncesOK
<1>4. Len(annonce) \in Nat /\ DOMAIN annonce = 1 .. Len(annonce)
      /\ DOMAIN annonce' = 1 .. Len(annonce')
  BY <1>3 DEF AnnoncesOK
<1>5. AnnoncesOK'
  BY <1>2, <1>3, <1>4, ConnectorAssumption DEF AnnoncesOK
<1>6. \A a \in DOMAIN annonce : annonce'[a] = annonce[a] /\ a \in DOMAIN annonce'
  BY <1>3, <1>4
<1>7. Grows /\ \A a \in DOMAIN annonce : Untouched(a)
  BY <1>6 DEF Grows, Untouched
<1> QED
  BY <1>2, <1>3, <1>4, <1>5, <1>7, ConnectorAssumption DEF new, Annonce, NoAnnonce

\* One annonce is changed, and stays an annonce.
LEMMA OneChanges ==
    ASSUME AnnoncesOK, NEW id \in DOMAIN annonce, NEW e \in Remote,
           annonce' = [annonce EXCEPT ![id] = e]
    PROVE  /\ AnnoncesOK' /\ DOMAIN annonce' = DOMAIN annonce
           /\ annonce'[id] = e
           /\ \A a \in DOMAIN annonce \ {id} : annonce'[a] = annonce[a]
<1>1. id \in 1 .. Len(annonce)
  BY DEF AnnoncesOK
<1>2. annonce' \in Seq(Remote) /\ Len(annonce') = Len(annonce)
  BY <1>1, ExceptSeq DEF AnnoncesOK
<1> QED
  BY <1>1, <1>2 DEF AnnoncesOK

\* What is complete stays complete.
LEMMA CompleteLasts ==
    ASSUME Grows, NEW id, NEW l, NEW m, NamesComplete(id, l, m)
    PROVE  NamesComplete(id, l, m)'
  BY DEF Grows, NamesComplete, Names

\* What is half made stays so when nobody touches it.
LEMMA HalfMadeLasts ==
    ASSUME Grows, NEW id, NEW l, NEW m, NamesHalfMade(id, l, m), Untouched(id)
    PROVE  NamesHalfMade(id, l, m)'
  BY DEF Grows, NamesHalfMade, Names, Untouched

\* What was sold stays sold.
LEMMA SoldLasts ==
    ASSUME Grows, NEW ids, AllSold(ids)
    PROVE  AllSold(ids)'
  BY DEF Grows, AllSold

\* The past of a listing on a marketplace is never undone.
LEMMA PastLasts ==
    ASSUME Grows, NEW l, NEW m
    PROVE  /\ "sold" \in Past(l, m) => "sold" \in Past(l, m)'
           /\ Past(l, m) \cap {"sold", "down"} # {} => Past(l, m)' \cap {"sold", "down"} # {}
<1>1. ASSUME NEW s \in {"sold", "down"}, s \in Past(l, m)
      PROVE  s \in Past(l, m)'
  <2>1. PICK a \in DOMAIN annonce :
          annonce[a].l = l /\ annonce[a].m = m /\ annonce[a].state = s
    BY <1>1 DEF Past
  <2>2. a \in DOMAIN annonce' /\ annonce'[a].l = l /\ annonce'[a].m = m
        /\ annonce'[a].state = s
    BY <2>1 DEF Grows
  <2> QED
    BY <2>2 DEF Past
<1> QED
  BY <1>1

\* A state of an annonce is in the past of its listing.
LEMMA InPast ==
    ASSUME NEW id, NEW l, NEW m, Names(id, l, m)
    PROVE  annonce[id].state \in Past(l, m)
  BY DEF Names, Past

\* A delivery stays honest.
LEMMA SaleLasts ==
    ASSUME Grows, RowsLast, NEW s \in SaleCall, SaleIsHonest(s)
    PROVE  SaleIsHonest(s)'
<1>1. s.l \in Listing /\ s.m \in Market /\ s.seen \in [Market -> Annonce \cup {NoAnnonce}]
  BY DEF SaleCall
<1>2. AllSold(s.ids)'
  BY SoldLasts DEF SaleIsHonest
<1>3. s.step # "find" => pub'[s.l][s.m] # NoPub /\ "sold" \in Past(s.l, s.m)'
  BY <1>1, PastLasts DEF SaleIsHonest, RowsLast
<1>4. ASSUME NEW m \in Market, s.seen[m] # NoAnnonce
      PROVE  NamesComplete(s.seen[m], s.l, m)' /\ pub'[s.l][m] # NoPub
  BY <1>1, <1>4, CompleteLasts DEF SaleIsHonest, RowsLast
<1>5. ASSUME NEW m \in Market, m \in s.ok
      PROVE  annonce'[s.seen[m]].state \in {"sold", "down"}
  BY <1>5 DEF SaleIsHonest, NamesComplete, Names, Grows
<1> QED
  BY <1>2, <1>3, <1>4, <1>5 DEF SaleIsHonest

\* A publication stays honest when nobody touches what it has got.
LEMMA JobLasts ==
    ASSUME Grows, RowsLast, NEW j \in Job, JobIsHonest(j),
           \A m \in Market : j.got[m] # NoAnnonce => Untouched(j.got[m])
    PROVE  JobIsHonest(j)'
<1>1. ASSUME NEW m \in Market, j.got[m] # NoAnnonce
      PROVE  IF j.step = "call" /\ m \in j.todo THEN NamesHalfMade(j.got[m], j.l, m)'
                                                ELSE NamesComplete(j.got[m], j.l, m)'
  BY <1>1, CompleteLasts, HalfMadeLasts DEF JobIsHonest
<1>2. j.step \in {"save", "mark"} =>
        \A m \in Successes(j) \ j.todo : pub'[j.l][m] # NoPub
  BY DEF JobIsHonest, RowsLast, Job, Successes
<1> QED
  BY <1>1, <1>2 DEF JobIsHonest, Successes

-----------------------------------------------------------------------------
(* What a step leaves alone.                                                *)

\* What is held stays honest as long as the annonces grow and the rows last.
LEMMA HeldStaysHonest ==
    ASSUME SaleInv, Grows, RowsLast
    PROVE  /\ UNCHANGED pub => RowsAreComplete' /\ RowsTellTheTruth'
           /\ UNCHANGED orders => OrdersAreSold'
           /\ UNCHANGED sale => SalesAreHonest'
<1>1. ASSUME UNCHANGED pub
      PROVE  RowsAreComplete'
  BY <1>1, CompleteLasts DEF SaleInv, RowsAreComplete
<1>2. ASSUME UNCHANGED pub
      PROVE  RowsTellTheTruth'
  BY <1>2, PastLasts DEF SaleInv, RowsTellTheTruth
<1>3. ASSUME UNCHANGED orders
      PROVE  OrdersAreSold'
  BY <1>3, SoldLasts DEF SaleInv, OrdersAreSold
<1>4. ASSUME UNCHANGED sale
      PROVE  SalesAreHonest'
  BY <1>4, SaleLasts DEF SaleInv, SalesAreHonest, TypeOK
<1> QED
  BY <1>1, <1>2, <1>3, <1>4

\* One publication takes a step, and touches nothing another one holds.
LEMMA OneJob ==
    ASSUME SaleInv, Grows, RowsLast, NEW p \in Publisher, NEW j \in Job \cup {NoJob},
           job' = [job EXCEPT ![p] = j],
           j # NoJob => JobIsHonest(j)',
           \A q \in Publisher \ {p}, m \in Market :
              job[q] # NoJob /\ job[q].got[m] # NoAnnonce =>
                 /\ Untouched(job[q].got[m])
                 /\ j # NoJob => j.got[m] # job[q].got[m]
    PROVE  JobsAreHonest' /\ JobsShareNothing'
<1>1. job \in [Publisher -> Job \cup {NoJob}]
  BY DEF SaleInv, TypeOK, PublicationTypeOK
<1>2. job'[p] = j /\ \A q \in Publisher \ {p} : job'[q] = job[q]
  BY <1>1
<1>3. ASSUME NEW q \in Publisher \ {p}, job[q] # NoJob
      PROVE  JobIsHonest(job[q])'
  <2>1. job[q] \in Job /\ JobIsHonest(job[q])
    BY <1>1, <1>3 DEF SaleInv, JobsAreHonest
  <2>2. \A m \in Market : job[q].got[m] # NoAnnonce => Untouched(job[q].got[m])
    BY <1>3
  <2>3. PICK k \in Job : k = job[q]
    BY <2>1
  <2>4. JobIsHonest(k)'
    BY <2>1, <2>2, <2>3, JobLasts
  <2>5. job'[q] = k
    BY <1>2, <2>3
  <2> QED
    BY <2>4, <2>5
<1>4. JobsAreHonest'
  <2> SUFFICES ASSUME NEW q \in Publisher, job'[q] # NoJob
               PROVE  JobIsHonest(job[q])'
    BY DEF JobsAreHonest
  <2>1. CASE q = p
    BY <1>2, <2>1
  <2>2. CASE q # p
    BY <1>2, <1>3, <2>2
  <2> QED
    BY <2>1, <2>2
<1>5. JobsShareNothing'
  BY <1>2 DEF SaleInv, JobsShareNothing
<1> QED
  BY <1>4, <1>5

\* The same when no publication takes a step.
LEMMA NoJobMoves ==
    ASSUME SaleInv, Grows, RowsLast, UNCHANGED job,
           \A a \in DOMAIN annonce : Untouched(a)
    PROVE  JobsAreHonest' /\ JobsShareNothing'
<1>1. ASSUME NEW q \in Publisher, job[q] # NoJob
      PROVE  JobIsHonest(job[q])'
  <2>1. PICK k \in Job : k = job[q]
    BY <1>1 DEF SaleInv, TypeOK, PublicationTypeOK
  <2>2. JobIsHonest(k)
    BY <1>1, <2>1 DEF SaleInv, JobsAreHonest
  <2>3. \A m \in Market : k.got[m] # NoAnnonce => k.got[m] \in DOMAIN annonce
    BY <2>2 DEF JobIsHonest, NamesHalfMade, NamesComplete, Names
  <2>4. JobIsHonest(k)'
    BY <2>2, <2>3, JobLasts
  <2> QED
    BY <2>1, <2>4
<1> QED
  BY <1>1 DEF SaleInv, JobsAreHonest, JobsShareNothing

\* Annonces that nothing changes have grown.
LEMMA StillAnnonces ==
    ASSUME UNCHANGED annonce
    PROVE  Grows /\ \A a \in DOMAIN annonce : Untouched(a)
  BY DEF Grows, Untouched

\* A step of the engine alone.
LEMMA EngineKeeps ==
    ASSUME SaleInv, EngineStep, UNCHANGED <<publicationVars, saleVars>>
    PROVE  SaleInv'
<1> USE DEF publicationVars, saleVars
<1>1. Grows /\ RowsLast /\ \A a \in DOMAIN annonce : Untouched(a)
  BY StillAnnonces DEF RowsLast
<1>2. TypeOK' /\ PriceIsSet'
  BY DEF SaleInv, EngineStep, TypeOK, PublicationTypeOK
<1>3. ListedSomewhere'
  BY DEF SaleInv, EngineStep, ListedSomewhere
<1> QED
  BY <1>1, <1>2, <1>3, HeldStaysHonest, NoJobMoves DEF SaleInv

-----------------------------------------------------------------------------
(* The steps of a publication.                                              *)

\* A publication that is at some step holds its record.
LEMMA JobType ==
    ASSUME SaleInv, NEW p \in Publisher, NEW step, PublishingAt(p, step)
    PROVE  job[p] \in Job /\ job[p].step = step /\ job[p] # NoJob /\ JobIsHonest(job[p])
  BY DEF SaleInv, TypeOK, PublicationTypeOK, PublishingAt, JobsAreHonest

\* The engine does nothing, and rows last.
LEMMA EngineStill ==
    ASSUME SaleInv, UNCHANGED engineVars, RowsLast
    PROVE  EngineTypeOK' /\ PriceIsSet' /\ ListedSomewhere'
<1> USE DEF engineVars, walletVars, rowVars
<1>1. EngineTypeOK'
  BY DEF SaleInv, TypeOK, EngineTypeOK, WalletTypeOK
<1>2. PriceIsSet'
  BY DEF SaleInv, PriceIsSet
<1>3. ListedSomewhere'
  BY DEF SaleInv, ListedSomewhere, RowsLast
<1> QED
  BY <1>1, <1>2, <1>3

\* A step that only moves a publication on, and perhaps adds to the annonces.
LEMMA JobStep ==
    ASSUME SaleInv, NEW p \in Publisher, NEW j \in Job,
           job' = [job EXCEPT ![p] = j],
           UNCHANGED <<engineVars, pub, saleVars>>, AnnoncesOK', Grows,
           JobIsHonest(j)',
           \A q \in Publisher \ {p}, m \in Market :
              job[q] # NoJob /\ job[q].got[m] # NoAnnonce =>
                 Untouched(job[q].got[m]) /\ j.got[m] # job[q].got[m]
    PROVE  SaleInv'
<1>1. RowsLast
  BY DEF RowsLast
<1>2. JobsAreHonest' /\ JobsShareNothing'
  <2>1. PICK k \in Job \cup {NoJob} : k = j
    OBVIOUS
  <2>2. job' = [job EXCEPT ![p] = k] /\ (k # NoJob => JobIsHonest(k)')
    BY <2>1
  <2>3. \A q \in Publisher \ {p}, m \in Market :
           job[q] # NoJob /\ job[q].got[m] # NoAnnonce =>
              /\ Untouched(job[q].got[m])
              /\ k # NoJob => k.got[m] # job[q].got[m]
    BY <2>1
  <2> QED
    BY <1>1, <2>2, <2>3, OneJob
<1>3. EngineTypeOK' /\ PriceIsSet' /\ ListedSomewhere'
  BY <1>1, EngineStill
<1>4. TypeOK'
  BY <1>3 DEF SaleInv, TypeOK, PublicationTypeOK, AnnoncesOK, saleVars
<1> QED
  BY <1>1, <1>2, <1>3, <1>4, HeldStaysHonest DEF SaleInv, saleVars

\* The same when the publication gets nothing new, and no annonce changes.
LEMMA QuietJobStep ==
    ASSUME SaleInv, NEW p \in Publisher, NEW j \in Job,
           job' = [job EXCEPT ![p] = j],
           UNCHANGED <<engineVars, annonce, pub, saleVars>>,
           JobIsHonest(j),
           \A m \in Market : j.got[m] # NoAnnonce =>
              job[p] # NoJob /\ j.got[m] = job[p].got[m]
    PROVE  SaleInv'
<1>1. Grows /\ RowsLast /\ \A a \in DOMAIN annonce : Untouched(a)
  BY StillAnnonces DEF RowsLast
<1>2. AnnoncesOK'
  BY DEF SaleInv, TypeOK, PublicationTypeOK, AnnoncesOK
<1>3. ASSUME NEW q \in Publisher, NEW m \in Market, job[q] # NoJob, job[q].got[m] # NoAnnonce
      PROVE  job[q].got[m] \in DOMAIN annonce
  BY <1>3 DEF SaleInv, JobsAreHonest, JobIsHonest, NamesHalfMade, NamesComplete, Names
<1>4. \A m \in Market : j.got[m] # NoAnnonce => Untouched(j.got[m])
  BY <1>1, <1>3
<1>5. JobIsHonest(j)'
  BY <1>1, <1>4, JobLasts
<1>6. \A q \in Publisher \ {p}, m \in Market :
         job[q] # NoJob /\ job[q].got[m] # NoAnnonce =>
            Untouched(job[q].got[m]) /\ j.got[m] # job[q].got[m]
  BY <1>1, <1>3 DEF SaleInv, JobsShareNothing
<1> QED
  BY <1>1, <1>2, <1>5, <1>6, JobStep

\* publish() has a QUEUED listing, whose price is set.
LEMMA StartPublishStep ==
    ASSUME SaleInv, NEW p \in Publisher, NEW l \in Listing, NEW targets \in SUBSET Market,
           StartPublish(p, l, targets), UNCHANGED saleVars
    PROVE  SaleInv'
<1>1. PICK step \in {"call", "fail"} :
        job' = [job EXCEPT ![p] =
                  [l |-> l, prix |-> prixPublie[l], step |-> step,
                   todo |-> IF step = "call" THEN targets ELSE {},
                   got |-> [m \in Market |-> NoAnnonce]]]
  BY DEF StartPublish
<1> DEFINE j == [l |-> l, prix |-> prixPublie[l], step |-> step,
                 todo |-> IF step = "call" THEN targets ELSE {},
                 got |-> [m \in Market |-> NoAnnonce]]
<1>2. prixPublie[l] \in Prix
  BY DEF StartPublish, Editable, SaleInv, PriceIsSet, TypeOK, EngineTypeOK
<1>3. j \in Job
  BY <1>2 DEF Job
<1>4. JobIsHonest(j)
  BY DEF JobIsHonest
<1>5. \A m \in Market : j.got[m] = NoAnnonce
  OBVIOUS
<1>6. UNCHANGED <<engineVars, annonce, pub>>
  BY DEF StartPublish
<1> HIDE DEF j
<1> QED
  BY <1>1, <1>3, <1>4, <1>5, <1>6, QuietJobStep DEF j

\* A marketplace is given up: what it has got, if anything, is forgotten.
LEMMA GiveUpStep ==
    ASSUME SaleInv, NEW p \in Publisher, NEW m \in Market, UNCHANGED saleVars,
           NotEligible(p, m) \/ ConnectorRefuses(p, m)
    PROVE  SaleInv'
<1> DEFINE j == [job[p] EXCEPT !.todo = @ \ {m}, !.got[m] = NoAnnonce]
<1>1. /\ job[p] \in Job /\ job[p].step = "call" /\ job[p] # NoJob /\ JobIsHonest(job[p])
      /\ m \in job[p].todo
  BY JobType DEF NotEligible, ConnectorRefuses
<1>2. j \in Job
  BY <1>1 DEF Job
<1>3. /\ j.l = job[p].l /\ j.step = "call" /\ j.todo = job[p].todo \ {m}
      /\ j.got[m] = NoAnnonce /\ \A n \in Market \ {m} : j.got[n] = job[p].got[n]
  BY <1>1 DEF Job
<1>4. job' = [job EXCEPT ![p] = j]
  <2>1. job \in [Publisher -> Job \cup {NoJob}]
    BY DEF SaleInv, TypeOK, PublicationTypeOK
  <2>2. CASE ConnectorRefuses(p, m)
    BY <2>1, <2>2 DEF ConnectorRefuses
  <2>3. CASE NotEligible(p, m)
    <3>1. [job[p].got EXCEPT ![m] = NoAnnonce] = job[p].got
      BY <1>1, <2>3 DEF NotEligible, Job
    <3>2. j = [job[p] EXCEPT !.todo = @ \ {m}]
      BY <1>1, <3>1 DEF Job
    <3> HIDE DEF j
    <3> QED
      BY <2>1, <2>3, <3>2 DEF NotEligible
  <2> QED
    BY <2>2, <2>3
<1>5. UNCHANGED <<engineVars, annonce, pub>>
  BY DEF NotEligible, ConnectorRefuses
<1> HIDE DEF j
<1>6. JobIsHonest(j)
  BY <1>1, <1>3 DEF JobIsHonest
<1> QED
  BY <1>1, <1>2, <1>3, <1>4, <1>5, <1>6, QuietJobStep

\* Promise.allSettled: what was got is complete by now.
LEMMA AllSettledStep ==
    ASSUME SaleInv, NEW p \in Publisher, AllSettled(p), UNCHANGED saleVars
    PROVE  SaleInv'
<1> DEFINE j == [job[p] EXCEPT !.step = IF Successes(job[p]) = {} THEN "fail" ELSE "save",
                               !.todo = Successes(job[p])]
<1>1. /\ job[p] \in Job /\ job[p].step = "call" /\ job[p] # NoJob /\ JobIsHonest(job[p])
      /\ job[p].todo = {}
  BY JobType DEF AllSettled
<1>2. Successes(job[p]) \subseteq Market
  BY DEF Successes
<1>3. j \in Job
  BY <1>1, <1>2 DEF Job
<1>4. /\ j.l = job[p].l /\ j.got = job[p].got /\ j.todo = Successes(job[p])
      /\ j.step = IF Successes(job[p]) = {} THEN "fail" ELSE "save"
  BY <1>1 DEF Job
<1>5. job' = [job EXCEPT ![p] = j] /\ UNCHANGED <<engineVars, annonce, pub>>
  BY DEF AllSettled, SaleInv, TypeOK, PublicationTypeOK
<1> HIDE DEF j
<1>6. JobIsHonest(j)
  BY <1>1, <1>4 DEF JobIsHonest, Successes
<1> QED
  BY <1>1, <1>3, <1>4, <1>5, <1>6, QuietJobStep

\* The call of a connector makes an annonce, or completes the one it has half made.
LEMMA ConnectorCall ==
    ASSUME AnnoncesOK, NEW l \in Listing, NEW m \in Market, NEW prix \in Prix,
           NEW g \in Annonce \cup {NoAnnonce}, g # NoAnnonce => NamesHalfMade(g, l, m),
           PublishCall(l, m, prix, g),
           NEW id, id = IF g = NoAnnonce THEN Len(annonce') ELSE g
    PROVE  /\ AnnoncesOK' /\ Grows
           /\ id \in Annonce /\ id # NoAnnonce /\ (id = g \/ id \notin DOMAIN annonce)
           /\ \A a \in DOMAIN annonce \ {g} : Untouched(a)
           /\ IF Complete(annonce'[id]) THEN NamesComplete(id, l, m)'
                                        ELSE NamesHalfMade(id, l, m)'
<1>1. CASE g = NoAnnonce
  <2>1. PICK state \in {"offer", "live"} :
          /\ Create(l, m, prix, state)
          /\ state = IF Api[m] = "EBAY" THEN "offer" ELSE "live"
    BY <1>1 DEF PublishCall, EbayPublish, ShopifyPublish, PartnerPublish
  <2>2. /\ AnnoncesOK' /\ Grows
        /\ id \in Annonce /\ id \notin DOMAIN annonce /\ id # NoAnnonce
        /\ id \in DOMAIN annonce'
        /\ \A a \in DOMAIN annonce : Untouched(a)
        /\ annonce'[id] = [l |-> l, m |-> m, prix |-> prix, calls |-> 1, state |-> state]
    BY <1>1, <2>1, CreateAdds
  <2>3. Api[m] \in {"EBAY", "SHOPIFY", "PARTNER"}
    BY ConnectorAssumption
  <2> QED
    BY <2>1, <2>2, <2>3 DEF Complete, Calls, NamesComplete, NamesHalfMade, Names
<1>2. CASE g # NoAnnonce
  <2> DEFINE e == [annonce[g] EXCEPT !.calls = 2,
                                     !.state = IF Api[m] = "EBAY" THEN "live" ELSE @]
  <2>1. /\ g \in DOMAIN annonce /\ annonce[g] \in Remote /\ g \in Annonce
        /\ annonce[g].l = l /\ annonce[g].m = m
        /\ annonce[g].calls = 1 /\ Calls[Api[m]] = 2
        /\ Api[m] = "EBAY" <=> annonce[g].state = "offer"
    BY <1>2, AnnonceType DEF NamesHalfMade, Names
  <2>2. annonce' = [annonce EXCEPT ![g] = e]
    <3>1. CASE Api[m] = "EBAY"
      BY <1>2, <2>1, <3>1 DEF PublishCall, EbayPublish, Remote, AnnoncesOK
    <3>2. CASE Api[m] # "EBAY"
      <4>1. annonce' = [annonce EXCEPT ![g].calls = 2]
        BY <1>2, <3>2 DEF PublishCall, ShopifyPublish, PartnerPublish
      <4>2. e = [annonce[g] EXCEPT !.calls = 2]
        BY <2>1, <3>2 DEF Remote
      <4> HIDE DEF e
      <4> QED
        BY <4>1, <4>2
    <3> QED
      BY <3>1, <3>2
  <2>3. /\ e \in Remote /\ e.l = l /\ e.m = m /\ e.calls = 2
        /\ e.state = IF Api[m] = "EBAY" THEN "live" ELSE annonce[g].state
    <3>1. CASE Api[m] = "EBAY"
      <4>1. e = [annonce[g] EXCEPT !.calls = 2, !.state = "live"]
        BY <3>1
      <4> HIDE DEF e
      <4>2. e = [l |-> l, m |-> m, prix |-> annonce[g].prix, calls |-> 2, state |-> "live"]
        BY <2>1, <4>1 DEF Remote
      <4>3. annonce[g].prix \in Prix
        BY <2>1 DEF Remote
      <4> QED
        BY <3>1, <4>2, <4>3 DEF Remote
    <3>2. CASE Api[m] # "EBAY"
      <4>1. e = [annonce[g] EXCEPT !.calls = 2]
        BY <2>1, <3>2 DEF Remote
      <4> HIDE DEF e
      <4> QED
        BY <2>1, <3>2, <4>1 DEF Remote
    <3> QED
      BY <3>1, <3>2
  <2>4. Api[m] # "EBAY" => Api[m] = "SHOPIFY"
    BY <1>2 DEF PublishCall, PartnerPublish
  <2> HIDE DEF e
  <2>5. /\ AnnoncesOK' /\ DOMAIN annonce' = DOMAIN annonce /\ annonce'[g] = e
        /\ \A a \in DOMAIN annonce \ {g} : annonce'[a] = annonce[a]
    BY <2>1, <2>2, <2>3, OneChanges
  <2>6. Grows /\ \A a \in DOMAIN annonce \ {g} : Untouched(a)
    BY <2>1, <2>3, <2>5 DEF Grows, Untouched
  <2>7. id = g
    BY <1>2
  <2>8. NamesComplete(g, l, m)'
    BY <2>1, <2>3, <2>5 DEF NamesComplete, Names
  <2>9. Complete(annonce'[g])
    BY <2>1, <2>3, <2>5 DEF Complete
  <2> QED
    BY <1>2, <2>1, <2>5, <2>6, <2>7, <2>8, <2>9
<1> QED
  BY <1>1, <1>2

\* What a publication holds is an annonce of its listing.
LEMMA JobHolds ==
    ASSUME SaleInv, NEW q \in Publisher, NEW n \in Market,
           job[q] # NoJob, job[q].got[n] # NoAnnonce
    PROVE  Names(job[q].got[n], job[q].l, n)
  BY DEF SaleInv, JobsAreHonest, JobIsHonest, NamesHalfMade, NamesComplete

\* A call of a connector changes only what its own publication holds.
LEMMA ConnectorCallsStep ==
    ASSUME SaleInv, NEW p \in Publisher, NEW m \in Market, UNCHANGED saleVars,
           ConnectorCalls(p, m)
    PROVE  SaleInv'
<1>1. PICK k \in Job : k = job[p] /\ k.step = "call" /\ k # NoJob /\ JobIsHonest(k)
                       /\ m \in k.todo
  BY JobType DEF ConnectorCalls
<1>2. PICK g \in Annonce \cup {NoAnnonce} : g = k.got[m]
  BY DEF Job
<1>3. /\ k.l \in Listing /\ k.prix \in Prix
      /\ k.got \in [Market -> Annonce \cup {NoAnnonce}] /\ k.todo \subseteq Market
  BY DEF Job
<1>4. PICK id : id = IF g = NoAnnonce THEN Len(annonce') ELSE g
  OBVIOUS
<1>5. /\ AnnoncesOK' /\ Grows
      /\ id \in Annonce /\ id # NoAnnonce /\ (id = g \/ id \notin DOMAIN annonce)
      /\ \A a \in DOMAIN annonce \ {g} : Untouched(a)
      /\ IF Complete(annonce'[id]) THEN NamesComplete(id, k.l, m)'
                                   ELSE NamesHalfMade(id, k.l, m)'
  <2>1. PICK l \in Listing, prix \in Prix : l = k.l /\ prix = k.prix
    BY <1>3
  <2>2. PublishCall(l, m, prix, g) /\ AnnoncesOK
    BY <1>1, <1>2, <2>1 DEF ConnectorCalls, SaleInv, TypeOK, PublicationTypeOK, AnnoncesOK
  <2>3. g # NoAnnonce => NamesHalfMade(g, l, m)
    BY <1>1, <1>2, <2>1 DEF JobIsHonest
  <2>4. /\ AnnoncesOK' /\ Grows
        /\ id \in Annonce /\ id # NoAnnonce /\ (id = g \/ id \notin DOMAIN annonce)
        /\ \A a \in DOMAIN annonce \ {g} : Untouched(a)
        /\ IF Complete(annonce'[id]) THEN NamesComplete(id, l, m)'
                                     ELSE NamesHalfMade(id, l, m)'
    BY <1>4, <2>2, <2>3, ConnectorCall
  <2> QED
    BY <2>1, <2>4
<1>6. PICK x \in Annonce \cup {NoAnnonce}, todo \in SUBSET Market :
        /\ job' = [job EXCEPT ![p] = [k EXCEPT !.got[m] = x, !.todo = todo]]
        /\ \/ x = id /\ todo = IF Complete(annonce'[id]) THEN k.todo \ {m} ELSE k.todo
           \/ x = NoAnnonce /\ todo = k.todo \ {m}
  <2>1. job \in [Publisher -> Job \cup {NoJob}]
    BY DEF SaleInv, TypeOK, PublicationTypeOK
  <2> DEFINE left == IF Complete(annonce'[id]) THEN k.todo \ {m} ELSE k.todo
             j1 == [k EXCEPT !.got[m] = id, !.todo = left]
             j2 == [k EXCEPT !.got[m] = NoAnnonce, !.todo = k.todo \ {m}]
  <2>2. CASE job' = [job EXCEPT ![p].got[m] = id,
                                ![p].todo = IF Complete(annonce'[id]) THEN @ \ {m} ELSE @]
    <3>1. job' = [job EXCEPT ![p] = [k EXCEPT !.got[m] = id,
                     !.todo = IF Complete(annonce'[id]) THEN @ \ {m} ELSE @]]
      BY <1>1, <2>1, <2>2
    <3>2. job' = [job EXCEPT ![p] = j1]
      BY <1>3, <3>1 DEF Job
    <3>3. left \in SUBSET Market
      BY <1>3
    <3> QED
      BY <1>5, <3>2, <3>3
  <2>3. CASE job' = [job EXCEPT ![p].got[m] = NoAnnonce, ![p].todo = @ \ {m}]
    <3>1. job' = [job EXCEPT ![p] = [k EXCEPT !.got[m] = NoAnnonce, !.todo = @ \ {m}]]
      BY <1>1, <2>1, <2>3
    <3>2. job' = [job EXCEPT ![p] = j2]
      BY <1>3, <3>1 DEF Job
    <3>3. k.todo \ {m} \in SUBSET Market
      BY <1>3
    <3> QED
      BY <3>2, <3>3
  <2> QED
    BY <1>1, <1>2, <1>4, <2>2, <2>3 DEF ConnectorCalls
<1> DEFINE j == [k EXCEPT !.got[m] = x, !.todo = todo]
<1>7. /\ j \in Job /\ j.l = k.l /\ j.step = "call" /\ j.todo = todo /\ j.got[m] = x
      /\ \A n \in Market \ {m} : j.got[n] = k.got[n]
  BY <1>1, <1>3, <1>6 DEF Job
<1>8. UNCHANGED <<engineVars, pub>>
  BY DEF ConnectorCalls
<1>9. job' = [job EXCEPT ![p] = j]
  BY <1>6
<1> HIDE DEF j
<1>10. ASSUME NEW n \in Market \ {m}, k.got[n] # NoAnnonce
       PROVE  k.got[n] \in DOMAIN annonce \ {g}
  <2>1. Names(k.got[n], k.l, n)
    BY <1>1, <1>10, JobHolds
  <2>2. g # NoAnnonce => Names(g, k.l, m)
    BY <1>1, <1>2, JobHolds
  <2>3. k.got[n] # g
    BY <1>10, <2>1, <2>2 DEF Names
  <2> QED
    BY <2>1, <2>3 DEF Names
<1>11. ASSUME NEW n \in Market, j.got[n] # NoAnnonce
       PROVE  IF n \in j.todo THEN NamesHalfMade(j.got[n], j.l, n)'
                              ELSE NamesComplete(j.got[n], j.l, n)'
  <2>1. CASE n = m
    <3>1. x = id /\ todo = IF Complete(annonce'[id]) THEN k.todo \ {m} ELSE k.todo
      BY <1>6, <1>7, <1>11, <2>1
    <3> QED
      BY <1>1, <1>5, <1>7, <2>1, <3>1
  <2>2. CASE n # m
    <3>1. j.got[n] = k.got[n] /\ (n \in j.todo <=> n \in k.todo) /\ j.l = k.l
      BY <1>6, <1>7, <2>2
    <3>2. Untouched(k.got[n])
      BY <1>5, <1>10, <1>11, <2>2, <3>1
    <3>3. IF n \in k.todo THEN NamesHalfMade(k.got[n], k.l, n)
                          ELSE NamesComplete(k.got[n], k.l, n)
      BY <1>1, <1>11, <3>1 DEF JobIsHonest
    <3> QED
      BY <1>5, <3>1, <3>2, <3>3, CompleteLasts, HalfMadeLasts
  <2> QED
    BY <2>1, <2>2
<1>12. JobIsHonest(j)'
  BY <1>7, <1>11 DEF JobIsHonest
<1>13. ASSUME NEW q \in Publisher \ {p}, NEW n \in Market,
              job[q] # NoJob, job[q].got[n] # NoAnnonce
       PROVE  Untouched(job[q].got[n]) /\ j.got[n] # job[q].got[n]
  <2>1. Names(job[q].got[n], job[q].l, n)
    BY <1>13, JobHolds
  <2>2. job[q].got[n] # k.got[n]
    BY <1>1, <1>13 DEF SaleInv, JobsShareNothing
  <2>3. job[q].got[n] # g
    <3>1. CASE n = m
      BY <1>2, <2>2, <3>1
    <3>2. CASE n # m
      <4>1. g # NoAnnonce => Names(g, k.l, m)
        BY <1>1, <1>2, JobHolds
      <4> QED
        BY <1>13, <2>1, <3>2, <4>1 DEF Names
    <3> QED
      BY <3>1, <3>2
  <2>4. Untouched(job[q].got[n])
    BY <1>5, <2>1, <2>3 DEF Names
  <2>5. j.got[n] # job[q].got[n]
    <3>1. CASE n = m
      BY <1>5, <1>6, <1>7, <1>13, <2>1, <2>3, <3>1 DEF Names
    <3>2. CASE n # m
      BY <1>7, <2>2, <3>2
    <3> QED
      BY <3>1, <3>2
  <2> QED
    BY <2>4, <2>5
<1>14. \A q \in Publisher \ {p}, n \in Market :
          job[q] # NoJob /\ job[q].got[n] # NoAnnonce =>
             Untouched(job[q].got[n]) /\ j.got[n] # job[q].got[n]
  BY <1>13
<1> QED
  BY <1>5, <1>7, <1>8, <1>9, <1>12, <1>14, JobStep

\* A row is written: it names what the publication has completed.
LEMMA SaveNextStep ==
    ASSUME SaleInv, NEW p \in Publisher, SaveNext(p), UNCHANGED saleVars
    PROVE  SaleInv'
<1>1. PICK k \in Job : k = job[p] /\ k.step = "save" /\ k # NoJob /\ JobIsHonest(k)
  BY JobType DEF SaveNext
<1>2. /\ k.l \in Listing /\ k.todo \subseteq Market
      /\ k.got \in [Market -> Annonce \cup {NoAnnonce}]
  BY DEF Job
<1>3. PICK m \in Market :
        /\ m \in k.todo
        /\ pub' = [pub EXCEPT ![k.l][m] = Upsert(@, k.got[m])]
        /\ job' = [job EXCEPT ![p].todo = @ \ {m},
                              ![p].step = IF k.todo = {m} THEN "mark" ELSE "save"]
  BY <1>1, <1>2 DEF SaveNext
<1> DEFINE step == IF k.todo = {m} THEN "mark" ELSE "save"
           j == [k EXCEPT !.todo = @ \ {m}, !.step = step]
<1>4. /\ j \in Job /\ j.l = k.l /\ j.got = k.got /\ j.todo = k.todo \ {m} /\ j.step = step
      /\ j # NoJob
  BY <1>2, NoJobAssumption DEF Job
<1>5. job' = [job EXCEPT ![p] = j]
  BY <1>1, <1>3 DEF SaleInv, TypeOK, PublicationTypeOK
<1>6. UNCHANGED <<engineVars, annonce>> /\ UNCHANGED <<orders, sale, answered, deliveries, crashes>>
  BY DEF SaveNext, saleVars
<1>7. Grows /\ \A a \in DOMAIN annonce : Untouched(a)
  BY <1>6, StillAnnonces
<1>8. k.got[m] \in Annonce /\ k.got[m] # NoAnnonce /\ NamesComplete(k.got[m], k.l, m)
  BY <1>1, <1>2, <1>3 DEF JobIsHonest, Successes
<1>9. \A r \in PubRow \cup {NoPub} :
         /\ Upsert(r, k.got[m]) \in PubRow /\ Upsert(r, k.got[m]).externalId = k.got[m]
         /\ r # NoPub => Upsert(r, k.got[m]).status = r.status
         /\ r = NoPub => Upsert(r, k.got[m]).status = "ACTIVE"
  BY <1>8 DEF Upsert, PubRow, PubStatus
<1>10. /\ pub' \in [Listing -> [Market -> PubRow \cup {NoPub}]]
       /\ pub'[k.l][m] = Upsert(pub[k.l][m], k.got[m])
       /\ pub[k.l][m] \in PubRow \cup {NoPub}
       /\ \A l \in Listing, n \in Market : ~(l = k.l /\ n = m) => pub'[l][n] = pub[l][n]
  <2>1. pub \in [Listing -> [Market -> PubRow \cup {NoPub}]]
    BY DEF SaleInv, TypeOK, PublicationTypeOK
  <2>2. pub[k.l][m] \in PubRow \cup {NoPub}
    BY <1>2, <2>1
  <2>3. Upsert(pub[k.l][m], k.got[m]) \in PubRow
    BY <1>9, <2>2
  <2> QED
    BY <1>2, <1>3, <2>1, <2>2, <2>3
<1>11. pub'[k.l][m] # NoPub
  BY <1>9, <1>10, NoJobAssumption
<1>12. RowsLast
  BY <1>10, <1>11 DEF RowsLast
<1> HIDE DEF j
<1>13. JobIsHonest(j)'
  <2>1. ASSUME NEW n \in Market, j.got[n] # NoAnnonce
        PROVE  NamesComplete(j.got[n], j.l, n)'
    BY <1>1, <1>4, <1>7, <2>1, CompleteLasts DEF JobIsHonest
  <2>2. j.step = "save" => j.todo # {} /\ j.todo \subseteq Successes(j)
    BY <1>1, <1>2, <1>3, <1>4 DEF JobIsHonest, Successes
  <2>3. j.step = "mark" => j.todo = {} /\ Successes(j) # {}
    BY <1>1, <1>3, <1>4 DEF JobIsHonest, Successes
  <2>4. \A n \in Successes(j) \ j.todo : pub'[j.l][n] # NoPub
    <3>1. \A n \in Successes(k) \ k.todo : pub'[k.l][n] # NoPub
      BY <1>1, <1>2, <1>12 DEF JobIsHonest, RowsLast, Successes
    <3> QED
      BY <1>4, <1>11, <3>1 DEF Successes
  <2> QED
    BY <1>4, <2>1, <2>2, <2>3, <2>4 DEF JobIsHonest, Successes
<1>14. JobsAreHonest' /\ JobsShareNothing'
  <2>1. \A q \in Publisher \ {p}, n \in Market :
           job[q] # NoJob /\ job[q].got[n] # NoAnnonce =>
              /\ Untouched(job[q].got[n])
              /\ j # NoJob => j.got[n] # job[q].got[n]
    BY <1>1, <1>4, <1>7, JobHolds DEF Names, SaleInv, JobsShareNothing
  <2>2. PICK i \in Job \cup {NoJob} : i = j
    BY <1>4
  <2>3. job' = [job EXCEPT ![p] = i] /\ (i # NoJob => JobIsHonest(i)')
    BY <1>5, <1>13, <2>2
  <2>4. \A q \in Publisher \ {p}, n \in Market :
           job[q] # NoJob /\ job[q].got[n] # NoAnnonce =>
              /\ Untouched(job[q].got[n])
              /\ i # NoJob => i.got[n] # job[q].got[n]
    BY <2>1, <2>2
  <2> QED
    BY <1>7, <1>12, <2>3, <2>4, OneJob
<1>15. RowsAreComplete'
  <2>1. NamesComplete(k.got[m], k.l, m)'
    BY <1>7, <1>8, CompleteLasts
  <2>2. SUFFICES ASSUME NEW l \in Listing, NEW n \in Market, pub'[l][n] # NoPub,
                        NEW id, id = pub'[l][n].externalId
                 PROVE  NamesComplete(id, l, n)'
    BY DEF RowsAreComplete, NamesComplete, Names
  <2>3. CASE l = k.l /\ n = m
    BY <1>9, <1>10, <2>1, <2>2, <2>3
  <2>4. CASE ~(l = k.l /\ n = m)
    <3>1. NamesComplete(id, l, n)
      BY <1>10, <2>2, <2>4 DEF SaleInv, RowsAreComplete
    <3> QED
      BY <1>7, <3>1, CompleteLasts
  <2> QED
    BY <2>3, <2>4
<1>16. RowsTellTheTruth'
  <2> SUFFICES ASSUME NEW l \in Listing, NEW n \in Market, pub'[l][n] # NoPub
               PROVE  /\ pub'[l][n].status = "SOLD" => "sold" \in Past(l, n)'
                      /\ pub'[l][n].status = "WITHDRAWN" => Past(l, n)' \cap {"sold", "down"} # {}
    BY DEF RowsTellTheTruth
  <2>1. pub'[l][n].status # "ACTIVE" => pub[l][n] # NoPub /\ pub[l][n].status = pub'[l][n].status
    <3>1. CASE l = k.l /\ n = m
      BY <1>9, <1>10, <3>1
    <3>2. CASE ~(l = k.l /\ n = m)
      BY <1>10, <3>2
    <3> QED
      BY <3>1, <3>2
  <2> QED
    BY <1>7, <2>1, PastLasts DEF SaleInv, RowsTellTheTruth
<1>17. EngineTypeOK' /\ PriceIsSet' /\ ListedSomewhere'
  BY <1>6, <1>12, EngineStill
<1>18. job' \in [Publisher -> Job \cup {NoJob}]
  BY <1>4, <1>5 DEF SaleInv, TypeOK, PublicationTypeOK
<1>19. TypeOK'
  BY <1>6, <1>10, <1>17, <1>18 DEF SaleInv, TypeOK, PublicationTypeOK
<1>20. OrdersAreSold' /\ SalesAreHonest'
  BY <1>6, <1>7, <1>12, HeldStaysHonest
<1> QED
  BY <1>14, <1>15, <1>16, <1>17, <1>19, <1>20 DEF SaleInv

\* A publication ends: it leaves a listing that the engine has moved, or not.
LEMMA EndPublishStep ==
    ASSUME SaleInv, NEW p \in Publisher, EndPublish(p), UNCHANGED saleVars,
           EngineTypeOK', PriceIsSet', ListedSomewhere'
    PROVE  SaleInv'
<1>1. /\ job' = [job EXCEPT ![p] = NoJob] /\ UNCHANGED <<annonce, pub>>
      /\ UNCHANGED <<orders, sale, answered, deliveries, crashes>>
  BY DEF EndPublish, saleVars
<1>2. Grows /\ RowsLast /\ \A a \in DOMAIN annonce : Untouched(a)
  BY <1>1, StillAnnonces DEF RowsLast
<1>3. JobsAreHonest' /\ JobsShareNothing'
  <2>1. \A q \in Publisher \ {p}, m \in Market :
           job[q] # NoJob /\ job[q].got[m] # NoAnnonce => Untouched(job[q].got[m])
    BY <1>2, JobHolds DEF Names
  <2>2. PICK i \in Job \cup {NoJob} : i = NoJob
    OBVIOUS
  <2>3. job' = [job EXCEPT ![p] = i] /\ (i # NoJob => JobIsHonest(i)')
    BY <1>1, <2>2
  <2>4. \A q \in Publisher \ {p}, m \in Market :
           job[q] # NoJob /\ job[q].got[m] # NoAnnonce =>
              /\ Untouched(job[q].got[m])
              /\ i # NoJob => i.got[m] # job[q].got[m]
    BY <2>1, <2>2
  <2> QED
    BY <1>2, <2>3, <2>4, OneJob
<1>4. TypeOK'
  BY <1>1 DEF SaleInv, TypeOK, PublicationTypeOK
<1> QED
  BY <1>1, <1>2, <1>3, <1>4, HeldStaysHonest DEF SaleInv

\* PUBLISHED is written for a listing that has a row.
LEMMA FinishPublishStep ==
    ASSUME SaleInv, NEW p \in Publisher, FinishPublish(p), UNCHANGED saleVars
    PROVE  SaleInv'
<1>1. PICK k \in Job : k = job[p] /\ k.step = "mark" /\ JobIsHonest(k)
  BY JobType DEF FinishPublish
<1>2. k.l \in Listing /\ \E m \in Market : pub[k.l][m] # NoPub
  BY <1>1 DEF Job, JobIsHonest, Successes
<1>3. EndPublish(p) /\ RowsLast /\ UNCHANGED pub
  BY DEF FinishPublish, EndPublish, RowsLast
<1>4. CASE MarkPublished(k.l)
  <2>1. EngineTypeOK' /\ PriceIsSet'
    BY <1>2, <1>4, PlainMoves DEF SaleInv, TypeOK
  <2>2. ListedSomewhere'
    BY <1>2, <1>3, <1>4
    DEF MarkPublished, Move, SaleInv, TypeOK, EngineTypeOK, ListedSomewhere
  <2> QED
    BY <1>3, <2>1, <2>2, EndPublishStep
<1>5. CASE UNCHANGED engineVars
  BY <1>3, <1>5, EngineStill, EndPublishStep
<1> QED
  BY <1>1, <1>4, <1>5 DEF FinishPublish

\* fail() gives the money back.
LEMMA FailStep ==
    ASSUME SaleInv, NEW p \in Publisher, Fail(p), UNCHANGED saleVars
    PROVE  SaleInv'
<1>1. PICK k \in Job : k = job[p] /\ k.step = "fail"
  BY JobType DEF Fail
<1>2. k.l \in Listing
  BY DEF Job
<1>3. EndPublish(p) /\ RowsLast /\ UNCHANGED pub
  BY DEF Fail, EndPublish, RowsLast
<1>4. CASE FailPublish(k.l)
  <2>1. EngineStep
    BY <1>2, <1>4, RefundMoves DEF SaleInv, TypeOK
  <2>2. ListedSomewhere'
    BY <1>3, <2>1 DEF EngineStep, SaleInv, ListedSomewhere
  <2> QED
    BY <1>3, <2>1, <2>2, EndPublishStep DEF EngineStep
<1>5. CASE UNCHANGED engineVars
  BY <1>3, <1>5, EngineStill, EndPublishStep
<1> QED
  BY <1>1, <1>4, <1>5 DEF Fail

-----------------------------------------------------------------------------
(* The steps of a sale.                                                     *)

\* What happens on the marketplaces, and touches nothing that is half made,
\* leaves the listings, the publications and the rows as they should be.
LEMMA MarketStep ==
    ASSUME SaleInv, AnnoncesOK', Grows, \A a \in DOMAIN annonce : Untouched(a),
           UNCHANGED <<engineVars, pub, job>>
    PROVE  /\ EngineTypeOK' /\ PublicationTypeOK' /\ PriceIsSet' /\ ListedSomewhere'
           /\ JobsAreHonest' /\ JobsShareNothing' /\ RowsAreComplete' /\ RowsTellTheTruth'
           /\ UNCHANGED orders => OrdersAreSold'
           /\ UNCHANGED sale => SalesAreHonest'
<1>1. RowsLast
  BY DEF RowsLast
<1>2. PublicationTypeOK'
  BY DEF SaleInv, TypeOK, PublicationTypeOK, AnnoncesOK
<1> QED
  BY <1>1, <1>2, EngineStill, NoJobMoves, HeldStaysHonest

\* Rows that keep their externalId and say what happened.
LEMMA RowsAreRewritten ==
    ASSUME SaleInv, UNCHANGED <<engineVars, annonce, job>>,
           pub' \in [Listing -> [Market -> PubRow \cup {NoPub}]],
           \A l \in Listing, m \in Market :
              /\ pub'[l][m] # NoPub <=> pub[l][m] # NoPub
              /\ pub[l][m] # NoPub =>
                   /\ pub'[l][m].externalId = pub[l][m].externalId
                   /\ \/ pub'[l][m].status \in {pub[l][m].status, "WITHDRAW_FAILED"}
                      \/ pub'[l][m].status = "SOLD" /\ "sold" \in Past(l, m)
                      \/ pub'[l][m].status = "WITHDRAWN" /\ Past(l, m) \cap {"sold", "down"} # {}
    PROVE  /\ EngineTypeOK' /\ PublicationTypeOK' /\ PriceIsSet' /\ ListedSomewhere'
           /\ JobsAreHonest' /\ JobsShareNothing' /\ RowsAreComplete' /\ RowsTellTheTruth'
           /\ UNCHANGED orders => OrdersAreSold'
           /\ Grows /\ RowsLast
<1>1. RowsLast /\ Grows /\ \A a \in DOMAIN annonce : Untouched(a)
  BY StillAnnonces DEF RowsLast
<1>2. PublicationTypeOK'
  BY DEF SaleInv, TypeOK, PublicationTypeOK
<1>3. RowsAreComplete'
  <2> SUFFICES ASSUME NEW l \in Listing, NEW n \in Market, pub'[l][n] # NoPub,
                      NEW id, id = pub'[l][n].externalId
               PROVE  NamesComplete(id, l, n)'
    BY DEF RowsAreComplete, NamesComplete, Names
  <2>1. NamesComplete(id, l, n)
    BY DEF SaleInv, RowsAreComplete
  <2> QED
    BY <1>1, <2>1, CompleteLasts
<1>4. ASSUME NEW l \in Listing, NEW m \in Market
      PROVE  Past(l, m)' = Past(l, m)
  BY DEF Past
<1>5. RowsTellTheTruth'
  BY <1>4 DEF SaleInv, RowsTellTheTruth
<1> QED
  BY <1>1, <1>2, <1>3, <1>5, EngineStill, NoJobMoves, HeldStaysHonest

\* One delivery takes a step.
LEMMA OneSale ==
    ASSUME SaleInv, Grows, RowsLast, NEW h \in SaleHook, NEW s \in SaleCall \cup {NoSale},
           sale' = [sale EXCEPT ![h] = s],
           s # NoSale => SaleIsHonest(s)'
    PROVE  SalesAreHonest' /\ sale' \in [SaleHook -> SaleCall \cup {NoSale}]
<1>1. sale \in [SaleHook -> SaleCall \cup {NoSale}]
  BY DEF SaleInv, TypeOK
<1>2. SUFFICES ASSUME NEW g \in SaleHook, sale'[g] # NoSale,
                      NEW t \in SaleCall, t = sale'[g]
               PROVE  SaleIsHonest(t)'
  BY <1>1 DEF SalesAreHonest
<1>3. CASE g = h
  BY <1>1, <1>2, <1>3
<1>4. CASE g # h
  <2>1. t = sale[g] /\ SaleIsHonest(t)
    BY <1>1, <1>2, <1>4 DEF SaleInv, SalesAreHonest
  <2> QED
    BY <2>1, SaleLasts
<1> QED
  BY <1>3, <1>4

\* A delivery that is at some step holds its record.
LEMMA SaleType ==
    ASSUME SaleInv, NEW h \in SaleHook, NEW step, AtStep(h, step)
    PROVE  \E s \in SaleCall : s = sale[h] /\ s.step = step /\ SaleIsHonest(s)
  BY DEF SaleInv, TypeOK, AtStep, SalesAreHonest

\* What is bought is sold.
LEMMA BuyStep ==
    ASSUME SaleInv, NEW order \in SUBSET DOMAIN annonce, Buy(order)
    PROVE  SaleInv'
<1>1. /\ \A a \in order : annonce[a].state = "live"
      /\ annonce' = [a \in DOMAIN annonce |->
                       IF a \in order THEN [annonce[a] EXCEPT !.state = "sold"] ELSE annonce[a]]
      /\ orders' = orders \cup {order}
      /\ UNCHANGED <<engineVars, pub, job>> /\ UNCHANGED <<sale, answered, deliveries, crashes>>
  BY DEF Buy
<1>2. AnnoncesOK
  BY DEF SaleInv, TypeOK, PublicationTypeOK, AnnoncesOK
<1>3. \A a \in DOMAIN annonce : annonce[a] \in Remote /\ a \in Annonce
  BY <1>2, AnnonceType
<1>4. ASSUME NEW a \in DOMAIN annonce
      PROVE  /\ annonce'[a] \in Remote
             /\ annonce'[a].l = annonce[a].l /\ annonce'[a].m = annonce[a].m
             /\ annonce'[a].calls = annonce[a].calls
             /\ annonce'[a].state = IF a \in order THEN "sold" ELSE annonce[a].state
  BY <1>1, <1>3 DEF Remote
<1>5. AnnoncesOK'
  <2>1. DOMAIN annonce = 1 .. Len(annonce) /\ Len(annonce) \in Nat
    BY <1>2 DEF AnnoncesOK
  <2>2. annonce' \in [1 .. Len(annonce) -> Remote]
    BY <1>1, <1>4, <2>1
  <2>3. annonce' \in Seq(Remote)
    BY <2>1, <2>2, SeqDef
  <2>4. Len(annonce') = Len(annonce)
    BY <2>1, <2>2, <2>3, LenProperties
  <2> QED
    BY <1>2, <2>3, <2>4 DEF AnnoncesOK
<1>6. DOMAIN annonce' = DOMAIN annonce
  BY <1>1
<1>7. Grows /\ \A a \in DOMAIN annonce : Untouched(a)
  BY <1>1, <1>4, <1>6 DEF Grows, Untouched
<1>8. OrdersAreSold'
  <2>1. ASSUME NEW o \in orders
        PROVE  AllSold(o)'
    BY <1>7, <2>1, SoldLasts DEF SaleInv, OrdersAreSold
  <2>2. AllSold(order)'
    BY <1>4, <1>6 DEF AllSold
  <2> QED
    BY <1>1, <2>1, <2>2 DEF OrdersAreSold
<1>9. orders' \subseteq SUBSET Annonce
  BY <1>1, <1>3 DEF SaleInv, TypeOK
<1> QED
  BY <1>1, <1>5, <1>7, <1>8, <1>9, MarketStep DEF SaleInv, TypeOK

\* A delivery starts: it tells of what was bought.
LEMMA DeliverSaleStep ==
    ASSUME SaleInv, NEW h \in SaleHook, NEW a \in Annonce, DeliverSale(h, a)
    PROVE  SaleInv'
<1>1. PICK order \in orders :
        /\ a \in order
        /\ deliveries' = [b \in Annonce |-> deliveries[b] + IF b \in order THEN 1 ELSE 0]
        /\ sale' = [sale EXCEPT ![h] =
                      [step |-> "find", ids |-> order, id |-> a, l |-> annonce[a].l,
                       m |-> annonce[a].m, seen |-> [m \in Market |-> NoAnnonce],
                       ok |-> {}, failed |-> {}]]
  BY DEF DeliverSale, Notified
<1>2. UNCHANGED <<engineVars, annonce, pub, job>> /\ UNCHANGED <<orders, answered, crashes>>
  BY DEF DeliverSale, publicationVars
<1>3. Grows /\ RowsLast /\ AnnoncesOK' /\ \A b \in DOMAIN annonce : Untouched(b)
  BY <1>2, StillAnnonces DEF RowsLast, SaleInv, TypeOK, PublicationTypeOK, AnnoncesOK
<1>4. AllSold(order) /\ order \subseteq Annonce
  BY DEF SaleInv, OrdersAreSold, TypeOK
<1>5. annonce[a].l \in Listing /\ annonce[a].m \in Market
  BY <1>1, <1>4, AnnonceType DEF AllSold, SaleInv, TypeOK, PublicationTypeOK, AnnoncesOK, Remote
<1>6. PICK s \in SaleCall :
        /\ sale' = [sale EXCEPT ![h] = s] /\ s.step = "find" /\ s.ids = order
        /\ \A m \in Market : s.seen[m] = NoAnnonce /\ s.ok = {} /\ s.failed = {}
  <2> DEFINE s == [step |-> "find", ids |-> order, id |-> a, l |-> annonce[a].l,
                   m |-> annonce[a].m, seen |-> [m \in Market |-> NoAnnonce],
                   ok |-> {}, failed |-> {}]
  <2>1. s \in SaleCall
    BY <1>4, <1>5 DEF SaleCall
  <2>2. /\ s.step = "find" /\ s.ids = order
        /\ \A m \in Market : s.seen[m] = NoAnnonce /\ s.ok = {} /\ s.failed = {}
    OBVIOUS
  <2>3. sale' = [sale EXCEPT ![h] = s]
    BY <1>1
  <2> HIDE DEF s
  <2> QED
    BY <2>1, <2>2, <2>3
<1>7. SaleIsHonest(s)'
  <2>1. AllSold(s.ids)'
    BY <1>3, <1>4, <1>6, SoldLasts
  <2> QED
    BY <1>6, <2>1 DEF SaleIsHonest
<1>8. SalesAreHonest' /\ sale' \in [SaleHook -> SaleCall \cup {NoSale}]
  BY <1>3, <1>6, <1>7, OneSale
<1>9. deliveries' \in [Annonce -> Nat]
  BY <1>1 DEF SaleInv, TypeOK
<1> QED
  BY <1>2, <1>3, <1>8, <1>9, MarketStep DEF SaleInv, TypeOK

\* A delivery moves on and nothing else changes.
LEMMA QuietSaleStep ==
    ASSUME SaleInv, NEW h \in SaleHook, NEW s \in SaleCall \cup {NoSale},
           sale' = [sale EXCEPT ![h] = s],
           s # NoSale => SaleIsHonest(s),
           answered' \subseteq Annonce,
           UNCHANGED <<engineVars, publicationVars, orders, deliveries, crashes>>
    PROVE  SaleInv'
<1>1. UNCHANGED <<engineVars, annonce, pub, job>> /\ UNCHANGED <<orders, deliveries, crashes>>
  BY DEF publicationVars
<1>2. Grows /\ RowsLast /\ AnnoncesOK' /\ \A b \in DOMAIN annonce : Untouched(b)
  BY <1>1, StillAnnonces DEF RowsLast, SaleInv, TypeOK, PublicationTypeOK, AnnoncesOK
<1>3. s # NoSale => SaleIsHonest(s)'
  BY <1>2, SaleLasts
<1>4. SalesAreHonest' /\ sale' \in [SaleHook -> SaleCall \cup {NoSale}]
  BY <1>2, <1>3, OneSale
<1> QED
  BY <1>1, <1>2, <1>4, MarketStep DEF SaleInv, TypeOK

\* What is found is the row of an annonce that was sold.
LEMMA FindPublicationStep ==
    ASSUME SaleInv, NEW h \in SaleHook, FindPublication(h)
    PROVE  SaleInv'
<1>1. PICK k \in SaleCall : k = sale[h] /\ k.step = "find" /\ SaleIsHonest(k)
  BY SaleType DEF FindPublication
<1>2. UNCHANGED <<engineVars, publicationVars, orders, deliveries, crashes>>
  BY DEF FindPublication
<1>3. sale \in [SaleHook -> SaleCall \cup {NoSale}] /\ answered \subseteq Annonce
  BY DEF SaleInv, TypeOK
<1>4. CASE \E id \in k.ids : \E l \in Carrying(id, k.m) :
             /\ sale' = [sale EXCEPT ![h].step = "sold", ![h].id = id, ![h].l = l]
             /\ UNCHANGED answered
  <2>0. PICK id \in k.ids :
          \E l \in Carrying(id, k.m) :
             sale' = [sale EXCEPT ![h].step = "sold", ![h].id = id, ![h].l = l]
    BY <1>4
  <2>1. PICK l \in Carrying(id, k.m) :
          sale' = [sale EXCEPT ![h].step = "sold", ![h].id = id, ![h].l = l]
    BY <2>0
  <2>2. /\ id \in Annonce /\ l \in Listing /\ k.m \in Market
        /\ pub[l][k.m] # NoPub /\ pub[l][k.m].externalId = id
    BY DEF Carrying, SaleCall
  <2> DEFINE s == [k EXCEPT !.step = "sold", !.id = id, !.l = l]
  <2>3. /\ s \in SaleCall /\ s.step = "sold" /\ s.ids = k.ids /\ s.l = l /\ s.m = k.m
        /\ s.seen = k.seen /\ s.ok = k.ok /\ s.failed = k.failed
    BY <2>2 DEF SaleCall
  <2>4. sale' = [sale EXCEPT ![h] = s]
    BY <1>1, <1>3, <2>1
  <2>5. "sold" \in Past(l, k.m)
    <3>1. Names(id, l, k.m)
      BY <2>2 DEF SaleInv, RowsAreComplete, NamesComplete
    <3>2. annonce[id].state = "sold"
      BY <1>1 DEF SaleIsHonest, AllSold
    <3> QED
      BY <3>1, <3>2, InPast
  <2> HIDE DEF s
  <2>6. SaleIsHonest(s)
    BY <1>1, <2>2, <2>3, <2>5 DEF SaleIsHonest
  <2>7. answered' \subseteq Annonce
    BY <1>3, <1>4
  <2> QED
    BY <1>2, <2>3, <2>4, <2>6, <2>7, QuietSaleStep
<1>5. CASE Reply200(h)
  <2>1. sale' = [sale EXCEPT ![h] = NoSale] /\ answered' \subseteq Annonce
    BY <1>1, <1>3, <1>5 DEF Reply200, SaleCall
  <2> QED
    BY <1>2, <2>1, QuietSaleStep
<1> QED
  BY <1>1, <1>4, <1>5 DEF FindPublication

\* The sisters that are read are rows of the listing.
LEMMA ReadSiblingsStep ==
    ASSUME SaleInv, NEW h \in SaleHook, ReadSiblings(h)
    PROVE  SaleInv'
<1>1. PICK k \in SaleCall : k = sale[h] /\ k.step = "siblings" /\ SaleIsHonest(k)
  BY SaleType DEF ReadSiblings
<1>2. UNCHANGED <<engineVars, publicationVars, orders, answered, deliveries, crashes>>
  BY DEF ReadSiblings
<1>3. sale \in [SaleHook -> SaleCall \cup {NoSale}] /\ answered' \subseteq Annonce
  BY <1>2 DEF SaleInv, TypeOK
<1> DEFINE sisters == {m \in Market \ {k.m} : Actionable(pub[k.l][m])}
           seen == [m \in Market |-> IF m \in sisters THEN pub[k.l][m].externalId ELSE NoAnnonce]
           s == [k EXCEPT !.step = "retract", !.seen = seen]
<1>4. k.l \in Listing /\ k.m \in Market
  BY DEF SaleCall
<1>5. \A m \in sisters : pub[k.l][m] # NoPub /\ pub[k.l][m].externalId \in Annonce
  BY <1>4 DEF Actionable, SaleInv, TypeOK, PublicationTypeOK, PubRow
<1>6. seen \in [Market -> Annonce \cup {NoAnnonce}]
  BY <1>5
<1>7. /\ s \in SaleCall /\ s.step = "retract" /\ s.ids = k.ids /\ s.l = k.l /\ s.m = k.m
      /\ s.seen = seen /\ s.ok = k.ok /\ s.failed = k.failed
  <2> HIDE DEF seen
  <2> QED
    BY <1>6 DEF SaleCall
<1>8. sale' = [sale EXCEPT ![h] = s]
  <2>1. sale' = [sale EXCEPT ![h].step = "retract", ![h].seen = seen]
    BY <1>1 DEF ReadSiblings
  <2> HIDE DEF seen
  <2> QED
    BY <1>1, <1>3, <2>1
<1>9. ASSUME NEW m \in Market, seen[m] # NoAnnonce
      PROVE  NamesComplete(seen[m], k.l, m) /\ pub[k.l][m] # NoPub
  <2>1. m \in sisters /\ seen[m] = pub[k.l][m].externalId
    BY <1>9
  <2> QED
    BY <1>4, <1>5, <2>1 DEF SaleInv, RowsAreComplete
<1>10. ASSUME NEW m \in Market
       PROVE  m \notin k.ok \cup k.failed
  BY <1>1 DEF SaleIsHonest
<1> HIDE DEF s, seen
<1>11. SaleIsHonest(s)
  BY <1>1, <1>7, <1>9, <1>10 DEF SaleIsHonest
<1> QED
  BY <1>2, <1>3, <1>7, <1>8, <1>11, QuietSaleStep

\* SOLD is written where an annonce was sold.
LEMMA MarkSoldStep ==
    ASSUME SaleInv, NEW h \in SaleHook, MarkSold(h)
    PROVE  SaleInv'
<1>1. PICK k \in SaleCall : k = sale[h] /\ k.step = "sold" /\ SaleIsHonest(k)
  BY SaleType DEF MarkSold
<1>2. /\ UNCHANGED <<engineVars, annonce, job>> /\ UNCHANGED <<orders, answered, deliveries, crashes>>
      /\ pub' = [pub EXCEPT ![k.l][k.m].status = "SOLD"]
      /\ sale' = [sale EXCEPT ![h].step = "siblings"]
  BY <1>1 DEF MarkSold
<1>3. /\ sale \in [SaleHook -> SaleCall \cup {NoSale}]
      /\ pub \in [Listing -> [Market -> PubRow \cup {NoPub}]]
  BY DEF SaleInv, TypeOK, PublicationTypeOK
<1>4. /\ k.l \in Listing /\ k.m \in Market
      /\ pub[k.l][k.m] # NoPub /\ "sold" \in Past(k.l, k.m)
  BY <1>1 DEF SaleCall, SaleIsHonest
<1> DEFINE row == [pub[k.l][k.m] EXCEPT !.status = "SOLD"]
<1>5. row \in PubRow /\ row.status = "SOLD" /\ row.externalId = pub[k.l][k.m].externalId
  BY <1>3, <1>4 DEF PubRow, PubStatus
<1>6. pub' = [pub EXCEPT ![k.l][k.m] = row]
  BY <1>2, <1>3, <1>4
<1> HIDE DEF row
<1>7. /\ pub' \in [Listing -> [Market -> PubRow \cup {NoPub}]] /\ pub'[k.l][k.m] = row
      /\ \A l \in Listing, m \in Market : ~(l = k.l /\ m = k.m) => pub'[l][m] = pub[l][m]
  BY <1>3, <1>4, <1>5, <1>6
<1>8. \A l \in Listing, m \in Market :
         /\ pub'[l][m] # NoPub <=> pub[l][m] # NoPub
         /\ pub[l][m] # NoPub =>
              /\ pub'[l][m].externalId = pub[l][m].externalId
              /\ \/ pub'[l][m].status \in {pub[l][m].status, "WITHDRAW_FAILED"}
                 \/ pub'[l][m].status = "SOLD" /\ "sold" \in Past(l, m)
                 \/ pub'[l][m].status = "WITHDRAWN" /\ Past(l, m) \cap {"sold", "down"} # {}
  BY <1>4, <1>5, <1>7, NoJobAssumption
<1>9. /\ EngineTypeOK' /\ PublicationTypeOK' /\ PriceIsSet' /\ ListedSomewhere'
      /\ JobsAreHonest' /\ JobsShareNothing' /\ RowsAreComplete' /\ RowsTellTheTruth'
      /\ OrdersAreSold' /\ Grows /\ RowsLast
  BY <1>2, <1>7, <1>8, RowsAreRewritten
<1>10. PICK s \in SaleCall : s = [k EXCEPT !.step = "siblings"]
  BY DEF SaleCall
<1>11. /\ s.step = "siblings" /\ s.ids = k.ids /\ s.l = k.l /\ s.m = k.m
       /\ s.seen = k.seen /\ s.ok = k.ok /\ s.failed = k.failed
  BY <1>10 DEF SaleCall
<1>12. SaleIsHonest(s)
  BY <1>1, <1>11 DEF SaleIsHonest
<1>13. SaleIsHonest(s)'
  BY <1>9, <1>12, SaleLasts
<1>14. sale' = [sale EXCEPT ![h] = s]
  BY <1>1, <1>2, <1>3, <1>10
<1>15. SalesAreHonest' /\ sale' \in [SaleHook -> SaleCall \cup {NoSale}]
  BY <1>9, <1>13, <1>14, OneSale
<1> QED
  BY <1>2, <1>9, <1>15 DEF SaleInv, TypeOK

\* retract() takes an annonce off line, and leaves the sold ones and the offers alone.
LEMMA RetractTakesDown ==
    ASSUME AnnoncesOK, NEW id \in DOMAIN annonce, annonce[id].state # "offer", RetractCall(id)
    PROVE  /\ AnnoncesOK' /\ Grows /\ \A a \in DOMAIN annonce : Untouched(a)
           /\ annonce'[id].state \in {"sold", "down"}
<1> DEFINE state == IF annonce[id].state = "live" THEN "down" ELSE annonce[id].state
           e == [annonce[id] EXCEPT !.state = state]
<1>1. annonce[id] \in Remote
  BY AnnonceType
<1>2. state \in {"offer", "live", "sold", "down"} /\ state # "offer" /\ state # "live"
      /\ (annonce[id].state \in {"sold", "down"} => state = annonce[id].state)
  BY <1>1 DEF Remote
<1>3. annonce' = [annonce EXCEPT ![id] = e]
  BY <1>1 DEF RetractCall, EbayRetract, ShopifyRetract, Remote, AnnoncesOK
<1> HIDE DEF state
<1>4. /\ e \in Remote /\ e.l = annonce[id].l /\ e.m = annonce[id].m
      /\ e.calls = annonce[id].calls /\ e.state = state
  BY <1>1, <1>2 DEF Remote
<1> HIDE DEF e
<1>5. /\ AnnoncesOK' /\ DOMAIN annonce' = DOMAIN annonce /\ annonce'[id] = e
      /\ \A a \in DOMAIN annonce \ {id} : annonce'[a] = annonce[a]
  BY <1>3, <1>4, OneChanges
<1> QED
  BY <1>2, <1>4, <1>5 DEF Grows, Untouched

\* A sister settles.
LEMMA RetractSettlesStep ==
    ASSUME SaleInv, NEW h \in SaleHook, NEW m \in Market, RetractSettles(h, m)
    PROVE  SaleInv'
<1>1. PICK k \in SaleCall : /\ k = sale[h] /\ k.step = "retract" /\ SaleIsHonest(k)
                            /\ m \in Pending(k)
  BY SaleType DEF RetractSettles
<1>2. UNCHANGED <<engineVars, pub, job>> /\ UNCHANGED <<orders, answered, deliveries, crashes>>
  BY DEF RetractSettles
<1>3. sale \in [SaleHook -> SaleCall \cup {NoSale}] /\ AnnoncesOK
  BY DEF SaleInv, TypeOK, PublicationTypeOK, AnnoncesOK
<1>4. PICK ok \in BOOLEAN :
        /\ sale' = [sale EXCEPT ![h] =
                      IF ok THEN [k EXCEPT !.ok = @ \cup {m}]
                            ELSE [k EXCEPT !.failed = @ \cup {m}]]
        /\ ok => RetractCall(k.seen[m])
        /\ RetractCall(k.seen[m]) \/ UNCHANGED annonce
  <2>1. \/ RetractCall(k.seen[m]) /\ sale' = [sale EXCEPT ![h].ok = @ \cup {m}]
        \/ /\ RetractCall(k.seen[m]) \/ UNCHANGED annonce
           /\ sale' = [sale EXCEPT ![h].failed = @ \cup {m}]
    BY <1>1 DEF RetractSettles
  <2>2. CASE RetractCall(k.seen[m]) /\ sale' = [sale EXCEPT ![h].ok = @ \cup {m}]
    <3>1. sale' = [sale EXCEPT ![h] = [k EXCEPT !.ok = @ \cup {m}]]
      BY <1>1, <1>3, <2>2
    <3> QED
      BY <2>2, <3>1
  <2>3. CASE /\ RetractCall(k.seen[m]) \/ UNCHANGED annonce
             /\ sale' = [sale EXCEPT ![h].failed = @ \cup {m}]
    <3>1. sale' = [sale EXCEPT ![h] = [k EXCEPT !.failed = @ \cup {m}]]
      BY <1>1, <1>3, <2>3
    <3> QED
      BY <2>3, <3>1
  <2> QED
    BY <2>1, <2>2, <2>3
<1>5. NamesComplete(k.seen[m], k.l, m)
  BY <1>1 DEF Pending, SaleIsHonest
<1>6. /\ AnnoncesOK' /\ Grows /\ \A a \in DOMAIN annonce : Untouched(a)
      /\ ok => annonce'[k.seen[m]].state \in {"sold", "down"}
  <2>1. CASE RetractCall(k.seen[m])
    BY <1>3, <1>5, <2>1, RetractTakesDown DEF NamesComplete, Names
  <2>2. CASE ~ok /\ UNCHANGED annonce
    BY <1>3, <2>2, StillAnnonces DEF AnnoncesOK
  <2> QED
    BY <1>4, <2>1, <2>2
<1>7. RowsLast
  BY <1>2 DEF RowsLast
<1>8. PICK s \in SaleCall : s = IF ok THEN [k EXCEPT !.ok = @ \cup {m}]
                                      ELSE [k EXCEPT !.failed = @ \cup {m}]
  BY DEF SaleCall
<1>9. /\ s.step = "retract" /\ s.ids = k.ids /\ s.l = k.l /\ s.m = k.m /\ s.seen = k.seen
      /\ s.ok = IF ok THEN k.ok \cup {m} ELSE k.ok
      /\ s.failed = IF ok THEN k.failed ELSE k.failed \cup {m}
  BY <1>1, <1>8 DEF SaleCall
<1>10. SaleIsHonest(k)'
  BY <1>1, <1>6, <1>7, SaleLasts
<1>11. k.seen[m] # NoAnnonce
  BY <1>1 DEF Pending
<1>12. SaleIsHonest(s)'
  BY <1>6, <1>9, <1>10, <1>11 DEF SaleIsHonest
<1>13. sale' = [sale EXCEPT ![h] = s]
  BY <1>4, <1>8
<1>14. SalesAreHonest' /\ sale' \in [SaleHook -> SaleCall \cup {NoSale}]
  BY <1>6, <1>7, <1>12, <1>13, OneSale
<1> QED
  BY <1>2, <1>6, <1>14, MarketStep DEF SaleInv, TypeOK

\* WITHDRAWN is written where an annonce was taken down, and never over SOLD.
LEMMA WriteStatusesStep ==
    ASSUME SaleInv, NEW h \in SaleHook, WriteStatuses(h)
    PROVE  SaleInv'
<1>1. PICK k \in SaleCall : k = sale[h] /\ k.step = "retract" /\ SaleIsHonest(k)
  BY SaleType DEF WriteStatuses
<1>2. /\ UNCHANGED <<engineVars, annonce, job>> /\ UNCHANGED <<orders, deliveries, crashes>>
      /\ pub' = [pub EXCEPT ![k.l] =
                  [m \in Market |-> IF m \in k.ok \cup k.failed
                                    THEN Withdrawal(@[m], m \in k.ok)
                                    ELSE @[m]]]
      /\ sale' = [sale EXCEPT ![h] = NoSale] /\ answered' = answered \cup k.ids
  BY <1>1 DEF WriteStatuses, Reply200
<1>3. /\ sale \in [SaleHook -> SaleCall \cup {NoSale}] /\ answered' \subseteq Annonce
      /\ pub \in [Listing -> [Market -> PubRow \cup {NoPub}]]
  BY <1>2 DEF SaleInv, TypeOK, PublicationTypeOK, SaleCall
<1>4. k.l \in Listing
  BY DEF SaleCall
<1>5. \A row \in PubRow, ok \in BOOLEAN :
         /\ Withdrawal(row, ok) \in PubRow
         /\ Withdrawal(row, ok).externalId = row.externalId
         /\ Withdrawal(row, ok).status \in
              {row.status, "WITHDRAW_FAILED"} \cup IF ok THEN {"WITHDRAWN"} ELSE {}
  BY DEF Withdrawal, PubRow, PubStatus
<1>6. ASSUME NEW m \in Market, m \in k.ok \cup k.failed
      PROVE  /\ pub[k.l][m] \in PubRow /\ pub[k.l][m] # NoPub
             /\ m \in k.ok => Past(k.l, m) \cap {"sold", "down"} # {}
  <2>1. /\ k.seen[m] # NoAnnonce /\ NamesComplete(k.seen[m], k.l, m) /\ pub[k.l][m] # NoPub
        /\ m \in k.ok => annonce[k.seen[m]].state \in {"sold", "down"}
    BY <1>1, <1>6 DEF SaleIsHonest
  <2>2. annonce[k.seen[m]].state \in Past(k.l, m)
    BY <2>1, InPast DEF NamesComplete
  <2> QED
    BY <1>3, <1>4, <2>1, <2>2
<1>7. ASSUME NEW l \in Listing, NEW m \in Market
      PROVE  /\ pub'[l][m] = IF l = k.l /\ m \in k.ok \cup k.failed
                             THEN Withdrawal(pub[l][m], m \in k.ok) ELSE pub[l][m]
             /\ pub'[l][m] \in PubRow \cup {NoPub}
             /\ pub'[l][m] # NoPub <=> pub[l][m] # NoPub
             /\ pub[l][m] # NoPub =>
                  /\ pub'[l][m].externalId = pub[l][m].externalId
                  /\ \/ pub'[l][m].status \in {pub[l][m].status, "WITHDRAW_FAILED"}
                     \/ pub'[l][m].status = "SOLD" /\ "sold" \in Past(l, m)
                     \/ /\ pub'[l][m].status = "WITHDRAWN"
                        /\ Past(l, m) \cap {"sold", "down"} # {}
  <2>1. pub'[l][m] = IF l = k.l /\ m \in k.ok \cup k.failed
                     THEN Withdrawal(pub[l][m], m \in k.ok) ELSE pub[l][m]
    BY <1>2, <1>3, <1>4
  <2>2. CASE l = k.l /\ m \in k.ok \cup k.failed
    <3>1. /\ pub[l][m] \in PubRow /\ pub[l][m] # NoPub
          /\ m \in k.ok => Past(l, m) \cap {"sold", "down"} # {}
      BY <1>6, <2>2
    <3>2. (m \in k.ok) \in BOOLEAN
      OBVIOUS
    <3>3. PICK ok \in BOOLEAN : ok <=> m \in k.ok
      BY <3>2
    <3>4. Withdrawal(pub[l][m], m \in k.ok) = Withdrawal(pub[l][m], ok)
      BY <3>3 DEF Withdrawal
    <3>5. pub'[l][m] \in PubRow /\ pub'[l][m] # NoPub
      BY <1>5, <2>1, <2>2, <3>1, <3>4, NoJobAssumption
    <3> QED
      BY <1>5, <2>1, <2>2, <3>1, <3>3, <3>4, <3>5
  <2>3. CASE ~(l = k.l /\ m \in k.ok \cup k.failed)
    BY <1>3, <2>1, <2>3
  <2> QED
    BY <2>1, <2>2, <2>3
<1>8. pub' \in [Listing -> [Market -> PubRow \cup {NoPub}]]
  BY <1>2, <1>3, <1>4, <1>7
<1>9. /\ EngineTypeOK' /\ PublicationTypeOK' /\ PriceIsSet' /\ ListedSomewhere'
      /\ JobsAreHonest' /\ JobsShareNothing' /\ RowsAreComplete' /\ RowsTellTheTruth'
      /\ OrdersAreSold' /\ Grows /\ RowsLast
  BY <1>2, <1>7, <1>8, RowsAreRewritten
<1>10. SalesAreHonest' /\ sale' \in [SaleHook -> SaleCall \cup {NoSale}]
  <2>1. PICK s \in SaleCall \cup {NoSale} : s = NoSale
    OBVIOUS
  <2>2. sale' = [sale EXCEPT ![h] = s] /\ (s # NoSale => SaleIsHonest(s)')
    BY <1>2, <2>1
  <2> QED
    BY <1>9, <2>2, OneSale
<1> QED
  BY <1>2, <1>3, <1>9, <1>10 DEF SaleInv, TypeOK

\* A restart forgets the requests, and nothing that is written.
LEMMA CrashStep ==
    ASSUME SaleInv, Crash
    PROVE  SaleInv'
<1>1. /\ crashes' = crashes + 1 /\ call' = [r \in Request |-> NoCall]
      /\ job' = [p \in Publisher |-> NoJob] /\ sale' = [h \in SaleHook |-> NoSale]
      /\ UNCHANGED <<annonce, pub>> /\ UNCHANGED <<orders, answered, deliveries>>
      /\ UNCHANGED <<walletVars, month, rowVars>>
  BY DEF Crash
<1>2. Grows /\ RowsLast
  BY <1>1, StillAnnonces DEF RowsLast
<1>3. EngineTypeOK'
  BY <1>1 DEF SaleInv, TypeOK, EngineTypeOK, WalletTypeOK, walletVars, rowVars
<1>4. TypeOK'
  BY <1>1, <1>3 DEF SaleInv, TypeOK, PublicationTypeOK
<1>5. JobsAreHonest' /\ JobsShareNothing' /\ SalesAreHonest'
  BY <1>1 DEF JobsAreHonest, JobsShareNothing, SalesAreHonest
<1>6. PriceIsSet' /\ ListedSomewhere'
  BY <1>1 DEF SaleInv, PriceIsSet, ListedSomewhere, rowVars
<1> QED
  BY <1>1, <1>2, <1>4, <1>5, <1>6, HeldStaysHonest DEF SaleInv

-----------------------------------------------------------------------------
(* The invariant.                                                           *)

LEMMA InitSaleInv == Init => SaleInv
<1> SUFFICES ASSUME Init
             PROVE  SaleInv
  OBVIOUS
<1> USE DEF Init, EngineInit, PublicationInit
<1>1. EngineTypeOK /\ PriceIsSet
  <2>1. PICK old \in SUBSET Legacy :
          /\ debit = [l \in Listing |-> IF l \in old
                                        THEN [source |-> "FREE_CREDIT", amount |-> 0]
                                        ELSE NoRow]
          /\ status = [l \in Listing |-> IF l \in old THEN "USER_VALIDATED" ELSE "NO_ROW"]
          /\ source = [l \in Listing |-> IF l \in old THEN "FREE_CREDIT" ELSE "BLOCKED"]
          /\ prixPublie \in [Listing -> {NoPrix} \cup Prix]
          /\ \A l \in Listing : prixPublie[l] = NoPrix <=> l \notin old
          /\ isPriceFlagged = [l \in Listing |-> l \in old /\ PriceFlagged(prixPublie[l])]
    OBVIOUS
  <2>2. isPriceFlagged \in [Listing -> BOOLEAN]
    BY <2>1 DEF PriceFlagged
  <2>3. WalletTypeOK
    <3>1. \A l \in Listing : debit[l] \in LedgerRow \cup {NoRow}
      BY <2>1
    <3>2. debit \in [Listing -> LedgerRow \cup {NoRow}]
      BY <2>1, <3>1
    <3>3. [balance |-> 0, free |-> FreeMonthly, resetAt |-> 1, lifetime |-> 0] \in WalletRow
      BY WalletAssumption
    <3> QED
      BY <3>2, <3>3 DEF WalletInit, WalletTypeOK
  <2>4. EngineTypeOK
    BY <2>1, <2>2, <2>3 DEF EngineTypeOK, ListingStatus
  <2>5. PriceIsSet
    BY <2>1 DEF PriceIsSet, Editable
  <2> QED
    BY <2>4, <2>5
<1>2. annonce \in Seq(Remote) /\ Len(annonce) <= MaxAnnonces
  BY EmptySeq, ConnectorAssumption
<1>3. TypeOK
  BY <1>1, <1>2 DEF TypeOK, PublicationTypeOK
<1>4. JobsAreHonest /\ JobsShareNothing /\ SalesAreHonest
  BY DEF JobsAreHonest, JobsShareNothing, SalesAreHonest
<1>5. RowsAreComplete /\ RowsTellTheTruth /\ OrdersAreSold
  BY DEF RowsAreComplete, RowsTellTheTruth, OrdersAreSold
<1>6. ListedSomewhere
  BY DEF ListedSomewhere
<1> QED
  BY <1>1, <1>3, <1>4, <1>5, <1>6 DEF SaleInv

LEMMA NextSaleInv == SaleInv /\ [Next]_vars => SaleInv'
<1> SUFFICES ASSUME SaleInv, [Next]_vars
             PROVE  SaleInv'
  OBVIOUS
<1>1. CASE \/ \E l \in Listing : RouteStep(l) /\ UNCHANGED <<publicationVars, saleVars>>
           \/ \E r \in Request : /\ StartCall(r) \/ CallStep(r)
                                 /\ UNCHANGED <<publicationVars, saleVars>>
  <2>1. EngineStep
    BY <1>1, EngineSteps DEF SaleInv, TypeOK
  <2> QED
    BY <1>1, <2>1, EngineKeeps
<1>2. CASE \E p \in Publisher, l \in Listing, targets \in SUBSET Market :
              StartPublish(p, l, targets) /\ UNCHANGED saleVars
  BY <1>2, StartPublishStep
<1>3. CASE \E p \in Publisher : PublishStep(p) /\ UNCHANGED saleVars
  BY <1>3, GiveUpStep, ConnectorCallsStep, AllSettledStep, SaveNextStep, FinishPublishStep,
     FailStep DEF PublishStep
<1>4. CASE \E order \in (SUBSET DOMAIN annonce) \ {{}} : Buy(order)
  BY <1>4, BuyStep
<1>5. CASE \E h \in SaleHook, a \in Annonce : DeliverSale(h, a)
  BY <1>5, DeliverSaleStep
<1>6. CASE \E h \in SaleHook : SaleStep(h)
  BY <1>6, FindPublicationStep, MarkSoldStep, ReadSiblingsStep, RetractSettlesStep,
     WriteStatusesStep DEF SaleStep
<1>7. CASE Crash
  BY <1>7, CrashStep
<1>8. CASE UNCHANGED vars
  <2>1. UNCHANGED <<engineVars, publicationVars, saleVars>>
    BY <1>8 DEF vars
  <2>2. UNCHANGED <<walletVars, month, rowVars, call>>
    BY <2>1 DEF engineVars
  <2>3. EngineStep
    BY <2>2 DEF EngineStep, SaleInv, TypeOK, EngineTypeOK, WalletTypeOK, PriceIsSet,
                walletVars, rowVars
  <2> QED
    BY <2>1, <2>3, EngineKeeps
<1> QED
  BY <1>1, <1>2, <1>3, <1>4, <1>5, <1>6, <1>7, <1>8 DEF Next

\* SaleInv is an invariant of the closed system of publication and sale: no
\* order of the routes, the publications, the purchases, the deliveries and the
\* restarts breaks it.
THEOREM SaleInvariant == Spec => []SaleInv
  BY InitSaleInv, NextSaleInv, PTL DEF Spec

\* Type correctness: every variable of the engine, of the publications and of
\* the deliveries keeps its type; a publication never runs without a price.
THEOREM SaleTypeCorrect == Spec => []TypeOK
  BY SaleInvariant, PTL DEF SaleInv

\* The Jeton Global rule of publication.service.ts: a listing shown as published
\* has the row of some marketplace, and a publication that comes to write
\* PUBLISHED has succeeded somewhere and finds a row wherever it succeeded.
THEOREM PublishedHasARow == Spec => []PublishedIsBacked
<1>1. SaleInv => PublishedIsBacked
  BY DEF SaleInv, JobsAreHonest, JobIsHonest, PublishedIsBacked, PublishingAt
<1> QED
  BY <1>1, SaleInvariant, PTL

\* webhook.ts: a row is SOLD only where some annonce the listing has had on that
\* marketplace was bought, and WITHDRAWN only where one of them is off line (not
\* necessarily the annonce the row names today).
THEOREM RowsAreTrue == Spec => []RowsTellTheTruth
  BY SaleInvariant, PTL DEF SaleInv

\* A row always names an annonce of its listing, on its marketplace, that got
\* every call of its connector.
THEOREM RowsAreOnLine == Spec => []RowsNameCompleteAnnonces
<1>1. SaleInv => RowsNameCompleteAnnonces
  BY DEF SaleInv, RowsAreComplete, NamesComplete, Names, RowsNameCompleteAnnonces
<1> QED
  BY <1>1, SaleInvariant, PTL

\* A step never takes a row out of SOLD.
LEMMA SoldStays ==
    ASSUME SaleInv, [Next]_vars, NEW l \in Listing, NEW m \in Market,
           pub[l][m] # NoPub, pub[l][m].status = "SOLD"
    PROVE  pub'[l][m] # NoPub /\ pub'[l][m].status = "SOLD"
<1>1. pub \in [Listing -> [Market -> PubRow \cup {NoPub}]] /\ pub[l][m] \in PubRow
  BY DEF SaleInv, TypeOK, PublicationTypeOK
<1>2. CASE \E p \in Publisher : SaveNext(p)
  <2>1. PICK p \in Publisher : SaveNext(p)
    BY <1>2
  <2>2. PICK k \in Job : k = job[p] /\ k.step = "save" /\ JobIsHonest(k)
    BY <2>1, JobType DEF SaveNext
  <2>3. PICK n \in Market :
          n \in k.todo /\ pub' = [pub EXCEPT ![k.l][n] = Upsert(@, k.got[n])]
    BY <2>1, <2>2 DEF SaveNext, Job
  <2>4. k.got[n] \in Annonce
    BY <2>2, <2>3 DEF JobIsHonest, Successes, Job
  <2>5. Upsert(pub[l][m], k.got[n]) = [pub[l][m] EXCEPT !.externalId = k.got[n]]
    BY DEF Upsert
  <2>6. pub'[l][m] \in {pub[l][m], [pub[l][m] EXCEPT !.externalId = k.got[n]]}
    BY <1>1, <2>3, <2>5 DEF Job
  <2> QED
    BY <1>1, <2>4, <2>6, NoJobAssumption DEF PubRow
<1>3. CASE \E h \in SaleHook : MarkSold(h)
  <2>1. PICK h \in SaleHook : MarkSold(h)
    BY <1>3
  <2>2. pub'[l][m] \in {pub[l][m], [pub[l][m] EXCEPT !.status = "SOLD"]}
    BY <1>1, <2>1, SaleType DEF MarkSold, SaleCall
  <2> QED
    BY <1>1, <2>2, NoJobAssumption DEF PubRow, PubStatus
<1>4. CASE \E h \in SaleHook : WriteStatuses(h)
  <2>1. PICK h \in SaleHook : WriteStatuses(h)
    BY <1>4
  <2>2. Withdrawal(pub[l][m], TRUE) = pub[l][m] /\ Withdrawal(pub[l][m], FALSE) = pub[l][m]
    BY DEF Withdrawal
  <2>3. pub'[l][m] \in {pub[l][m], Withdrawal(pub[l][m], m \in sale[h].ok)}
    BY <1>1, <2>1, SaleType DEF WriteStatuses, SaleCall
  <2> QED
    BY <2>2, <2>3 DEF Withdrawal
<1>5. CASE UNCHANGED pub
  BY <1>5
<1> QED
  BY <1>2, <1>3, <1>4, <1>5
  DEF Next, vars, publicationVars, StartPublish, PublishStep, NotEligible, ConnectorRefuses,
      ConnectorCalls, AllSettled, FinishPublish, Fail, EndPublish, Buy, DeliverSale, SaleStep,
      FindPublication, ReadSiblings, RetractSettles, Crash

\* webhook.ts, "set-once, jamais retrograde": a sale is never forgotten, by a
\* withdrawal that settles late, a republication, a redelivery or a restart.
THEOREM SoldIsForever == Spec => SoldIsFinal
<1>1. SaleInv /\ [Next]_vars =>
        [\A l \in Listing, m \in Market :
           pub[l][m] # NoPub /\ pub[l][m].status = "SOLD"
              => pub'[l][m] # NoPub /\ pub'[l][m].status = "SOLD"]_vars
  BY SoldStays
<1> QED
  BY <1>1, SaleInvariant, PTL DEF Spec, SoldIsFinal

=============================================================================
