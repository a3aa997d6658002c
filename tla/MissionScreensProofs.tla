------------------------- MODULE MissionScreensProofs -------------------------
(***************************************************************************)
(* Proofs about the screens of a mission, for any mandates, amounts,       *)
(* buyers, calls under way, size of the page and bounds.                   *)
(*                                                                         *)
(* What a screen shows is old.  What is proved is how old it may be: a row *)
(* that was sold or stopped when it was read is still sold, at the same    *)
(* price, or stopped (Frozen); the events read after it hold the sale      *)
(* (Told); and while the seller waits for the answers, the offer that the  *)
(* sheet has read is pending, or nothing can be sold any more (Patient).   *)
(***************************************************************************)
EXTENDS MissionScreens, FiniteSetTheorems, WellFoundedInduction, TLAPS

SoldStatus == {"VENDU", "MISSION_TERMINEE"}
Over == {"ARRETEE", "EXPIREE", "MISSION_TERMINEE"}

-----------------------------------------------------------------------------
(* The types. *)

Shown == [row : MissionRow, version : Nat, events : Seq(Event)]

Resource(r) ==
    /\ r = [data |-> r.data, fetches |-> r.fetches]
    /\ r.data \in Shown \cup {Null} /\ (r.data # Null => r.data.events # Null)
    /\ \/ r.fetches = <<>>
       \/ /\ r.fetches = <<r.fetches[1]>> /\ r.fetches[1] \in Fetch
          /\ r.fetches[1].row = Null => r.fetches[1].events = Null

DashCall == [op : {"SUSPEND", "RESUME", "STOP"}, from : {"dash"}, mine : BOOLEAN,
             amount : {Null}, answer : {"waiting"} \cup Answer]
SheetCall == [op : {"ACCEPT", "CLOSE"}, from : {"sheet"}, mine : BOOLEAN,
              amount : Amount \cup {Null}, answer : {"waiting"} \cup Answer]

Stacks == {<<>>, <<"dash">>, <<"dash", "sheet">>, <<"dash", "recap">>, <<"recap">>}

Late == [kind : {"FINALIZE", "SUSPEND", "RESUME", "STOP", "ACCEPT", "CLOSE"}]

ServerType ==
    /\ row \in MissionRow /\ timeline \in Seq(Event) /\ version \in Nat

PhoneType ==
    /\ stack \in Stacks
    /\ res = [s \in Screen |-> res[s]]
    /\ call \in [Slot -> {NoCall} \cup DashCall \cup SheetCall]
    /\ late \subseteq Late /\ hurried \in BOOLEAN

-----------------------------------------------------------------------------
(* The row and its timeline: one event tells the sale, once there is one. *)

RowTells(r, events) ==
    /\ r.sold # Null <=> r.status \in SoldStatus
    /\ r.sold = Null => \A i \in 1 .. Len(events) : ~IsSale(events[i])
    /\ r.sold # Null
          => \E k \in 1 .. Len(events) :
                /\ events[k].amount = r.sold
                /\ \A i \in 1 .. Len(events) : IsSale(events[i]) <=> i = k

-----------------------------------------------------------------------------
(* What has been read is older than the row, and no older than what is shown. *)

Reading(r) == r.fetches # <<>> /\ r.fetches[1].row # Null

VersionsGrow(r) ==
    /\ r.data # Null => r.data.version <= version
    /\ Reading(r) => r.fetches[1].version <= version
    /\ Reading(r) /\ r.data # Null => r.data.version <= r.fetches[1].version

-----------------------------------------------------------------------------
(* What the report has read. *)

Frozen(r) ==
    /\ r.sold # Null <=> r.status \in SoldStatus
    /\ r.sold # Null => row.sold = r.sold
    /\ r.status = "ARRETEE" => row.status = "ARRETEE"

IsPage(page, n) ==
    /\ Len(page) = IF n < Page THEN n ELSE Page
    /\ \A j \in 1 .. Len(page) : page[j] = timeline[(n - j) + 1]

Told(f) ==
    f.events # Null
       => \E n \in 0 .. Len(timeline) :
             /\ IsPage(f.events, n)
             /\ f.row.sold # Null => \E k \in 1 .. n : IsSale(timeline[k])

-----------------------------------------------------------------------------
(* What the sheet has read: as long as the seller waits for the answers, it *)
(* is still there, or nothing can be sold any more.                         *)

Waits(r) ==
    \/ r.status = "EN_ATTENTE_VALIDATION"
    \/ r.status = "SUSPENDUE" /\ r.preSuspend = "EN_ATTENTE_VALIDATION"

Closed(r) == r.status \in Over \cup SoldStatus

StillThere(a) ==
    \/ Waits(row) /\ row.reason \in OfferReason /\ row.offer = a
    \/ Closed(row)

JustClosed == \E c \in Slot : call[c].op = "CLOSE" /\ call[c].answer = "ok"

Current(r) ==
    ~hurried /\ r.status = "EN_ATTENTE_VALIDATION" /\ r.reason \in OfferReason
       => StillThere(r.offer) \/ JustClosed

-----------------------------------------------------------------------------
(* The invariant. *)

HasRead(r, f) ==
    \/ f = r.data /\ r.data # Null
    \/ Reading(r) /\ f = r.fetches[1]

Sound(s, r) ==
    /\ Resource(r)
    /\ VersionsGrow(r)
    /\ \A f : HasRead(r, f)
          => /\ s = "recap" => Frozen(f.row) /\ Told(f)
             /\ s = "sheet" => Current(f.row)

\* A call that a screen waits for: that screen is there, and shows a row.
MineIsMounted ==
    \A c \in Slot : call[c].mine
       => call[c].from \in Range(stack) /\ res[call[c].from].data # Null

Patient ==
    /\ late \subseteq {[kind |-> "FINALIZE"]}
    /\ \A c \in Slot : call[c] = NoCall \/ call[c].mine
    /\ \A c, d \in Slot : call[c].from = "sheet" /\ call[d].from = "sheet" => c = d
    /\ \A c \in Slot : call[c].op = "ACCEPT" /\ call[c].answer = "waiting"
          => StillThere(call[c].amount)

ScreensInv ==
    /\ ServerType /\ RowTells(row, timeline)
    /\ PhoneType
    /\ \A s \in Screen : Sound(s, res[s])
    /\ MineIsMounted
    /\ ~hurried => Patient

-----------------------------------------------------------------------------
(* The server: what each operation plans. *)

IsPatch(p) ==
    /\ "status" \in DOMAIN p /\ p.status \in Status
    /\ "mandate" \notin DOMAIN p /\ "buyers" \notin DOMAIN p
    /\ "best" \in DOMAIN p => p.best \in Amount \cup {Null}
    /\ "reason" \in DOMAIN p => p.reason \in Reason \cup {Null}
    /\ "offer" \in DOMAIN p => p.offer \in Amount \cup {Null}
    /\ "buyer" \in DOMAIN p => p.buyer \in Buyer \cup {Null}
    /\ "sold" \in DOMAIN p => p.sold \in Amount
    /\ "preSuspend" \in DOMAIN p => p.preSuspend \in Status \cup {Null}

SellsNothing(p, entries, r) ==
    /\ "sold" \notin DOMAIN p
    /\ p.status \in SoldStatus <=> r.status \in SoldStatus
    /\ entries = {} \/ \E e \in Event : entries = {e} /\ ~IsSale(e)

Sells(p, entries, r) ==
    /\ p.status = "VENDU" /\ r.status \notin SoldStatus
    /\ "sold" \in DOMAIN p
    /\ \E e \in Event : entries = {e} /\ IsSale(e) /\ e.amount = p.sold

\* The row that waits for the seller goes on waiting for the same offer.
KeepsWaiting(p, r) ==
    /\ "offer" \notin DOMAIN p /\ "reason" \notin DOMAIN p
    /\ \/ p.status = "EN_ATTENTE_VALIDATION"
       \/ /\ p.status = "SUSPENDUE"
          /\ IF "preSuspend" \in DOMAIN p THEN p.preSuspend = "EN_ATTENTE_VALIDATION"
             ELSE r.preSuspend = "EN_ATTENTE_VALIDATION"

PlanIsSound(plan, r, kind) ==
    /\ IsPatch(plan.patch)
    /\ SellsNothing(plan.patch, plan.entries, r) \/ Sells(plan.patch, plan.entries, r)
    /\ r.status \in Over => plan.patch.status = r.status
    /\ Waits(r) /\ kind # "CLOSE"
          => plan.patch.status \in SoldStatus \cup Over \/ KeepsWaiting(plan.patch, r)
    /\ kind = "ACCEPT"
          => /\ r.status = "EN_ATTENTE_VALIDATION" /\ r.reason \in OfferReason
             /\ "sold" \in DOMAIN plan.patch /\ plan.patch.sold = r.offer

LEMMA AfterFacts ==
    ASSUME NEW from, NEW event, NEW to \in After(from, event)
    PROVE  /\ to \in Status
           /\ from \notin Over
           /\ from = "SUSPENDUE" => FALSE
           /\ event \in {"SALE_CONFIRMED"} => to = "VENDU" /\ from # "VENDU"
           /\ event = "MISSION_FINALIZED" => to = "MISSION_TERMINEE" /\ from = "VENDU"
           /\ event \in {"BUYER_MESSAGE", "VALIDATION_REQUIRED", "SUSPENDED", "STOPPED",
                         "VALIDATION_RESOLVED"}
                 => from \notin SoldStatus /\ to \notin SoldStatus
           /\ event = "VALIDATION_REQUIRED" => from # "EN_ATTENTE_VALIDATION"
           /\ event = "SUSPENDED" => to = "SUSPENDUE"
           /\ event = "STOPPED" => to = "ARRETEE"
           /\ event = "BUYER_MESSAGE" => from = "EN_VENTE" /\ to = "NEGOCIATION_ACTIVE"
BY DEF After, Transitions, Resumable, Stoppable, Expirable, Over, SoldStatus, Status

LEMMA RowFacts ==
    ASSUME NEW r \in MissionRow
    PROVE  /\ r.status \in Status /\ r.buyer \in Buyer \cup {Null} /\ r.offer \in Amount \cup {Null}
           /\ r.best \in Amount \cup {Null} /\ r.preSuspend \in Status \cup {Null}
           /\ r.sold \in Amount \cup {Null} /\ r.reason \in Reason \cup {Null}
BY DEF MissionRow

LEMMA ContactIsQuiet ==
    ASSUME NEW b \in Buyer \cup {Null}
    PROVE  Contact(b) \in Event /\ ~IsSale(Contact(b))
BY DEF Contact, Event, IsSale

LEMMA SuspendIsSound ==
    ASSUME NEW r \in MissionRow, NEW plan \in Suspend(r)
    PROVE  PlanIsSound(plan, r, "SUSPEND")
<1>1. PICK to \in After(r.status, "SUSPENDED") :
         plan = Plan([status |-> to, preSuspend |-> r.status], {}, Null)
  BY DEF Suspend
<1>2. IsPatch(plan.patch)
  BY <1>1, AfterFacts, RowFacts DEF Plan, IsPatch
<1>3. to = "SUSPENDUE" /\ r.status \notin SoldStatus \cup Over /\ r.status # "SUSPENDUE"
  BY AfterFacts
<1> QED
  BY <1>1, <1>2, <1>3 DEF Plan, PlanIsSound, SellsNothing, KeepsWaiting, Waits, SoldStatus

LEMMA ResumeIsSound ==
    ASSUME NEW r \in MissionRow, NEW plan \in Resume(r)
    PROVE  PlanIsSound(plan, r, "RESUME")
<1>1. PICK to \in Resumable :
         /\ to = r.preSuspend /\ r.status = "SUSPENDUE"
         /\ plan = Plan([status |-> to, preSuspend |-> Null], {}, Null)
  BY DEF Resume
<1>2. IsPatch(plan.patch)
  BY <1>1 DEF Plan, IsPatch, Resumable, Status
<1> QED
  BY <1>1, <1>2 DEF Plan, PlanIsSound, SellsNothing, KeepsWaiting, Waits, SoldStatus, Over, Resumable

LEMMA StopIsSound ==
    ASSUME NEW r \in MissionRow, NEW plan \in Stop(r)
    PROVE  PlanIsSound(plan, r, "STOP")
<1>1. PICK to \in After(r.status, "STOPPED") : plan = Plan([status |-> to], {}, Null)
  BY DEF Stop
<1>2. IsPatch(plan.patch)
  BY <1>1, AfterFacts DEF Plan, IsPatch
<1>3. to = "ARRETEE" /\ r.status \notin SoldStatus \cup Over
  BY AfterFacts
<1> QED
  BY <1>1, <1>2, <1>3 DEF Plan, PlanIsSound, SellsNothing, SoldStatus, Over

LEMMA FinalizeIsSound ==
    ASSUME NEW r \in MissionRow, NEW plan \in Finalize(r)
    PROVE  PlanIsSound(plan, r, "FINALIZE")
<1>1. PICK to \in After(r.status, "MISSION_FINALIZED") :
         plan = Plan([status |-> to], {Ending("MISSION_FINALIZED")}, Null)
  BY DEF Finalize
<1>2. IsPatch(plan.patch)
  BY <1>1, AfterFacts DEF Plan, IsPatch
<1>3. to = "MISSION_TERMINEE" /\ r.status = "VENDU"
  BY AfterFacts
<1>4. Ending("MISSION_FINALIZED") \in Event /\ ~IsSale(Ending("MISSION_FINALIZED"))
  BY DEF Ending, Entry, Event, IsSale
<1> QED
  BY <1>1, <1>2, <1>3, <1>4 DEF Plan, PlanIsSound, SellsNothing, SoldStatus, Over

LEMMA CloseIsSound ==
    ASSUME NEW r \in MissionRow, NEW plan \in CloseValidation(r)
    PROVE  PlanIsSound(plan, r, "CLOSE")
<1>1. PICK to \in After(r.status, "VALIDATION_RESOLVED") :
         plan = Plan([status |-> to, reason |-> Null, offer |-> Null, buyer |-> Null],
                     {Contact(r.buyer)}, Null)
  BY DEF CloseValidation
<1>2. IsPatch(plan.patch)
  BY <1>1, AfterFacts DEF Plan, IsPatch
<1>3. to \notin SoldStatus /\ r.status \notin SoldStatus \cup Over
  BY AfterFacts
<1>4. \E e \in Event : plan.entries = {e} /\ ~IsSale(e)
  BY <1>1, ContactIsQuiet, RowFacts DEF Plan
<1> QED
  BY <1>1, <1>2, <1>3, <1>4 DEF Plan, PlanIsSound, SellsNothing

LEMMA BestIsAnAmount ==
    ASSUME NEW r \in MissionRow, NEW a \in Amount
    PROVE  BestOf(r, a) \in Amount
BY DEF BestOf, MissionRow

LEMMA AcceptIsSound ==
    ASSUME NEW r \in MissionRow, NEW plan \in AcceptOffer(r)
    PROVE  PlanIsSound(plan, r, "ACCEPT")
<1> DEFINE patch(to) == [status |-> to, sold |-> r.offer, best |-> BestOf(r, r.offer),
                         reason |-> Null, offer |-> Null, buyer |-> Null]
           entry == Entry("SALE_CONFIRMED", r.buyer, r.offer)
<1>1. PICK to \in After(r.status, "SALE_CONFIRMED") :
         /\ r.status = "EN_ATTENTE_VALIDATION" /\ r.reason \in OfferReason /\ r.offer # Null
         /\ plan = Plan(patch(to), {entry}, "SOLD")
  BY DEF AcceptOffer
<1>2. r.offer \in Amount /\ r.buyer \in Buyer \cup {Null} /\ BestOf(r, r.offer) \in Amount
  BY <1>1, BestIsAnAmount, RowFacts
<1>3. IsPatch(patch(to)) /\ to = "VENDU"
  BY <1>2, AfterFacts DEF IsPatch
<1>4. entry \in Event /\ IsSale(entry) /\ entry.amount = r.offer
  BY <1>2 DEF Entry, Event, IsSale
<1>5. Sells(patch(to), {entry}, r)
  BY <1>1, <1>3, <1>4 DEF Sells, SoldStatus
<1> QED
  BY <1>1, <1>3, <1>5 DEF Plan, PlanIsSound, SoldStatus, Over

LEMMA DecisionFacts ==
    ASSUME NEW mandate, NEW m \in Message
    PROVE  LET action == DecideNegotiation(mandate, m)
           IN \/ action = Reply
              \/ action = Accept /\ m.kind = "OFFER"
              \/ m.kind = "OFFER" /\ \E reason \in OfferReason : action = Ask(reason)
              \/ m.kind # "OFFER" /\ \E reason \in Reason \ OfferReason : action = Ask(reason)
<1>1. CASE m.kind = "OFFER"
  BY <1>1 DEF DecideNegotiation, DecideOffer, OfferReason
<1>2. CASE m.kind = "OFF_PLATFORM_PAYMENT"
  BY <1>2 DEF DecideNegotiation, Reason, OfferReason
<1>3. CASE m.kind = "COMPLEX_CASE"
  BY <1>3 DEF DecideNegotiation, Reason, OfferReason
<1>4. CASE m.kind \in {"QUESTION", "DELIVERY_REQUEST"}
  BY <1>4 DEF DecideNegotiation
<1> QED BY <1>1, <1>2, <1>3, <1>4 DEF Message

LEMMA MessageFacts ==
    ASSUME NEW m \in Message
    PROVE  m.buyer \in Buyer /\ (m.kind = "OFFER" => m.amount \in Amount)
BY DEF Message

LEMMA AwakeFacts ==
    ASSUME NEW r \in MissionRow, NEW to \in Awake(r)
    PROVE  /\ to \in Status
           /\ to \in SoldStatus <=> r.status \in SoldStatus
           /\ r.status # "EN_VENTE" => to = r.status
           /\ r.status = "EN_VENTE" => to = "NEGOCIATION_ACTIVE"
<1>1. CASE r.status = "EN_VENTE"
  BY <1>1, AfterFacts DEF Awake, SoldStatus
<1>2. CASE r.status # "EN_VENTE"
  BY <1>2, RowFacts DEF Awake
<1> QED BY <1>1, <1>2

\* The status an offer or an alert leads to, by way of the first awakening.
LEMMA AwakenedFacts ==
    ASSUME NEW r \in MissionRow, NEW event \in {"SALE_CONFIRMED", "VALIDATION_REQUIRED"},
           NEW to \in UNION {After(s, event) : s \in Awake(r)}
    PROVE  /\ to \in Status
           /\ r.status \notin SoldStatus \cup Over /\ r.status # "SUSPENDUE"
           /\ event = "SALE_CONFIRMED" => to = "VENDU"
           /\ event = "VALIDATION_REQUIRED"
                 => to \notin SoldStatus /\ r.status # "EN_ATTENTE_VALIDATION"
<1> PICK s \in Awake(r) : to \in After(s, event)
  OBVIOUS
<1>1. s \notin SoldStatus \cup Over /\ s # "SUSPENDUE"
  BY AfterFacts DEF SoldStatus, Over
<1>2. r.status \notin SoldStatus \cup Over /\ r.status # "SUSPENDUE"
  BY <1>1, AwakeFacts DEF SoldStatus, Over
<1> QED BY <1>2, AwakeFacts, AfterFacts

LEMMA MessageIsSound ==
    ASSUME NEW r \in MissionRow, NEW m \in Message, NEW plan \in ApplyAction(r, m)
    PROVE  PlanIsSound(plan, r, "MESSAGE")
<1> DEFINE action == DecideNegotiation(r.mandate, m)
           sale   == UNION {After(s, "SALE_CONFIRMED") : s \in Awake(r)}
           asked  == UNION {After(s, "VALIDATION_REQUIRED") : s \in Awake(r)}
           best   == BestOf(r, m.amount)
<1>1. m.buyer \in Buyer
  BY MessageFacts
<1>2. CASE action = Reply
  <2>0. ApplyAction(r, m) = {Plan([status |-> to], {Contact(m.buyer)}, Null) : to \in Awake(r)}
    BY <1>2 DEF ApplyAction, Reply
  <2>1. PICK to \in Awake(r) : plan = Plan([status |-> to], {Contact(m.buyer)}, Null)
    BY <2>0
  <2>2. IsPatch(plan.patch) /\ \E e \in Event : plan.entries = {e} /\ ~IsSale(e)
    BY <1>1, <2>1, AwakeFacts, ContactIsQuiet DEF IsPatch, Plan
  <2> QED BY <2>1, <2>2, AwakeFacts
          DEF Plan, PlanIsSound, SellsNothing, KeepsWaiting, Waits, Over
<1>3. CASE action = Accept /\ m.kind = "OFFER"
  <2> DEFINE entry == Entry("AUTO_ACCEPT", m.buyer, m.amount)
             patch(to) == [status |-> to, sold |-> m.amount, best |-> best]
  <2>0. ApplyAction(r, m) = {Plan(patch(to), {entry}, "SOLD") : to \in sale}
    BY <1>3 DEF ApplyAction, Accept
  <2>1. PICK to \in sale : plan = Plan(patch(to), {entry}, "SOLD")
    BY <2>0
  <2>2. m.amount \in Amount /\ best \in Amount
    BY <1>3, MessageFacts, BestIsAnAmount
  <2>3. IsPatch(patch(to)) /\ to = "VENDU" /\ r.status \notin SoldStatus \cup Over
    BY <2>2, AwakenedFacts DEF IsPatch
  <2>4. entry \in Event /\ IsSale(entry) /\ entry.amount = m.amount
    BY <1>1, <2>2 DEF Entry, Event, IsSale
  <2> QED BY <2>1, <2>3, <2>4 DEF Plan, PlanIsSound, Sells, SoldStatus
<1>4. CASE m.kind = "OFFER" /\ \E reason \in OfferReason : action = Ask(reason)
  <2> PICK reason \in OfferReason : action = Ask(reason)
    BY <1>4
  <2> DEFINE entry == Entry("SUBMITTED", m.buyer, m.amount)
             patch(to) == [status |-> to, reason |-> reason, buyer |-> m.buyer,
                           offer |-> m.amount, best |-> best]
  <2>0. ApplyAction(r, m) = {Plan(patch(to), {entry}, "VALIDATION_REQUIRED") : to \in asked}
    BY <1>4 DEF ApplyAction, Ask
  <2>1. PICK to \in asked : plan = Plan(patch(to), {entry}, "VALIDATION_REQUIRED")
    BY <2>0
  <2>2. m.amount \in Amount /\ best \in Amount
    BY <1>4, MessageFacts, BestIsAnAmount
  <2>3. IsPatch(patch(to))
    BY <1>1, <2>2, AwakenedFacts DEF IsPatch, Reason
  <2>4. entry \in Event /\ ~IsSale(entry)
    BY <1>1, <2>2 DEF Entry, Event, IsSale
  <2> QED BY <2>1, <2>3, <2>4, AwakenedFacts DEF Plan, PlanIsSound, SellsNothing, Waits
<1>5. CASE m.kind # "OFFER" /\ \E reason \in Reason \ OfferReason : action = Ask(reason)
  <2> PICK reason \in Reason \ OfferReason : action = Ask(reason)
    BY <1>5
  <2> DEFINE patch(to) == [status |-> to, reason |-> reason, buyer |-> m.buyer]
  <2> DEFINE notify == IF reason = "SECURITY_ALERT" THEN "SECURITY_ALERT"
                       ELSE "VALIDATION_REQUIRED"
  <2>0. ApplyAction(r, m) = {Plan(patch(to), {Contact(m.buyer)}, notify) : to \in asked}
    BY <1>5 DEF ApplyAction, Ask
  <2>1. PICK to \in asked : plan = Plan(patch(to), {Contact(m.buyer)}, notify)
    BY <2>0
  <2>2. IsPatch(patch(to))
    BY <1>1, AwakenedFacts DEF IsPatch
  <2>3. \E e \in Event : {Contact(m.buyer)} = {e} /\ ~IsSale(e)
    BY <1>1, ContactIsQuiet
  <2> QED BY <2>1, <2>2, <2>3, AwakenedFacts DEF Plan, PlanIsSound, SellsNothing, Waits
<1> QED BY <1>2, <1>3, <1>4, <1>5, DecisionFacts

LEMMA PlansAreSound ==
    ASSUME NEW op \in Operation, NEW r \in MissionRow, NEW plan \in Plans(op, r)
    PROVE  PlanIsSound(plan, r, op.kind)
<1>1. CASE op.kind = "MESSAGE"
  BY <1>1, MessageIsSound DEF Plans, Operation
<1>2. CASE op.kind \in {"SUSPEND", "RESUME", "STOP"}
  BY <1>2, SuspendIsSound, ResumeIsSound, StopIsSound DEF Plans
<1>3. CASE op.kind \in {"FINALIZE", "READ", "ACCEPT", "CLOSE"}
  BY <1>3, FinalizeIsSound, AcceptIsSound, CloseIsSound DEF Plans
<1> QED BY <1>1, <1>2, <1>3 DEF Operation

-----------------------------------------------------------------------------
(* What a plan makes of the row and of the timeline. *)

Fields == {"status", "mandate", "buyers", "best", "reason", "offer", "buyer", "sold", "preSuspend"}

LEMMA PatchedIsRow ==
    ASSUME NEW r \in MissionRow, NEW p, IsPatch(p)
    PROVE  /\ Patched(r, p) \in MissionRow
           /\ Patched(r, p).status = p.status
           /\ Patched(r, p).sold = IF "sold" \in DOMAIN p THEN p.sold ELSE r.sold
           /\ Patched(r, p).offer = IF "offer" \in DOMAIN p THEN p.offer ELSE r.offer
           /\ Patched(r, p).reason = IF "reason" \in DOMAIN p THEN p.reason ELSE r.reason
           /\ Patched(r, p).preSuspend
                = IF "preSuspend" \in DOMAIN p THEN p.preSuspend ELSE r.preSuspend
<1>1. DOMAIN r = Fields
  BY DEF MissionRow, Fields
<1>2. Patched(r, p) = [f \in Fields |-> IF f \in DOMAIN p THEN p[f] ELSE r[f]]
  BY <1>1 DEF Patched
<1>3. Patched(r, p) = [status |-> p.status, mandate |-> r.mandate, buyers |-> r.buyers,
         best |-> IF "best" \in DOMAIN p THEN p.best ELSE r.best,
         reason |-> IF "reason" \in DOMAIN p THEN p.reason ELSE r.reason,
         offer |-> IF "offer" \in DOMAIN p THEN p.offer ELSE r.offer,
         buyer |-> IF "buyer" \in DOMAIN p THEN p.buyer ELSE r.buyer,
         sold |-> IF "sold" \in DOMAIN p THEN p.sold ELSE r.sold,
         preSuspend |-> IF "preSuspend" \in DOMAIN p THEN p.preSuspend ELSE r.preSuspend]
  BY <1>2 DEF Fields, IsPatch
<1> QED BY <1>3 DEF IsPatch, MissionRow

LEMMA EntriesInOrder ==
    /\ SetToSeq({}) = <<>>
    /\ \A e \in Event : SetToSeq({e}) = <<e>>
<1>1. SetToSeq({}) = <<>>
  <2>1. Cardinality({}) = 0
    BY FS_EmptySet
  <2>2. <<>> \in [1 .. 0 -> {}] /\ IsInjective(<<>>)
    BY DEF IsInjective
  <2>3. \A f \in [1 .. 0 -> {}] : f = <<>>
    OBVIOUS
  <2> QED
    BY <2>1, <2>2, <2>3 DEF SetToSeq
<1>2. ASSUME NEW e \in Event
      PROVE  SetToSeq({e}) = <<e>>
  <2>1. Cardinality({e}) = 1
    BY FS_Singleton
  <2>2. <<e>> \in [1 .. 1 -> {e}] /\ IsInjective(<<e>>)
    BY DEF IsInjective
  <2>3. \A f \in [1 .. 1 -> {e}] : f = <<e>>
    OBVIOUS
  <2> QED
    BY <2>1, <2>2, <2>3 DEF SetToSeq
<1> QED
  BY <1>1, <1>2

Grown(events, more) ==
    /\ Len(events) <= Len(more)
    /\ \A i \in 1 .. Len(events) : more[i] = events[i]

LEMMA TimelineGrows ==
    ASSUME NEW events \in Seq(Event), NEW entries,
           entries = {} \/ \E e \in Event : entries = {e}
    PROVE  LET more == events \o SetToSeq(entries)
           IN /\ more \in Seq(Event) /\ Grown(events, more)
              /\ entries = {} => more = events
              /\ \A e \in Event : entries = {e}
                    => Len(more) = Len(events) + 1 /\ more[Len(more)] = e
<1>1. CASE entries = {}
  <2>1. SetToSeq(entries) = <<>> /\ ~(\E e \in Event : entries = {e})
    BY <1>1, EntriesInOrder
  <2>2. events \o <<>> = events /\ Grown(events, events)
    BY DEF Grown
  <2> QED BY <1>1, <2>1, <2>2
<1>2. ASSUME NEW e \in Event, entries = {e}
      PROVE  LET more == events \o SetToSeq(entries)
             IN /\ more \in Seq(Event) /\ Grown(events, more)
                /\ Len(more) = Len(events) + 1 /\ more[Len(more)] = e
  <2>1. SetToSeq(entries) = <<e>>
    BY <1>2, EntriesInOrder
  <2>2. LET more == events \o <<e>>
        IN /\ more \in Seq(Event) /\ Grown(events, more)
           /\ Len(more) = Len(events) + 1 /\ more[Len(more)] = e
    BY DEF Grown
  <2> QED BY <2>1, <2>2
<1> QED BY <1>1, <1>2

LEMMA PlanTells ==
    ASSUME NEW r \in MissionRow, NEW events \in Seq(Event), RowTells(r, events),
           NEW plan, NEW kind, PlanIsSound(plan, r, kind)
    PROVE  RowTells(Patched(r, plan.patch), events \o SetToSeq(plan.entries))
<1> DEFINE p == plan.patch
           next == Patched(r, p)
           more == events \o SetToSeq(plan.entries)
<1>0. Null \notin Amount
  BY ScreensAssumption
<1>1. /\ next \in MissionRow /\ next.status = p.status
      /\ next.sold = IF "sold" \in DOMAIN p THEN p.sold ELSE r.sold
      /\ "sold" \in DOMAIN p => p.sold \in Amount
  BY PatchedIsRow DEF PlanIsSound, IsPatch
<1>2. CASE SellsNothing(p, plan.entries, r)
  <2>1. next.sold = r.sold /\ (next.status \in SoldStatus <=> r.status \in SoldStatus)
    BY <1>1, <1>2 DEF SellsNothing
  <2>2. CASE plan.entries = {}
    BY <2>1, <2>2, TimelineGrows DEF RowTells
  <2>3. ASSUME NEW e \in Event, plan.entries = {e}, ~IsSale(e)
        PROVE  RowTells(next, more)
    <3>1. /\ more \in Seq(Event) /\ Grown(events, more)
          /\ Len(more) = Len(events) + 1 /\ more[Len(more)] = e
      BY <2>3, TimelineGrows
    <3>2. Len(events) \in Nat
      OBVIOUS
    <3> HIDE DEF more, next
    <3>3. \A i \in 1 .. Len(more) : i \in 1 .. Len(events) \/ i = Len(more)
      BY <3>1, <3>2
    <3>4. \A i \in 1 .. Len(events) : i \in 1 .. Len(more) /\ more[i] = events[i] /\ i # Len(more)
      BY <3>1, <3>2 DEF Grown
    <3>5. CASE r.sold = Null
      BY <2>1, <2>3, <3>1, <3>3, <3>4, <3>5 DEF RowTells
    <3>6. CASE r.sold # Null
      <4>1. PICK k \in 1 .. Len(events) :
               /\ events[k].amount = r.sold
               /\ \A i \in 1 .. Len(events) : IsSale(events[i]) <=> i = k
        BY <3>6 DEF RowTells
      <4>2. \A i \in 1 .. Len(more) : IsSale(more[i]) <=> i = k
        BY <2>3, <3>1, <3>3, <3>4, <4>1
      <4> QED BY <2>1, <3>4, <3>6, <4>1, <4>2 DEF RowTells
    <3> QED BY <3>5, <3>6
  <2> QED BY <1>2, <2>2, <2>3 DEF SellsNothing
<1>3. CASE Sells(p, plan.entries, r)
  <2>1. next.sold = p.sold /\ next.sold # Null /\ next.status \in SoldStatus /\ r.sold = Null
    BY <1>0, <1>1, <1>3 DEF Sells, SoldStatus, RowTells
  <2>2. PICK e \in Event : plan.entries = {e} /\ IsSale(e) /\ e.amount = p.sold
    BY <1>3 DEF Sells
  <2>3. /\ more \in Seq(Event) /\ Grown(events, more)
        /\ Len(more) = Len(events) + 1 /\ more[Len(more)] = e
    BY <2>2, TimelineGrows
  <2>4. Len(events) \in Nat
    OBVIOUS
  <2> HIDE DEF more, next
  <2>5. \A i \in 1 .. Len(more) : i \in 1 .. Len(events) \/ i = Len(more)
    BY <2>3, <2>4
  <2>6. \A i \in 1 .. Len(events) : more[i] = events[i] /\ i # Len(more)
    BY <2>3, <2>4 DEF Grown
  <2>7. \A i \in 1 .. Len(more) : IsSale(more[i]) <=> i = Len(more)
    BY <2>1, <2>2, <2>3, <2>5, <2>6 DEF RowTells
  <2>8. Len(more) \in 1 .. Len(more)
    BY <2>3, <2>4
  <2>9. RowTells(next, more)
    BY <2>1, <2>2, <2>3, <2>7, <2>8 DEF RowTells
  <2> QED BY <2>9 DEF next, more
<1> QED BY <1>2, <1>3 DEF PlanIsSound

ServerAdvances ==
    /\ ServerType' /\ RowTells(row', timeline')
    /\ version <= version'
    /\ Grown(timeline, timeline')
    /\ row.sold # Null => row'.sold = row.sold
    /\ row.status = "ARRETEE" => row'.status = "ARRETEE"

LEMMA StandingStill ==
    ASSUME ServerType, RowTells(row, timeline), UNCHANGED server
    PROVE  ServerAdvances
BY DEF ServerType, ServerAdvances, server, Grown

LEMMA ExecuteFacts ==
    ASSUME ServerType, RowTells(row, timeline), NEW op \in Operation, NEW answer,
           Execute(op, answer)
    PROVE  /\ ServerAdvances
           /\ op.kind # "CLOSE" \/ answer # "ok" => \A a : StillThere(a) => StillThere(a)'
           /\ op.kind = "ACCEPT" /\ answer = "ok"
                 => /\ row.status = "EN_ATTENTE_VALIDATION" /\ row.reason \in OfferReason
                    /\ row'.sold = row.offer
<1>1. CASE UNCHANGED server /\ answer \in {"refused", "withdrawn"}
  BY <1>1, StandingStill DEF server, StillThere, Waits, Closed
<1>2. CASE /\ answer = "ok"
           /\ \E plan \in Plans(op, row) :
                 /\ row' = Patched(row, plan.patch)
                 /\ version' = version + 1
                 /\ timeline' = timeline \o SetToSeq(plan.entries)
  <2>1. PICK plan \in Plans(op, row) :
           /\ row' = Patched(row, plan.patch)
           /\ version' = version + 1
           /\ timeline' = timeline \o SetToSeq(plan.entries)
    BY <1>2
  <2>2. row \in MissionRow /\ timeline \in Seq(Event) /\ version \in Nat
    BY DEF ServerType
  <2>3. PlanIsSound(plan, row, op.kind)
    BY <2>2, PlansAreSound
  <2> DEFINE p == plan.patch
  <2>4. /\ row' \in MissionRow /\ row'.status = p.status
        /\ row'.sold = IF "sold" \in DOMAIN p THEN p.sold ELSE row.sold
        /\ row'.offer = IF "offer" \in DOMAIN p THEN p.offer ELSE row.offer
        /\ row'.reason = IF "reason" \in DOMAIN p THEN p.reason ELSE row.reason
        /\ row'.preSuspend = IF "preSuspend" \in DOMAIN p THEN p.preSuspend ELSE row.preSuspend
    BY <2>1, <2>2, <2>3, PatchedIsRow DEF PlanIsSound
  <2>5. plan.entries = {} \/ \E e \in Event : plan.entries = {e}
    BY <2>3 DEF PlanIsSound, SellsNothing, Sells
  <2>6. timeline' \in Seq(Event) /\ Grown(timeline, timeline')
    BY <2>1, <2>2, <2>5, TimelineGrows
  <2>7. RowTells(row', timeline')
    BY <2>1, <2>2, <2>3, PlanTells
  <2>8. version' \in Nat /\ version <= version'
    BY <2>1, <2>2
  <2>9. row.sold # Null => row'.sold = row.sold
    BY <2>3, <2>4 DEF PlanIsSound, SellsNothing, Sells, RowTells
  <2>10. row.status = "ARRETEE" => row'.status = "ARRETEE"
    BY <2>3, <2>4 DEF PlanIsSound, Over
  <2>11. ServerAdvances
    BY <2>4, <2>6, <2>7, <2>8, <2>9, <2>10 DEF ServerAdvances, ServerType
  <2>12. Closed(row) => Closed(row')
    BY <2>3, <2>4 DEF Closed, PlanIsSound, SellsNothing, Sells, SoldStatus, Over
  <2>13. ASSUME op.kind # "CLOSE", NEW a, Waits(row), row.reason \in OfferReason, row.offer = a
         PROVE  StillThere(a)'
    <3>1. CASE p.status \in SoldStatus \cup Over
      BY <2>4, <3>1 DEF StillThere, Closed
    <3>2. CASE KeepsWaiting(p, row)
      BY <2>4, <2>13, <3>2 DEF StillThere, KeepsWaiting, Waits
    <3> QED BY <2>3, <2>13, <3>1, <3>2 DEF PlanIsSound
  <2>14. op.kind = "ACCEPT"
            => /\ row.status = "EN_ATTENTE_VALIDATION" /\ row.reason \in OfferReason
               /\ row'.sold = row.offer
    BY <2>3, <2>4 DEF PlanIsSound
  <2> QED BY <1>2, <2>11, <2>12, <2>13, <2>14 DEF StillThere
<1> QED BY <1>1, <1>2 DEF Execute, Refusal

-----------------------------------------------------------------------------
(* What was read stays as true as it was. *)

LEMMA ReadingsLast ==
    ASSUME ServerType, RowTells(row, timeline), ServerAdvances,
           NEW f, Frozen(f.row), Told(f)
    PROVE  Frozen(f.row)' /\ Told(f)'
<1>1. Frozen(f.row)'
  BY DEF Frozen, ServerAdvances
<1>2. ASSUME f.events # Null
      PROVE  \E n \in 0 .. Len(timeline') :
                /\ IsPage(f.events, n)'
                /\ f.row.sold # Null => \E k \in 1 .. n : IsSale(timeline'[k])
  <2>1. PICK n \in 0 .. Len(timeline) :
           /\ IsPage(f.events, n)
           /\ f.row.sold # Null => \E k \in 1 .. n : IsSale(timeline[k])
    BY <1>2 DEF Told
  <2>2. Len(timeline) \in Nat /\ Len(timeline') \in Nat /\ Page \in Nat
    BY ScreensAssumption DEF ServerType, ServerAdvances
  <2>3. Len(timeline) <= Len(timeline')
    BY DEF ServerAdvances, Grown
  <2>4. \A i \in 1 .. n : timeline'[i] = timeline[i]
    BY <2>2 DEF ServerAdvances, Grown
  <2>5. \A j \in 1 .. Len(f.events) : (n - j) + 1 \in 1 .. n
    BY <2>1, <2>2 DEF IsPage
  <2>6. IsPage(f.events, n)'
    BY <2>1, <2>4, <2>5 DEF IsPage
  <2> QED
    BY <2>1, <2>2, <2>3, <2>4, <2>6
<1> QED
  BY <1>1, <1>2 DEF Told

LEMMA SoundLasts ==
    ASSUME ServerType, RowTells(row, timeline), ServerAdvances,
           NEW s, NEW r, Sound(s, r),
           s # "sheet" \/ \A q : Current(q) => Current(q)'
    PROVE  Sound(s, r)'
<1>1. VersionsGrow(r)'
  BY DEF Sound, Resource, Fetch, Shown, Reading, VersionsGrow, ServerType, ServerAdvances
<1>2. ASSUME NEW f, HasRead(r, f)
      PROVE  /\ s = "recap" => Frozen(f.row)' /\ Told(f)'
             /\ s = "sheet" => Current(f.row)'
  BY <1>2, ReadingsLast DEF Sound
<1> QED
  BY <1>1, <1>2 DEF Sound, HasRead, Reading, Resource

-----------------------------------------------------------------------------
(* The resource of a screen: what becomes of it. *)

LEMMA SentIsFetch == Sent \in Fetch /\ Sent.row = Null /\ Sent.events = Null
BY DEF Sent, Fetch

LEMMA BlankIsSound == \A s : Sound(s, Blank) /\ Sound(s, Blank)'
BY DEF Sound, Blank, Resource, VersionsGrow, Reading, HasRead

LEMMA LoadedIsSound ==
    ASSUME NEW s, NEW r, Sound(s, r)
    PROVE  Sound(s, Loaded(r)) /\ Loaded(r).data = r.data
<1>1. CASE r.fetches = <<>>
  <2>1. Loaded(r) = [data |-> r.data, fetches |-> <<Sent>>]
    BY <1>1 DEF Loaded, Sound, Resource
  <2> QED
    BY <2>1, SentIsFetch DEF Sound, Resource, VersionsGrow, Reading, HasRead
<1>2. CASE r.fetches # <<>>
  BY <1>2 DEF Loaded
<1> QED
  BY <1>1, <1>2

LEMMA OneFetch ==
    ASSUME NEW s, NEW r, Sound(s, r), NEW i \in DOMAIN r.fetches
    PROVE  /\ i = 1 /\ r.fetches[1] \in Fetch /\ r.fetches = <<r.fetches[1]>>
           /\ r = [data |-> r.data, fetches |-> <<r.fetches[1]>>]
           /\ RemoveAt(r.fetches, i) = <<>>
           /\ r.fetches[1].row = Null => r.fetches[1].events = Null
<1> DEFINE f == r.fetches[1]
<1>1. r.fetches = <<f>> /\ f \in Fetch /\ (f.row = Null => f.events = Null)
  BY DEF Sound, Resource
<1> HIDE DEF f
<1>2. i = 1
  BY <1>1
<1>3. RemoveAt(<<f>>, 1) = <<>>
  BY DEF RemoveAt
<1> QED
  BY <1>1, <1>2, <1>3 DEF f, Sound, Resource

LEMMA FetchedIsSound ==
    ASSUME ServerType, RowTells(row, timeline), NEW s, NEW r, Sound(s, r),
           NEW f \in Fetch, r.fetches = <<f>>, f.row = Null, f.events = Null
    PROVE  Sound(s, [data |-> r.data,
                     fetches |-> <<[row |-> row, version |-> version, events |-> f.events]>>])
<1> DEFINE g == [row |-> row, version |-> version, events |-> f.events]
           q == [data |-> r.data, fetches |-> <<g>>]
<1>1. g \in Fetch /\ g.row = row /\ g.row # Null /\ g.version = version /\ g.events = Null
  BY NullAssumption DEF ServerType, Fetch
<1> HIDE DEF g
<1>2. q.data = r.data /\ q.fetches = <<g>> /\ q.fetches[1] = g
  OBVIOUS
<1>3. Resource(q)
  BY <1>1, <1>2 DEF Sound, Resource
<1>4. VersionsGrow(q)
  BY <1>1, <1>2 DEF Sound, Resource, Shown, VersionsGrow, Reading, ServerType
<1>5. Frozen(row) /\ Current(row)
  BY DEF Frozen, RowTells, Current, StillThere, Waits
<1>6. Told(g)
  BY <1>1 DEF Told
<1>7. \A h : HasRead(q, h) => HasRead(r, h) \/ h = g
  BY <1>2 DEF HasRead
<1>8. Sound(s, q)
  BY <1>1, <1>3, <1>4, <1>5, <1>6, <1>7 DEF Sound
<1> QED
  BY <1>8 DEF g

LEMMA LatestIsAPage ==
    ASSUME ServerType
    PROVE  /\ \A s : Latest(s) \in Seq(Event)
           /\ IsPage(Latest("recap"), Len(timeline))
<1> DEFINE n == IF Len(timeline) < Page THEN Len(timeline) ELSE Page
           back == Reverse(timeline)
<1>1. timeline \in Seq(Event) /\ Len(timeline) \in Nat /\ Page \in Nat
  BY ScreensAssumption DEF ServerType
<1>2. /\ back \in Seq(Event) /\ Len(back) = Len(timeline)
      /\ \A j \in 1 .. Len(timeline) : back[j] = timeline[(Len(timeline) - j) + 1]
  BY <1>1 DEF Reverse
<1>3. n \in 0 .. Len(back)
  BY <1>1, <1>2
<1> HIDE DEF back, n
<1>4. /\ SubSeq(back, 1, n) \in Seq(Event) /\ Len(SubSeq(back, 1, n)) = n
      /\ \A j \in 1 .. n : SubSeq(back, 1, n)[j] = back[j]
  BY <1>2, <1>3
<1>5. Latest("recap") = SubSeq(back, 1, n) /\ \A s : s # "recap" => Latest(s) = <<>>
  BY DEF Latest, back, n
<1>6. \A j \in 1 .. n : j \in 1 .. Len(timeline)
  BY <1>1, <1>2, <1>3
<1>7. IsPage(SubSeq(back, 1, n), Len(timeline))
  BY <1>2, <1>4, <1>6 DEF IsPage, n
<1>8. ASSUME NEW s
      PROVE  Latest(s) \in Seq(Event)
  <2>1. CASE s = "recap"
    BY <1>4, <1>5, <2>1
  <2>2. CASE s # "recap"
    BY <2>2 DEF Latest
  <2> QED BY <2>1, <2>2
<1>9. IsPage(Latest("recap"), Len(timeline))
  BY <1>5, <1>7
<1> QED
  BY <1>8, <1>9

LEMMA EventsReadAreSound ==
    ASSUME ServerType, RowTells(row, timeline), NEW s, NEW r, Sound(s, r),
           NEW f \in Fetch, r.fetches = <<f>>, f.row # Null
    PROVE  Sound(s, [data |-> r.data,
                     fetches |-> <<[row |-> f.row, version |-> f.version,
                                    events |-> Latest(s)]>>])
<1> DEFINE page == Latest(s)
           g == [row |-> f.row, version |-> f.version, events |-> page]
           q == [data |-> r.data, fetches |-> <<g>>]
<1>1. page \in Seq(Event) /\ (s = "recap" => IsPage(page, Len(timeline)))
  BY LatestIsAPage
<1> HIDE DEF page
<1>2. g \in Fetch /\ g.row = f.row /\ g.version = f.version /\ g.events = page
  BY <1>1 DEF Fetch
<1> HIDE DEF g
<1>3. q.data = r.data /\ q.fetches = <<g>> /\ q.fetches[1] = g
  OBVIOUS
<1>4. Resource(q) /\ VersionsGrow(q)
  BY <1>2, <1>3 DEF Sound, Resource, VersionsGrow, Reading
<1>5. HasRead(r, f)
  BY DEF HasRead, Reading
<1>6. s = "recap" => Frozen(g.row)
  BY <1>2, <1>5 DEF Sound
<1>7. s = "sheet" => Current(g.row)
  BY <1>2, <1>5 DEF Sound
<1>8. ASSUME s = "recap"
      PROVE  Told(g)
  <2>1. Len(timeline) \in 0 .. Len(timeline)
    BY DEF ServerType
  <2>2. g.row.sold # Null => \E k \in 1 .. Len(timeline) : IsSale(timeline[k])
    BY <1>6, <1>8 DEF Frozen, RowTells
  <2> QED BY <1>1, <1>2, <1>8, <2>1, <2>2 DEF Told
<1>9. \A h : HasRead(q, h) => HasRead(r, h) \/ h = g
  BY <1>3 DEF HasRead
<1>10. Sound(s, q)
  BY <1>4, <1>6, <1>7, <1>8, <1>9 DEF Sound
<1> QED
  BY <1>10 DEF g, page

LEMMA ArrivedIsSound ==
    ASSUME NEW s, NEW r, Sound(s, r),
           NEW f \in Fetch, r.fetches = <<f>>, f.row # Null, f.events # Null
    PROVE  /\ Sound(s, [data |-> f, fetches |-> <<>>])
           /\ f # Null /\ (r.data # Null => r.data.version <= f.version)
<1> DEFINE q == [data |-> f, fetches |-> <<>>]
<1>1. f \in Shown /\ f # Null
  BY NullAssumption DEF Fetch, Shown
<1>2. HasRead(r, f)
  BY DEF HasRead, Reading
<1>3. f.version <= version /\ (r.data # Null => r.data.version <= f.version)
  BY DEF Sound, VersionsGrow, Reading
<1>4. Resource(q) /\ VersionsGrow(q)
  BY <1>1, <1>3 DEF Resource, VersionsGrow, Reading
<1>5. \A h : HasRead(q, h) => h = f
  BY DEF HasRead, Reading
<1> QED
  BY <1>1, <1>2, <1>3, <1>4, <1>5 DEF Sound

LEMMA FailedIsSound ==
    ASSUME NEW s, NEW r, Sound(s, r)
    PROVE  Sound(s, [data |-> r.data, fetches |-> <<>>])
BY DEF Sound, Resource, VersionsGrow, Reading, HasRead

-----------------------------------------------------------------------------
(* The steps that change one resource, and neither the calls nor the stack. *)

NeverBack ==
    \A s \in Screen : Data(s) # Null /\ Data(s)' # Null
       => Data(s).version <= Data(s)'.version

SaleIsShown ==
    \A c \in Slot :
       /\ call[c].op = "ACCEPT" /\ call[c].answer = "waiting" /\ call'[c].answer = "ok"
       /\ ~hurried
       => row'.sold = call[c].amount

GoodStep == ScreensInv' /\ NeverBack /\ SaleIsShown

LEMMA ShownVersions ==
    ASSUME NEW s, NEW r, Sound(s, r), r.data # Null
    PROVE  r.data.version \in Nat /\ r.data.version <= r.data.version
<1>1. r.data \in Shown
  BY DEF Sound, Resource
<1>2. r.data.version \in Nat
  BY <1>1 DEF Shown
<1> QED
  BY <1>2

\* While the seller does nothing and the server does nothing, all that was read stays.
LEMMA CurrentStays ==
    ASSUME NEW q, Current(q), UNCHANGED <<row, call, hurried>>
    PROVE  Current(q)'
BY DEF Current, StillThere, Waits, Closed, JustClosed

LEMMA SoundStays ==
    ASSUME ServerType, RowTells(row, timeline), UNCHANGED <<server, call, hurried>>,
           NEW s, NEW r, Sound(s, r)
    PROVE  Sound(s, r)'
<1>1. ServerAdvances
  BY StandingStill
<1>2. \A q : Current(q) => Current(q)'
  BY CurrentStays DEF server
<1> QED
  BY <1>1, <1>2, SoundLasts

LEMMA OneResource ==
    ASSUME ScreensInv, NEW s \in Screen, NEW r, Sound(s, r),
           res' = [res EXCEPT ![s] = r],
           Data(s) # Null => r.data # Null /\ Data(s).version <= r.data.version,
           UNCHANGED <<server, stack, call, hurried>>,
           late' \subseteq late \cup {[kind |-> "FINALIZE"]}
    PROVE  GoodStep
<1> USE DEF ScreensInv
<1>1. /\ res' = [t \in Screen |-> res'[t]] /\ res'[s] = r
      /\ \A t \in Screen \ {s} : res'[t] = res[t]
  BY DEF PhoneType
<1>2. ServerType' /\ RowTells(row, timeline)'
  BY DEF server, ServerType
<1>3. \A t \in Screen : Sound(t, res[t])'
  <2> SUFFICES ASSUME NEW t \in Screen
               PROVE  Sound(t, res[t])'
    OBVIOUS
  <2>1. PICK q : q = res'[t]
    OBVIOUS
  <2>2. Sound(t, q)
    BY <1>1, <2>1
  <2>3. Sound(t, q)'
    BY <2>2, SoundStays
  <2> QED BY <2>1, <2>3
<1>4. PhoneType'
  BY <1>1 DEF PhoneType, Late
<1>5. MineIsMounted'
  BY <1>1 DEF MineIsMounted, Data
<1>6. (~hurried => Patient)'
  BY DEF Patient, StillThere, Waits, Closed, server
<1>7. NeverBack
  BY <1>1, ShownVersions DEF NeverBack, Data
<1>8. SaleIsShown
  BY DEF SaleIsShown
<1> QED
  BY <1>2, <1>3, <1>4, <1>5, <1>6, <1>7, <1>8 DEF GoodStep

LEMMA RefreshIsGood == ASSUME ScreensInv, NEW s \in Screen, Refresh(s)
                       PROVE  GoodStep
<1>1. Sound(s, res[s])
  BY DEF ScreensInv
<1>2. Sound(s, Loaded(res[s])) /\ Loaded(res[s]).data = res[s].data
  BY <1>1, LoadedIsSound
<1>3. res[s].data # Null => res[s].data.version <= res[s].data.version
  BY <1>1, ShownVersions
<1>4. res' = [res EXCEPT ![s] = Loaded(res[s])]
  BY DEF Refresh
<1> QED
  BY <1>2, <1>3, <1>4, OneResource DEF Refresh, Data

LEMMA FetchStepsAreGood ==
    ASSUME ScreensInv, NEW s \in Screen, NEW i \in DOMAIN res[s].fetches,
           ReadRow(s, i) \/ ReadEvents(s, i) \/ Arrive(s, i) \/ FetchFails(s, i)
    PROVE  GoodStep
<1> DEFINE r == res[s]
           f == r.fetches[1]
<1>0. ServerType /\ RowTells(row, timeline) /\ res = [t \in Screen |-> res[t]]
  BY DEF ScreensInv, PhoneType
<1>1. Sound(s, r)
  BY DEF ScreensInv
<1>2. /\ i = 1 /\ f \in Fetch /\ r.fetches = <<f>>
      /\ r = [data |-> r.data, fetches |-> <<f>>]
      /\ RemoveAt(r.fetches, i) = <<>>
      /\ f.row = Null => f.events = Null
  BY <1>1, OneFetch
<1>3. r.data # Null => r.data.version <= r.data.version
  BY <1>1, ShownVersions
<1>4. f = [row |-> f.row, version |-> f.version, events |-> f.events]
  BY <1>2 DEF Fetch
<1>5. CASE ReadRow(s, i)
  <2> DEFINE g == [row |-> row, version |-> version, events |-> f.events]
  <2>1. Sound(s, [data |-> r.data, fetches |-> <<g>>])
    BY <1>0, <1>1, <1>2, <1>5, FetchedIsSound DEF ReadRow
  <2>2. res' = [res EXCEPT ![s].fetches[1] = g]
    BY <1>2, <1>5 DEF ReadRow
  <2>3. [r EXCEPT !.fetches[1] = g] = [data |-> r.data, fetches |-> <<g>>]
    BY <1>2
  <2>4. res' = [res EXCEPT ![s] = [data |-> r.data, fetches |-> <<g>>]]
    BY <1>0, <2>2, <2>3
  <2> QED
    BY <1>3, <1>5, <2>1, <2>4, OneResource DEF ReadRow, Data
<1>6. CASE ReadEvents(s, i)
  <2> DEFINE g == [row |-> f.row, version |-> f.version, events |-> Latest(s)]
  <2>1. Sound(s, [data |-> r.data, fetches |-> <<g>>])
    BY <1>0, <1>1, <1>2, <1>6, EventsReadAreSound DEF ReadEvents
  <2>2. res' = [res EXCEPT ![s].fetches[1].events = Latest(s)]
    BY <1>2, <1>6 DEF ReadEvents
  <2>3. [f EXCEPT !.events = Latest(s)] = g
    BY <1>4
  <2>4. [r EXCEPT !.fetches[1] = [f EXCEPT !.events = Latest(s)]]
           = [data |-> r.data, fetches |-> <<g>>]
    BY <1>2, <2>3
  <2>5. res' = [res EXCEPT ![s] = [data |-> r.data, fetches |-> <<g>>]]
    BY <1>0, <2>2, <2>4
  <2> QED
    BY <1>3, <1>6, <2>1, <2>5, OneResource DEF ReadEvents, Data
<1>7. CASE Arrive(s, i)
  <2>1. f.row # Null /\ f.events # Null
    BY <1>2, <1>7 DEF Arrive
  <2>2. /\ Sound(s, [data |-> f, fetches |-> <<>>])
        /\ f # Null /\ (r.data # Null => r.data.version <= f.version)
    BY <1>1, <1>2, <2>1, ArrivedIsSound
  <2>3. res' = [res EXCEPT ![s] = [data |-> f, fetches |-> <<>>]]
    BY <1>2, <1>7 DEF Arrive
  <2> QED
    BY <1>7, <2>2, <2>3, OneResource DEF Arrive, Data
<1>8. CASE FetchFails(s, i)
  <2>1. Sound(s, [data |-> r.data, fetches |-> <<>>])
    BY <1>1, FailedIsSound
  <2>2. [r EXCEPT !.fetches = <<>>] = [data |-> r.data, fetches |-> <<>>]
    BY <1>2
  <2>3. res' = [res EXCEPT ![s] = [data |-> r.data, fetches |-> <<>>]]
    BY <1>0, <1>2, <1>8, <2>2 DEF FetchFails
  <2> QED
    BY <1>3, <1>8, <2>1, <2>3, OneResource DEF FetchFails, Data
<1> QED
  BY <1>5, <1>6, <1>7, <1>8

-----------------------------------------------------------------------------
(* The steps of the server, and those of the calls that leave the stack alone. *)

ACall == {NoCall} \cup DashCall \cup SheetCall

LEMMA CallFacts ==
    ASSUME NEW k \in ACall
    PROVE  /\ k.from \in {"dash", "sheet"} /\ k.mine \in BOOLEAN
           /\ k = NoCall <=> k.answer = "none"
           /\ k = NoCall => k.op = "none" /\ k.from = "dash" /\ k.mine = FALSE
           /\ k.op \in {"ACCEPT", "CLOSE"} <=> k.from = "sheet"
           /\ k # NoCall => k.op \in {"SUSPEND", "RESUME", "STOP", "ACCEPT", "CLOSE"}
           /\ k # NoCall => \A a \in {"waiting"} \cup Answer :
                               LET n == [k EXCEPT !.answer = a]
                               IN /\ n \in ACall /\ n.from = k.from /\ n.op = k.op
                                  /\ n.mine = k.mine /\ n.amount = k.amount /\ n.answer = a
           /\ LET n == [k EXCEPT !.mine = FALSE]
              IN /\ n \in ACall /\ n.from = k.from /\ n.op = k.op /\ n.mine = FALSE
                 /\ n.amount = k.amount /\ n.answer = k.answer
                 /\ ~k.mine => n = k
<1>1. CASE k = NoCall
  <2>1. k \in [op : {"none"}, from : {"dash"}, mine : {FALSE}, amount : {Null}, answer : {"none"}]
    BY <1>1 DEF NoCall
  <2>2. [k EXCEPT !.mine = FALSE] = k
    BY <2>1
  <2> QED BY <1>1, <2>1, <2>2 DEF ACall
<1>2. ASSUME NEW ops, NEW from, NEW amounts,
             k \in [op : ops, from : {from}, mine : BOOLEAN, amount : amounts,
                    answer : {"waiting"} \cup Answer]
      PROVE  /\ k.from = from /\ k.op \in ops /\ k.mine \in BOOLEAN
             /\ k.answer \in {"waiting"} \cup Answer /\ k # NoCall
             /\ \A a \in {"waiting"} \cup Answer :
                   LET n == [k EXCEPT !.answer = a]
                   IN /\ n \in [op : ops, from : {from}, mine : BOOLEAN, amount : amounts,
                                answer : {"waiting"} \cup Answer]
                      /\ n.from = k.from /\ n.op = k.op
                      /\ n.mine = k.mine /\ n.amount = k.amount /\ n.answer = a
             /\ LET n == [k EXCEPT !.mine = FALSE]
                IN /\ n \in [op : ops, from : {from}, mine : BOOLEAN, amount : amounts,
                             answer : {"waiting"} \cup Answer]
                   /\ n.from = k.from /\ n.op = k.op /\ n.mine = FALSE
                   /\ n.amount = k.amount /\ n.answer = k.answer
                   /\ ~k.mine => n = k
  <2>1. k.answer # NoCall.answer
    BY <1>2 DEF NoCall, Answer
  <2>2. k = [op |-> k.op, from |-> k.from, mine |-> k.mine, amount |-> k.amount,
             answer |-> k.answer]
    BY <1>2
  <2>3. ~k.mine => [k EXCEPT !.mine = FALSE] = k
    BY <1>2, <2>2
  <2> QED BY <1>2, <2>1, <2>3
<1>3. CASE k \in DashCall
  BY <1>2, <1>3 DEF NoCall, ACall, DashCall, Answer
<1>4. CASE k \in SheetCall
  BY <1>2, <1>4 DEF NoCall, ACall, SheetCall, Answer
<1> QED
  BY <1>1, <1>3, <1>4 DEF ACall

LEMMA CallsAreOperations ==
    \A op \in {"SUSPEND", "RESUME", "STOP", "ACCEPT", "CLOSE", "FINALIZE"} :
       [kind |-> op] \in Operation /\ [kind |-> op] \in Late
BY DEF Operation, Late

LEMMA CurrentLasts ==
    ASSUME hurried => hurried',
           \/ hurried' \/ JustClosed'
           \/ /\ \A a : StillThere(a) => StillThere(a)'
              /\ JustClosed => JustClosed'
    PROVE  \A q : Current(q) => Current(q)'
BY DEF Current

LEMMA AllStaySound ==
    ASSUME ScreensInv, ServerAdvances, res' = res,
           \A q : Current(q) => Current(q)'
    PROVE  (\A s \in Screen : Sound(s, res[s])') /\ NeverBack
<1>1. ASSUME NEW s \in Screen
      PROVE  Sound(s, res[s])'
  <2>1. PICK q : q = res[s]
    OBVIOUS
  <2>2. Sound(s, q)
    BY <2>1 DEF ScreensInv
  <2>3. Sound(s, q)'
    BY <2>2, SoundLasts DEF ScreensInv
  <2> QED BY <2>1, <2>3
<1>2. NeverBack
  BY ShownVersions DEF NeverBack, Data, ScreensInv
<1> QED
  BY <1>1, <1>2

LEMMA BuyerWritesIsGood == ASSUME ScreensInv, BuyerWrites
                           PROVE  GoodStep
<1> USE DEF ScreensInv
<1>1. PICK m \in Message, answer \in Answer :
         Execute([kind |-> "MESSAGE", message |-> m], answer)
  BY DEF BuyerWrites
<1>2. [kind |-> "MESSAGE", message |-> m] \in Operation
  BY DEF Operation
<1>3. ServerAdvances /\ \A a : StillThere(a) => StillThere(a)'
  BY <1>1, <1>2, ExecuteFacts
<1>4. UNCHANGED <<stack, res, call, late, hurried>>
  BY DEF BuyerWrites, phone
<1>5. (\A s \in Screen : Sound(s, res[s])') /\ NeverBack
  BY <1>3, <1>4, CurrentLasts, AllStaySound DEF JustClosed
<1>6. PhoneType' /\ MineIsMounted'
  BY <1>4 DEF PhoneType, MineIsMounted
<1>7. (~hurried => Patient)'
  BY <1>3, <1>4 DEF Patient
<1>8. SaleIsShown
  BY <1>4 DEF SaleIsShown
<1> QED
  BY <1>3, <1>5, <1>6, <1>7, <1>8 DEF GoodStep, ServerAdvances

LEMMA ServeLateIsGood == ASSUME ScreensInv, ServeLate
                         PROVE  GoodStep
<1> USE DEF ScreensInv
<1>1. PICK op \in late, answer \in Answer :
         Execute(op, answer) /\ late' = late \ {op}
  BY DEF ServeLate
<1>2. op \in Operation
  BY DEF PhoneType, Late, Operation
<1>3. ServerAdvances /\ (op.kind # "CLOSE" => \A a : StillThere(a) => StillThere(a)')
  BY <1>1, <1>2, ExecuteFacts
<1>4. UNCHANGED <<stack, res, call, hurried>>
  BY DEF ServeLate
<1>5. ~hurried => \A a : StillThere(a) => StillThere(a)'
  BY <1>3 DEF Patient
<1>6. (\A s \in Screen : Sound(s, res[s])') /\ NeverBack
  BY <1>3, <1>4, <1>5, CurrentLasts, AllStaySound DEF JustClosed
<1>7. PhoneType' /\ MineIsMounted'
  BY <1>1, <1>4 DEF PhoneType, MineIsMounted
<1>8. (~hurried => Patient)'
  BY <1>1, <1>4, <1>5 DEF Patient
<1>9. SaleIsShown
  BY <1>4 DEF SaleIsShown
<1> QED
  BY <1>3, <1>6, <1>7, <1>8, <1>9 DEF GoodStep, ServerAdvances

LEMMA ServeIsGood == ASSUME ScreensInv, NEW c \in Slot, Serve(c)
                     PROVE  GoodStep
<1> USE DEF ScreensInv
<1>1. PICK answer \in Answer :
         /\ Execute([kind |-> call[c].op], answer)
         /\ call' = [call EXCEPT ![c].answer = answer]
  BY DEF Serve
<1> DEFINE op == [kind |-> call[c].op]
<1>2. call \in [Slot -> ACall] /\ call[c].answer = "waiting"
  BY DEF PhoneType, ACall, Serve
<1>3. call[c] \in ACall /\ call[c] # NoCall
  BY <1>2 DEF NoCall
<1>4. op \in Operation /\ op.kind = call[c].op
  BY <1>3, CallFacts, CallsAreOperations
<1>5. /\ call' \in [Slot -> ACall]
      /\ \A d \in Slot \ {c} : call'[d] = call[d]
      /\ call'[c] = [call[c] EXCEPT !.answer = answer]
  BY <1>1, <1>2, <1>3, CallFacts
<1>6. /\ call'[c].from = call[c].from /\ call'[c].op = call[c].op
      /\ call'[c].mine = call[c].mine /\ call'[c].amount = call[c].amount
      /\ call'[c].answer = answer
  BY <1>3, <1>5, CallFacts
<1>16. call'[c] # NoCall /\ answer # "waiting"
  BY <1>1, <1>6 DEF NoCall, Answer
<1>17. \A d \in Slot : /\ call'[d].from = call[d].from /\ call'[d].op = call[d].op
                       /\ call'[d].mine = call[d].mine /\ call'[d].amount = call[d].amount
  BY <1>5, <1>6
<1>7. UNCHANGED <<stack, res, late, hurried>>
  BY DEF Serve
<1>8. /\ ServerAdvances
      /\ op.kind # "CLOSE" \/ answer # "ok" => \A a : StillThere(a) => StillThere(a)'
      /\ op.kind = "ACCEPT" /\ answer = "ok"
            => /\ row.status = "EN_ATTENTE_VALIDATION" /\ row.reason \in OfferReason
               /\ row'.sold = row.offer
  BY <1>1, <1>4, ExecuteFacts
<1>9. JustClosed => JustClosed'
  BY <1>2, <1>5 DEF JustClosed
<1>10. op.kind = "CLOSE" /\ answer = "ok" => JustClosed'
  BY <1>4, <1>6 DEF JustClosed
<1>11. (\A s \in Screen : Sound(s, res[s])') /\ NeverBack
  BY <1>7, <1>8, <1>9, <1>10, CurrentLasts, AllStaySound
<1>12. PhoneType'
  BY <1>5, <1>7 DEF PhoneType, ACall
<1>13. MineIsMounted'
  BY <1>7, <1>17 DEF MineIsMounted
<1>14. ASSUME ~hurried
       PROVE  Patient'
  <2>1. late' \subseteq {[kind |-> "FINALIZE"]}
    BY <1>7, <1>14 DEF Patient
  <2>2. \A d \in Slot : call'[d] = NoCall \/ call'[d].mine
    BY <1>3, <1>5, <1>6, <1>14 DEF Patient
  <2>3. \A d, e \in Slot : call'[d].from = "sheet" /\ call'[e].from = "sheet" => d = e
    BY <1>14, <1>17 DEF Patient
  <2>4. ASSUME NEW d \in Slot, call'[d].op = "ACCEPT", call'[d].answer = "waiting"
        PROVE  StillThere(call[d].amount)'
    <3>1. d # c /\ call'[d] = call[d]
      BY <1>5, <1>6, <1>16, <2>4
    <3>2. StillThere(call[d].amount)
      BY <1>14, <2>4, <3>1 DEF Patient
    <3>3. call[c].op # "CLOSE"
      <4>1. call[d].from = "sheet"
        BY <1>2, <2>4, <3>1, CallFacts
      <4>2. call[c].op = "CLOSE" => call[c].from = "sheet"
        BY <1>3, CallFacts
      <4> QED BY <1>14, <3>1, <4>1, <4>2 DEF Patient
    <3>4. PICK a : a = call[d].amount
      OBVIOUS
    <3>5. StillThere(a)'
      BY <1>4, <1>8, <3>2, <3>3, <3>4
    <3> QED BY <3>1, <3>4, <3>5
  <2> QED BY <2>1, <2>2, <2>3, <2>4 DEF Patient
<1>15. SaleIsShown
  <2> SUFFICES ASSUME NEW d \in Slot, call[d].op = "ACCEPT", call[d].answer = "waiting",
                      call'[d].answer = "ok", ~hurried
               PROVE  row'.sold = call[d].amount
    BY DEF SaleIsShown
  <2>1. d = c /\ answer = "ok"
    BY <1>5, <1>6
  <2>2. StillThere(call[c].amount)
    BY <2>1 DEF Patient
  <2> QED
    BY <1>4, <1>8, <2>1, <2>2 DEF StillThere, Closed, Over, SoldStatus
<1> QED
  BY <1>7, <1>8, <1>11, <1>12, <1>13, <1>14, <1>15 DEF GoodStep, ServerAdvances

LEMMA StacksAreSmall ==
    /\ Range(<<>>) = {} /\ Range(<<"dash">>) = {"dash"} /\ Range(<<"recap">>) = {"recap"}
    /\ Range(<<"dash", "sheet">>) = {"dash", "sheet"}
    /\ Range(<<"dash", "recap">>) = {"dash", "recap"}
<1>1. Range(<<>>) = {} /\ Range(<<"dash">>) = {"dash"} /\ Range(<<"recap">>) = {"recap"}
  BY DEF Range
<1>2. /\ Range(<<"dash", "sheet">>) = {"dash", "sheet"}
      /\ Range(<<"dash", "recap">>) = {"dash", "recap"}
  <2>1. \A a, b : DOMAIN <<a, b>> = {1, 2} /\ <<a, b>>[1] = a /\ <<a, b>>[2] = b
    OBVIOUS
  <2> QED BY <2>1 DEF Range
<1> QED
  BY <1>1, <1>2

LEMMA Ends ==
    ASSUME NEW a, NEW b
    PROVE  /\ Append(<<a>>, b) = <<a, b>> /\ Append(<<>>, b) = <<b>>
           /\ Front(<<a>>) = <<>> /\ Front(<<a, b>>) = <<a>>
<1>1. Append(<<a>>, b) = <<a, b>>
  <2>1. Append(<<a>>, b) = [i \in 1 .. 2 |-> IF i = 1 THEN a ELSE b]
    OBVIOUS
  <2>2. <<a, b>> = [i \in 1 .. 2 |-> IF i = 1 THEN a ELSE b]
    OBVIOUS
  <2> QED BY <2>1, <2>2
<1>2. Append(<<>>, b) = <<b>>
  OBVIOUS
<1>3. Front(<<a>>) = <<>>
  <2>1. SubSeq(<<a>>, 1, 0) = <<>> /\ Len(<<a>>) = 1
    OBVIOUS
  <2> QED BY <2>1 DEF Front
<1>4. Front(<<a, b>>) = <<a>>
  <2>1. SubSeq(<<a, b>>, 1, 1) = [i \in 1 .. 1 |-> a]
    OBVIOUS
  <2>2. <<a>> = [i \in 1 .. 1 |-> a] /\ Len(<<a, b>>) - 1 = 1
    OBVIOUS
  <2>3. Front(<<a, b>>) = SubSeq(<<a, b>>, 1, Len(<<a, b>>) - 1)
    BY DEF Front
  <2>4. Front(<<a, b>>) = SubSeq(<<a, b>>, 1, 1)
    BY <2>2, <2>3
  <2> QED BY <2>1, <2>2, <2>4
<1> QED
  BY <1>1, <1>2, <1>3, <1>4

LEMMA TopIsOnTheStack ==
    ASSUME stack \in Stacks, NEW s, Top(s)
    PROVE  s \in Range(stack)
BY StacksAreSmall DEF Stacks, Top, Last

LEMMA SendIsGood ==
    ASSUME ScreensInv, NEW c \in Slot, NEW k \in DashCall \cup SheetCall,
           k.answer = "waiting", k.mine = TRUE, k.from \in Range(stack), Data(k.from) # Null,
           call[c] = NoCall, call' = [call EXCEPT ![c] = k],
           k.from = "sheet" /\ ~hurried => \A d \in Slot : call[d].from # "sheet",
           k.op = "ACCEPT" /\ ~hurried => StillThere(k.amount),
           UNCHANGED <<server, stack, res, late, hurried>>
    PROVE  GoodStep
<1> USE DEF ScreensInv
<1>1. call \in [Slot -> ACall]
  BY DEF PhoneType, ACall
<1>2. /\ call' \in [Slot -> ACall] /\ call'[c] = k
      /\ \A d \in Slot \ {c} : call'[d] = call[d]
  BY <1>1 DEF ACall
<1>3. ServerAdvances /\ \A a : StillThere(a) => StillThere(a)'
  BY StandingStill DEF server, StillThere, Waits, Closed
<1>4. JustClosed => JustClosed'
  BY <1>2 DEF JustClosed, NoCall
<1>5. (\A s \in Screen : Sound(s, res[s])') /\ NeverBack
  BY <1>3, <1>4, CurrentLasts, AllStaySound
<1>6. PhoneType'
  BY <1>2 DEF PhoneType, ACall
<1>7. MineIsMounted'
  BY <1>2 DEF MineIsMounted, Data
<1>8. ASSUME ~hurried
      PROVE  Patient'
  <2>1. \A d \in Slot : call'[d] = NoCall \/ call'[d].mine
    BY <1>2, <1>8 DEF Patient
  <2>2. \A d, e \in Slot : call'[d].from = "sheet" /\ call'[e].from = "sheet" => d = e
    BY <1>2, <1>8 DEF Patient
  <2>3. ASSUME NEW d \in Slot, call'[d].op = "ACCEPT", call'[d].answer = "waiting"
        PROVE  StillThere(call[d].amount)'
    <3>1. PICK a : a = call'[d].amount
      OBVIOUS
    <3>2. StillThere(a)
      BY <1>2, <1>8, <2>3, <3>1 DEF Patient
    <3>3. StillThere(a)'
      BY <1>3, <3>2
    <3> QED BY <3>1, <3>3
  <2> QED BY <1>8, <2>1, <2>2, <2>3 DEF Patient
<1>9. SaleIsShown
  BY <1>2 DEF SaleIsShown
<1> QED
  BY <1>3, <1>5, <1>6, <1>7, <1>8, <1>9 DEF GoodStep, ServerAdvances

LEMMA ChooseIsGood == ASSUME ScreensInv, NEW c \in Slot, Choose(c)
                      PROVE  GoodStep
<1>1. PICK op \in Menu(Data("dash").row) : Send(c, op, "dash", Null)
  BY DEF Choose
<1>2. op \in {"SUSPEND", "RESUME", "STOP"}
  BY DEF Menu
<1> DEFINE k == [op |-> op, from |-> "dash", mine |-> TRUE, amount |-> Null,
                 answer |-> "waiting"]
<1>3. k \in DashCall /\ k.op # "ACCEPT"
  BY <1>2 DEF DashCall
<1>4. "dash" \in Range(stack) /\ Data("dash") # Null
  BY TopIsOnTheStack DEF Choose, ScreensInv, PhoneType
<1>5. /\ call[c] = NoCall /\ call' = [call EXCEPT ![c] = k]
      /\ UNCHANGED <<server, stack, res, late, hurried>>
  BY <1>1 DEF Send
<1>6. k.from = "dash" /\ k.answer = "waiting" /\ k.mine = TRUE
  OBVIOUS
<1> HIDE DEF k
<1> QED
  BY <1>3, <1>4, <1>5, <1>6, SendIsGood

LEMMA ResolveIsGood == ASSUME ScreensInv, NEW c \in Slot, Resolve(c)
                       PROVE  GoodStep
<1> USE DEF ScreensInv
<1> DEFINE r == Data("sheet").row
<1>1. Sound("sheet", res["sheet"]) /\ Data("sheet") # Null
  BY DEF Resolve, Screen
<1>2. r \in MissionRow /\ Current(r)
  BY <1>1 DEF Sound, Resource, Shown, HasRead, Data
<1>3. PICK variant \in ValidationVariant(r) :
         \/ variant.offer /\ Send(c, "ACCEPT", "sheet", variant.amount)
         \/ Send(c, "CLOSE", "sheet", Null)
  BY DEF Resolve
<1>4. /\ r.status = "EN_ATTENTE_VALIDATION" /\ variant.amount = r.offer
      /\ variant.offer => r.reason \in OfferReason
  <2> HIDE DEF r
  <2>1. /\ r.status = "EN_ATTENTE_VALIDATION"
        /\ variant = [offer |-> r.reason \in OfferReason, amount |-> r.offer]
    BY DEF ValidationVariant
  <2>2. variant.amount = r.offer
    BY <2>1
  <2>3. variant.offer = (r.reason \in OfferReason)
    BY <2>1
  <2> QED BY <2>1, <2>2, <2>3
<1>5. PICK k \in SheetCall :
         /\ k.answer = "waiting" /\ k.mine = TRUE /\ k.from = "sheet"
         /\ k.op = "ACCEPT" => r.reason \in OfferReason /\ k.amount = r.offer
         /\ call[c] = NoCall /\ call' = [call EXCEPT ![c] = k]
         /\ UNCHANGED <<server, stack, res, late, hurried>>
  <2> HIDE DEF r
  <2>1. CASE variant.offer /\ Send(c, "ACCEPT", "sheet", variant.amount)
    <3> DEFINE k == [op |-> "ACCEPT", from |-> "sheet", mine |-> TRUE, amount |-> r.offer,
                     answer |-> "waiting"]
    <3>1. k \in SheetCall
      BY <1>2 DEF SheetCall, MissionRow
    <3> QED BY <1>4, <2>1, <3>1 DEF Send
  <2>2. CASE Send(c, "CLOSE", "sheet", Null)
    <3> DEFINE k == [op |-> "CLOSE", from |-> "sheet", mine |-> TRUE, amount |-> Null,
                     answer |-> "waiting"]
    <3>1. k \in SheetCall
      BY DEF SheetCall
    <3> QED BY <2>2, <3>1 DEF Send
  <2> QED BY <1>3, <2>1, <2>2
<1>6. "sheet" \in Range(stack) /\ Data("sheet") # Null
  BY TopIsOnTheStack DEF Resolve, PhoneType
<1>7. ~hurried => \A d \in Slot : call[d].from # "sheet"
  BY DEF Resolve, Patient, NoCall
<1>8. ~hurried => ~JustClosed
  <2> SUFFICES ASSUME ~hurried, NEW d \in Slot, call[d].op = "CLOSE"
               PROVE  FALSE
    BY DEF JustClosed
  <2>1. call[d] \in ACall
    BY DEF PhoneType, ACall
  <2> QED BY <1>7, <2>1, CallFacts
<1>9. k.op = "ACCEPT" /\ ~hurried => StillThere(k.amount)
  BY <1>2, <1>4, <1>5, <1>8 DEF Current
<1> QED
  BY <1>5, <1>6, <1>7, <1>9, SendIsGood

LEMMA GiveUpIsGood == ASSUME ScreensInv, NEW c \in Slot, GiveUp(c)
                      PROVE  GoodStep
<1> USE DEF ScreensInv
<1>1. call \in [Slot -> ACall] /\ call[c] # NoCall
  BY DEF PhoneType, ACall, GiveUp, NoCall
<1>2. /\ call' = [call EXCEPT ![c] = NoCall] /\ hurried' = TRUE
      /\ UNCHANGED <<server, stack, res>>
  BY DEF GiveUp
<1>3. /\ call' \in [Slot -> ACall] /\ call'[c] = NoCall
      /\ \A d \in Slot \ {c} : call'[d] = call[d]
  BY <1>1, <1>2 DEF ACall
<1>4. [kind |-> call[c].op] \in Late
  BY <1>1, CallFacts, CallsAreOperations
<1>5. late' \subseteq Late
  BY <1>4 DEF GiveUp, PhoneType
<1>6. ServerAdvances
  BY <1>2, StandingStill
<1>7. (\A s \in Screen : Sound(s, res[s])') /\ NeverBack
  BY <1>2, <1>6, CurrentLasts, AllStaySound
<1>8. PhoneType' /\ MineIsMounted'
  BY <1>2, <1>3, <1>5 DEF PhoneType, MineIsMounted, ACall, NoCall
<1>9. SaleIsShown
  BY <1>3 DEF SaleIsShown, NoCall
<1> QED
  BY <1>2, <1>6, <1>7, <1>8, <1>9 DEF GoodStep, ServerAdvances

-----------------------------------------------------------------------------
(* The steps that move the stack, or end a call. *)

LEMMA MovedIsGood ==
    ASSUME ScreensInv, UNCHANGED <<server, late>>, hurried' \in BOOLEAN,
           stack' \in Stacks, res' = [s \in Screen |-> res'[s]], call' \in [Slot -> ACall],
           \A s \in Screen : res'[s] \in {res[s], Loaded(res[s]), Blank, Loaded(Blank)},
           \A c \in Slot : call'[c].mine
              => /\ call[c].mine /\ call'[c].from = call[c].from
                 /\ call[c].from \in Range(stack')
                 /\ res'[call[c].from] \in {res[call[c].from], Loaded(res[call[c].from])},
           \A c \in Slot : call'[c].answer \in {call[c].answer, "none"},
           ~hurried' => ~hurried /\ \A c \in Slot : call'[c] \in {call[c], NoCall},
           hurried' \/ res'["sheet"] = Blank \/ (JustClosed => JustClosed')
    PROVE  GoodStep
<1> USE DEF ScreensInv
<1>1. ServerAdvances /\ \A a : StillThere(a) => StillThere(a)'
  BY StandingStill DEF server, StillThere, Waits, Closed
<1>2. ASSUME NEW s \in Screen
      PROVE  /\ Sound(s, res[s])'
             /\ Data(s) # Null /\ Data(s)' # Null => Data(s).version <= Data(s)'.version
  <2>1. PICK q : q = res'[s]
    OBVIOUS
  <2>2. /\ Sound(s, res[s]) /\ Sound(s, Blank)
        /\ Sound(s, Loaded(res[s])) /\ Loaded(res[s]).data = res[s].data
        /\ Sound(s, Loaded(Blank)) /\ Loaded(Blank).data = Null /\ Blank.data = Null
    BY BlankIsSound, LoadedIsSound DEF Blank
  <2>3. Sound(s, q)
    BY <2>1, <2>2
  <2>4. q.data \in {res[s].data, Null}
    BY <2>1, <2>2
  <2>5. Sound(s, q)'
    <3>1. CASE q = Blank
      BY <3>1, BlankIsSound
    <3>2. CASE s # "sheet" \/ hurried' \/ (JustClosed => JustClosed')
      <4>1. s # "sheet" \/ \A p : Current(p) => Current(p)'
        BY <1>1, <3>2, CurrentLasts DEF PhoneType
      <4> QED BY <1>1, <2>3, <4>1, SoundLasts
    <3> QED BY <2>1, <3>1, <3>2
  <2>6. Sound(s, res[s])'
    BY <2>1, <2>5
  <2>7. Data(s) # Null => Data(s).version <= Data(s).version
    BY <2>2, ShownVersions DEF Data
  <2>8. Data(s)' = q.data
    BY <2>1 DEF Data
  <2> QED
    BY <2>4, <2>6, <2>7, <2>8 DEF Data
<1>3. NeverBack
  BY <1>2 DEF NeverBack
<1>4. PhoneType'
  BY DEF PhoneType, ACall
<1>5. MineIsMounted'
  <2> SUFFICES ASSUME NEW c \in Slot, call'[c].mine
               PROVE  call'[c].from \in Range(stack') /\ res'[call'[c].from].data # Null
    BY DEF MineIsMounted
  <2>1. res[call[c].from].data # Null
    BY DEF MineIsMounted
  <2>2. call[c].from \in Screen
    BY CallFacts DEF PhoneType, ACall, Screen
  <2>3. Loaded(res[call[c].from]).data = res[call[c].from].data
    BY <2>2, LoadedIsSound
  <2> QED
    BY <2>1, <2>3
<1>6. ASSUME ~hurried'
      PROVE  Patient'
  <2>1. \A c \in Slot : call'[c] \in {call[c], NoCall}
    BY <1>6
  <2>2. \A d \in Slot : call'[d] = NoCall \/ call'[d].mine
    BY <1>6, <2>1 DEF Patient
  <2>3. \A d, e \in Slot : call'[d].from = "sheet" /\ call'[e].from = "sheet" => d = e
    BY <1>6, <2>1 DEF Patient, NoCall
  <2>4. ASSUME NEW d \in Slot, call'[d].op = "ACCEPT", call'[d].answer = "waiting"
        PROVE  StillThere(call[d].amount)'
    <3>1. PICK a : a = call'[d].amount
      OBVIOUS
    <3>2. StillThere(a)
      BY <1>6, <2>1, <2>4, <3>1 DEF Patient, NoCall
    <3>3. StillThere(a)'
      BY <1>1, <3>2
    <3> QED BY <3>1, <3>3
  <2> QED BY <1>6, <2>2, <2>3, <2>4 DEF Patient
<1>7. SaleIsShown
  BY DEF SaleIsShown
<1> QED
  BY <1>1, <1>2, <1>3, <1>4, <1>5, <1>6, <1>7 DEF GoodStep, ServerAdvances

LEMMA GotoFacts ==
    ASSUME NEW screens \in Stacks, NEW fresh \in SUBSET Screen, Goto(screens, fresh)
    PROVE  /\ stack' = screens /\ res' = [s \in Screen |-> res'[s]]
           /\ \A s \in Screen :
                 /\ res'[s] \in {res[s], Loaded(res[s]), Blank, Loaded(Blank)}
                 /\ s \in Range(screens) \ fresh => res'[s] \in {res[s], Loaded(res[s])}
                 /\ s \notin Range(screens) => res'[s] = Blank
<1>1. screens # <<>> => Last(screens) \in Range(screens)
  BY StacksAreSmall DEF Stacks, Last
<1> DEFINE kept == Range(screens) \ fresh
           at(s) == IF s \in kept THEN res[s] ELSE Blank
<1>2. /\ stack' = screens
      /\ res' = [s \in Screen |-> IF screens # <<>> /\ s = Last(screens)
                                  THEN Loaded(at(s)) ELSE at(s)]
  BY DEF Goto
<1> QED
  BY <1>1, <1>2

LEMMA OrphanedFacts ==
    ASSUME NEW calls \in [Slot -> ACall], call' = Orphaned(calls)
    PROVE  /\ call' \in [Slot -> ACall]
           /\ \A c \in Slot :
                 /\ call'[c].from = calls[c].from /\ call'[c].op = calls[c].op
                 /\ call'[c].answer = calls[c].answer
                 /\ call'[c].mine => calls[c].mine /\ res'[calls[c].from] # Blank
                 /\ call'[c].mine = calls[c].mine => call'[c] = calls[c]
                 /\ calls[c].mine /\ res'[calls[c].from] # Blank => call'[c] = calls[c]
<1>1. \A c \in Slot : call'[c] = IF \E s \in Screen : s = calls[c].from /\ res'[s] = Blank
                                 THEN [calls[c] EXCEPT !.mine = FALSE] ELSE calls[c]
  BY DEF Orphaned
<1>2. call' = [c \in Slot |-> call'[c]]
  BY DEF Orphaned
<1>3. ASSUME NEW c \in Slot
      PROVE  /\ call'[c] \in ACall
             /\ call'[c].from = calls[c].from /\ call'[c].op = calls[c].op
             /\ call'[c].answer = calls[c].answer
             /\ call'[c].mine => calls[c].mine /\ res'[calls[c].from] # Blank
             /\ call'[c].mine = calls[c].mine => call'[c] = calls[c]
             /\ calls[c].mine /\ res'[calls[c].from] # Blank => call'[c] = calls[c]
  <2> DEFINE n == [calls[c] EXCEPT !.mine = FALSE]
  <2>1. /\ n \in ACall /\ n.from = calls[c].from /\ n.op = calls[c].op /\ n.mine = FALSE
        /\ n.answer = calls[c].answer /\ (~calls[c].mine => n = calls[c])
        /\ calls[c].from \in Screen /\ calls[c].mine \in BOOLEAN
    BY CallFacts DEF Screen
  <2> HIDE DEF n
  <2>2. call'[c] = IF res'[calls[c].from] = Blank THEN n ELSE calls[c]
    BY <1>1, <2>1 DEF n
  <2>3. CASE res'[calls[c].from] = Blank
    BY <2>1, <2>2, <2>3
  <2>4. CASE res'[calls[c].from] # Blank
    BY <2>1, <2>2, <2>4
  <2> QED BY <2>3, <2>4
<1> QED
  BY <1>2, <1>3

LEMMA GotoIsGood ==
    ASSUME ScreensInv, UNCHANGED <<server, late>>, hurried' \in BOOLEAN,
           NEW screens \in Stacks, NEW fresh \in SUBSET Screen, Goto(screens, fresh),
           NEW calls \in [Slot -> ACall], call' = Orphaned(calls),
           \A c \in Slot : calls[c] \in {call[c], NoCall},
           \A c \in Slot : calls[c].mine => calls[c].from \notin fresh,
           ~hurried' => ~hurried /\ \A c \in Slot : call'[c] = calls[c],
           hurried' \/ "sheet" \notin Range(screens) \/ \A c \in Slot : calls[c] = call[c]
    PROVE  GoodStep
<1>1. /\ stack' = screens /\ res' = [s \in Screen |-> res'[s]]
      /\ \A s \in Screen :
            /\ res'[s] \in {res[s], Loaded(res[s]), Blank, Loaded(Blank)}
            /\ s \in Range(screens) \ fresh => res'[s] \in {res[s], Loaded(res[s])}
            /\ s \notin Range(screens) => res'[s] = Blank
  BY GotoFacts
<1>2. /\ call' \in [Slot -> ACall]
      /\ \A c \in Slot :
            /\ call'[c].from = calls[c].from /\ call'[c].op = calls[c].op
            /\ call'[c].answer = calls[c].answer
            /\ call'[c].mine => calls[c].mine /\ res'[calls[c].from] # Blank
  BY OrphanedFacts
<1>3. ASSUME NEW c \in Slot, call'[c].mine
      PROVE  /\ call[c].mine /\ call'[c].from = call[c].from
             /\ call[c].from \in Range(stack')
             /\ res'[call[c].from] \in {res[call[c].from], Loaded(res[call[c].from])}
  <2>1. calls[c].mine /\ res'[calls[c].from] # Blank /\ call'[c].from = calls[c].from
    BY <1>2, <1>3
  <2>2. calls[c] = call[c]
    BY <2>1 DEF NoCall
  <2>3. call[c].from \in Screen
    BY <2>2, CallFacts DEF Screen
  <2>4. call[c].from \in Range(screens) \ fresh
    BY <1>1, <2>1, <2>2, <2>3
  <2> QED BY <1>1, <2>1, <2>2, <2>3, <2>4
<1>4. \A c \in Slot : call'[c].answer \in {call[c].answer, "none"}
  BY <1>2 DEF NoCall
<1>5. "sheet" \notin Range(screens) => res'["sheet"] = Blank
  BY <1>1 DEF Screen
<1>6. (\A c \in Slot : calls[c] = call[c]) => (JustClosed => JustClosed')
  BY <1>2 DEF JustClosed
<1>7. ~hurried' => ~hurried /\ \A c \in Slot : call'[c] \in {call[c], NoCall}
  OBVIOUS
<1>8. stack' \in Stacks
  BY <1>1
<1>9. hurried' \/ res'["sheet"] = Blank \/ (JustClosed => JustClosed')
  BY <1>5, <1>6
<1> QED
  BY <1>1, <1>2, <1>3, <1>4, <1>7, <1>8, <1>9, MovedIsGood

LEMMA KeptIsNotBlank ==
    ASSUME ScreensInv, NEW c \in Slot, call[c].mine,
           res'[call[c].from] \in {res[call[c].from], Loaded(res[call[c].from])}
    PROVE  res'[call[c].from] # Blank
<1>1. call[c].from \in Screen /\ res[call[c].from].data # Null
  BY CallFacts DEF ScreensInv, PhoneType, ACall, Screen, MineIsMounted
<1>2. Sound(call[c].from, res[call[c].from])
  BY <1>1 DEF ScreensInv
<1>3. Loaded(res[call[c].from]).data = res[call[c].from].data
  BY <1>2, LoadedIsSound
<1> QED
  BY <1>1, <1>3 DEF Blank

LEMMA OpenIsGood == ASSUME ScreensInv, NEW s \in Screen, Open(s)
                    PROVE  GoodStep
<1> DEFINE screens == Append(stack, s)
<1>1. stack \in Stacks /\ call \in [Slot -> ACall] /\ hurried \in BOOLEAN
  BY DEF ScreensInv, PhoneType, ACall
<1>2. \/ stack = <<>> /\ s = "dash"
      \/ stack = <<"dash">> /\ s \in {"sheet", "recap"}
  BY <1>1 DEF Open, Top, Doors, Stacks, Last
<1>3. screens \in Stacks /\ Range(stack) \subseteq Range(screens) \ {s}
  <2>1. CASE stack = <<>> /\ s = "dash"
    <3>1. screens = <<"dash">>
      BY <2>1, Ends
    <3> QED BY <2>1, <3>1, StacksAreSmall DEF Stacks
  <2>2. CASE stack = <<"dash">> /\ s \in {"sheet", "recap"}
    <3>1. screens = <<"dash", s>>
      BY <2>2, Ends
    <3> QED BY <2>2, <3>1, StacksAreSmall DEF Stacks
  <2> QED BY <1>2, <2>1, <2>2
<1> HIDE DEF screens
<1>4. Goto(screens, {s}) /\ call' = Orphaned(call) /\ UNCHANGED <<server, late, hurried>>
  BY DEF Open, screens
<1>5. \A t \in Screen : t \in Range(screens) \ {s} => res'[t] \in {res[t], Loaded(res[t])}
  BY <1>3, <1>4, GotoFacts
<1>6. \A c \in Slot : call[c].mine => call[c].from \in Range(screens) \ {s}
  BY <1>3 DEF ScreensInv, MineIsMounted
<1>7. ASSUME NEW c \in Slot
      PROVE  call'[c] = call[c]
  <2>1. call[c].from \in Screen /\ call[c].mine \in BOOLEAN
    BY <1>1, CallFacts DEF Screen
  <2>2. /\ call'[c].mine => call[c].mine
        /\ call'[c].mine = call[c].mine => call'[c] = call[c]
        /\ call[c].mine /\ res'[call[c].from] # Blank => call'[c] = call[c]
    BY <1>1, <1>4, OrphanedFacts
  <2>5. call'[c].mine \in BOOLEAN
    <3>1. call'[c] \in ACall
      BY <1>1, <1>4, OrphanedFacts
    <3> QED BY <3>1, CallFacts
  <2>3. CASE call[c].mine
    BY <1>5, <1>6, <2>1, <2>2, <2>3, KeptIsNotBlank
  <2>4. CASE ~call[c].mine
    BY <2>1, <2>2, <2>4, <2>5
  <2> QED BY <2>3, <2>4
<1> QED
  BY <1>1, <1>3, <1>4, <1>6, <1>7, GotoIsGood

LEMMA FrontsAreStacks ==
    ASSUME NEW st \in Stacks, st # <<>>
    PROVE  /\ Front(st) \in Stacks
           /\ Append(Front(st), "recap") \in Stacks
           /\ "sheet" \in Range(st) => Front(st) = <<"dash">>
<1>1. CASE \E a : st = <<a>>
  <2>1. PICK a : st = <<a>>
    BY <1>1
  <2>2. Front(st) = <<>> /\ Append(Front(st), "recap") = <<"recap">>
    BY <2>1, Ends
  <2>3. a # "sheet" /\ Range(st) = {a}
    BY <2>1, StacksAreSmall DEF Stacks
  <2> QED BY <2>2, <2>3 DEF Stacks
<1>2. CASE \E a : st = <<"dash", a>>
  <2>1. PICK a : st = <<"dash", a>>
    BY <1>2
  <2>2. Front(st) = <<"dash">> /\ Append(Front(st), "recap") = <<"dash", "recap">>
    BY <2>1, Ends
  <2> QED BY <2>2 DEF Stacks
<1> QED
  BY <1>1, <1>2 DEF Stacks

LEMMA BackIsGood == ASSUME ScreensInv, Back
                    PROVE  GoodStep
<1>1. stack \in Stacks /\ call \in [Slot -> ACall] /\ hurried \in BOOLEAN
  BY DEF ScreensInv, PhoneType, ACall
<1>2. PICK screens \in {Front(stack)} \cup (IF Top("recap") THEN {<<>>} ELSE {}) :
         Goto(screens, {})
  BY DEF Back
<1>3. screens \in Stacks
  BY <1>1, <1>2, FrontsAreStacks DEF Back, Stacks
<1>4. /\ call' = Orphaned(call) /\ hurried' = (hurried \/ call' # call)
      /\ UNCHANGED <<server, late>>
  BY DEF Back
<1>5. hurried' \in BOOLEAN /\ (~hurried' => ~hurried /\ \A c \in Slot : call'[c] = call[c])
  BY <1>1, <1>4
<1> QED
  BY <1>1, <1>2, <1>3, <1>4, <1>5, GotoIsGood

LEMMA AnsweredIsGood == ASSUME ScreensInv, NEW c \in Slot, Answered(c)
                        PROVE  GoodStep
<1> DEFINE rest == [call EXCEPT ![c] = NoCall]
<1>1. /\ stack \in Stacks /\ call \in [Slot -> ACall] /\ hurried \in BOOLEAN
      /\ res = [s \in Screen |-> res[s]]
  BY DEF ScreensInv, PhoneType, ACall
<1>2. /\ rest \in [Slot -> ACall] /\ rest[c] = NoCall
      /\ \A d \in Slot \ {c} : rest[d] = call[d]
  BY <1>1 DEF ACall
<1>3. call[c] \in ACall /\ call[c] # NoCall
  BY <1>1 DEF Answered, NoCall, Answer
<1> HIDE DEF rest
<1>4. UNCHANGED <<server, late>>
  BY DEF Answered
<1>5. \A d \in Slot : rest[d] \in {call[d], NoCall}
  BY <1>2
<1>6. ASSUME call[c].op # "CLOSE" \/ call[c].answer # "ok",
             res' = [s \in Screen |-> res'[s]],
             \A s \in Screen : res'[s] \in {res[s], Loaded(res[s])},
             call' = rest, stack' = stack
      PROVE  GoodStep
  <2>1. \A d \in Slot : call'[d].mine = rest[d].mine
    BY <1>6
  <2>2. hurried' = hurried
    BY <1>1, <2>1 DEF Answered, rest
  <2>4. \A d \in Slot : call'[d].mine => call'[d] = call[d]
    BY <1>2, <1>6 DEF NoCall
  <2>5. \A d \in Slot : call[d].mine => call[d].from \in Screen /\ call[d].from \in Range(stack)
    BY <1>1, CallFacts DEF Screen, ScreensInv, MineIsMounted
  <2>6. \A d \in Slot : call'[d].answer \in {call[d].answer, "none"}
    BY <1>5, <1>6 DEF NoCall
  <2>8. JustClosed => JustClosed'
    BY <1>2, <1>6 DEF JustClosed
  <2>9. call' \in [Slot -> ACall] /\ stack' \in Stacks /\ stack' = stack
    BY <1>1, <1>2, <1>6
  <2>10. \A d \in Slot : call'[d] \in {call[d], NoCall}
    BY <1>5, <1>6
  <2>11. \A d \in Slot : call'[d].mine
            => /\ call[d].mine /\ call'[d].from = call[d].from
               /\ call[d].from \in Range(stack')
               /\ res'[call[d].from] \in {res[call[d].from], Loaded(res[call[d].from])}
    BY <1>6, <2>4, <2>5, <2>9
  <2> QED
    BY <1>1, <1>4, <1>6, <2>2, <2>6, <2>8, <2>9, <2>10, <2>11, MovedIsGood
<1>8. CASE /\ call[c].from = "dash"
           /\ res' = [res EXCEPT !["dash"] =
                         IF call[c].mine /\ call[c].answer = "ok" THEN Loaded(@) ELSE @]
           /\ call' = rest /\ UNCHANGED <<stack, finalized>>
  <2>1. call[c].op # "CLOSE"
    BY <1>3, <1>8, CallFacts
  <2>2. /\ res' = [s \in Screen |-> res'[s]]
        /\ \A s \in Screen : res'[s] \in {res[s], Loaded(res[s])}
    BY <1>1, <1>8
  <2> QED
    BY <1>6, <1>8, <2>1, <2>2
<1>9. CASE /\ call[c].from = "sheet" /\ call[c].answer = "refused"
           /\ call' = rest /\ UNCHANGED <<stack, res, finalized>>
  BY <1>1, <1>6, <1>9
<1>7. ASSUME call[c].from = "sheet", call' = Orphaned(rest),
             LET below == IF stack = <<>> THEN <<>> ELSE Front(stack)
             IN IF call[c].answer = "ok" /\ call[c].op = "ACCEPT"
                THEN Goto(Append(below, "recap"), {"recap"}) ELSE Goto(below, {})
      PROVE  GoodStep
  <2> DEFINE below == IF stack = <<>> THEN <<>> ELSE Front(stack)
  <2>1. /\ below \in Stacks /\ Append(below, "recap") \in Stacks
        /\ "sheet" \in Range(stack) => below = <<"dash">>
    BY <1>1, FrontsAreStacks, StacksAreSmall, Ends DEF Stacks
  <2> HIDE DEF below
  <2>2. PICK screens \in {below, Append(below, "recap")}, fresh \in {{}, {"recap"}} :
           Goto(screens, fresh)
    BY <1>7 DEF below
  <2>3. screens \in Stacks /\ fresh \in SUBSET Screen
    BY <2>1, <2>2 DEF Screen
  <2>4. "sheet" \in Range(stack) => "sheet" \notin Range(screens)
    BY <2>1, <2>2, Ends, StacksAreSmall
  <2>5. \A d \in Slot : rest[d].mine => rest[d].from \notin fresh
    BY <1>2, <2>2, CallFacts
  <2>6. hurried' = (hurried \/ \E d \in Slot : call'[d].mine # rest[d].mine)
    BY DEF Answered, rest
  <2>7. ~hurried' => ~hurried /\ \A d \in Slot : call'[d] = rest[d]
    BY <1>2, <1>7, <2>6, OrphanedFacts
  <2>8. ~hurried' => "sheet" \notin Range(screens)
    BY <1>3, <1>7, <2>4, <2>7 DEF ScreensInv, Patient, MineIsMounted
  <2>9. hurried' \in BOOLEAN
    BY <1>1, <2>6
  <2> QED
    BY <1>2, <1>4, <1>5, <1>7, <2>2, <2>3, <2>5, <2>7, <2>8, <2>9, GotoIsGood
<1> QED
  BY <1>7, <1>8, <1>9 DEF Answered, rest

-----------------------------------------------------------------------------
(* The theorems. *)

LEMMA InitIsGood == Init => ScreensInv
<1> SUFFICES ASSUME Init
             PROVE  ScreensInv
  OBVIOUS
<1>1. ServerType /\ RowTells(row, timeline)
  <2>1. PICK m \in {m \in Mandate : IsMandateValid(m)} :
           row = [status |-> "EN_VENTE", mandate |-> m, buyers |-> 0, best |-> Null,
                  reason |-> Null, offer |-> Null, buyer |-> Null, sold |-> Null,
                  preSuspend |-> Null]
    BY DEF Init
  <2>2. row \in MissionRow
    BY <2>1 DEF MissionRow, Status
  <2>3. timeline = <<>> /\ version = 0
    BY DEF Init
  <2> QED BY <2>1, <2>2, <2>3 DEF ServerType, RowTells, SoldStatus
<1>2. PhoneType
  BY DEF Init, PhoneType, Stacks
<1>3. \A s \in Screen : res[s] = Blank
  BY DEF Init
<1>4. \A s \in Screen : Sound(s, res[s])
  BY <1>3, BlankIsSound
<1>5. MineIsMounted /\ Patient
  BY DEF Init, MineIsMounted, Patient, NoCall
<1> QED
  BY <1>1, <1>2, <1>4, <1>5 DEF ScreensInv

LEMMA NextIsGood == ScreensInv /\ Next => GoodStep
<1> SUFFICES ASSUME ScreensInv, Next
             PROVE  GoodStep
  OBVIOUS
<1>1. CASE BuyerWrites \/ Back \/ ServeLate
  BY <1>1, BuyerWritesIsGood, BackIsGood, ServeLateIsGood
<1>2. CASE \E s \in Screen : Open(s) \/ Refresh(s)
  BY <1>2, OpenIsGood, RefreshIsGood
<1>3. CASE \E s \in Screen : \E i \in DOMAIN res[s].fetches :
              ReadRow(s, i) \/ ReadEvents(s, i) \/ Arrive(s, i) \/ FetchFails(s, i)
  BY <1>3, FetchStepsAreGood
<1>4. CASE \E c \in Slot : Choose(c) \/ Resolve(c) \/ Serve(c) \/ Answered(c) \/ GiveUp(c)
  BY <1>4, ChooseIsGood, ResolveIsGood, ServeIsGood, AnsweredIsGood, GiveUpIsGood
<1> QED
  BY <1>1, <1>2, <1>3, <1>4 DEF Next

LEMMA StutterIsGood == ScreensInv /\ UNCHANGED vars => GoodStep
<1> SUFFICES ASSUME ScreensInv, UNCHANGED vars
             PROVE  GoodStep
  OBVIOUS
<1>1. UNCHANGED <<server, stack, res, call, late, hurried>>
  BY DEF vars, phone
<1>2. ServerAdvances
  BY <1>1, StandingStill DEF ScreensInv
<1>3. \A q : Current(q) => Current(q)'
  BY <1>1, CurrentStays DEF server
<1>4. (\A s \in Screen : Sound(s, res[s])') /\ NeverBack
  BY <1>1, <1>2, <1>3, AllStaySound
<1>5. PhoneType' /\ MineIsMounted' /\ (~hurried => Patient)'
  BY <1>1 DEF ScreensInv, PhoneType, MineIsMounted, Patient, StillThere, Waits, Closed, server
<1>6. SaleIsShown
  BY <1>1 DEF SaleIsShown
<1> QED
  BY <1>2, <1>4, <1>5, <1>6 DEF GoodStep, ScreensInv, ServerAdvances

(* The inductive invariant of the three screens.                             *)
THEOREM ScreensInvariant == Spec => []ScreensInv
<1>1. ScreensInv /\ [Next]_vars => ScreensInv'
  BY NextIsGood, StutterIsGood DEF GoodStep
<1> QED
  BY InitIsGood, <1>1, PTL DEF Spec

(* useApiResource: whatever focuses, refreshes, actions and slow answers, a  *)
(* screen that stays never goes back to an older row.                        *)
THEOREM NoScreenGoesBack == Spec => ShownNeverGoesBack
<1>1. ScreensInv /\ [Next]_vars
         => [\A s \in Screen : Data(s) # Null /\ Data(s)' # Null
                => Data(s).version <= Data(s)'.version]_vars
  BY NextIsGood DEF GoodStep, NeverBack
<1> QED
  BY ScreensInvariant, <1>1, PTL DEF Spec, ShownNeverGoesBack

(* mission-validate: a seller who waits for the answers sells at the amount  *)
(* that the sheet showed.                                                    *)
THEOREM SellsWhatWasShown == Spec => SoldIsWhatWasShown
<1>1. ScreensInv /\ [Next]_vars
         => [\A c \in Slot :
                /\ call[c].op = "ACCEPT" /\ call[c].answer = "waiting" /\ call'[c].answer = "ok"
                /\ ~hurried
                => row'.sold = call[c].amount]_vars
  BY NextIsGood DEF GoodStep, SaleIsShown
<1> QED
  BY ScreensInvariant, <1>1, PTL DEF Spec, SoldIsWhatWasShown

-----------------------------------------------------------------------------
(* The first and the last element of a sequence that satisfy a test. *)

\* Among the subsets of a finite set that are in T, one contains no other.
LEMMA SmallestSubset ==
    ASSUME NEW S, IsFiniteSet(S), NEW T \in SUBSET SUBSET S, T # {}
    PROVE  \E s \in T : \A t \in SUBSET s : t # s => t \notin T
<1>1. IsWellFoundedOn(StrictSubsetOrdering(S), FiniteSubsetsOf(S))
  BY FS_StrictSubsetOrderingWellFounded
<1>2. T \subseteq FiniteSubsetsOf(S)
  BY FS_Subset DEF FiniteSubsetsOf
<1>3. \A X : X # {} /\ X \subseteq FiniteSubsetsOf(S)
     => \E s \in X : \A t \in X : ~(<<t, s>> \in StrictSubsetOrdering(S))
  <2> TAKE X
  <2> HAVE X # {} /\ X \subseteq FiniteSubsetsOf(S)
  <2> QED
    BY <1>1, WFMin
<1>4. PICK s \in T : \A t \in T : ~(<<t, s>> \in StrictSubsetOrdering(S))
  BY <1>2, <1>3
<1>5. \A t \in SUBSET s : t # s => t \notin T
  <2> TAKE t \in SUBSET s
  <2> SUFFICES ASSUME t # s, t \in T PROVE FALSE
    OBVIOUS
  <2>1. /\ <<t, s>> \in (SUBSET S) \X (SUBSET S)
        /\ <<t, s>>[1] \subseteq <<t, s>>[2] /\ <<t, s>>[1] # <<t, s>>[2]
    OBVIOUS
  <2>2. <<t, s>> \in StrictSubsetOrdering(S)
    BY <2>1 DEF StrictSubsetOrdering
  <2> QED
    BY <1>4, <2>2
<1> QED
  BY <1>5

LEMMA MinOf ==
    ASSUME NEW n \in Nat, NEW I \in SUBSET (1 .. n), I # {}
    PROVE  Min(I) \in I /\ \A i \in I : Min(I) <= i
<1> DEFINE below(i) == 1 .. i
           T == {below(i) : i \in I}
<1>1. IsFiniteSet(1 .. n)
  BY FS_Interval
<1>2. T \in SUBSET SUBSET (1 .. n) /\ T # {}
  <2>1. \A i \in I : below(i) \subseteq 1 .. n
    OBVIOUS
  <2> HIDE DEF below
  <2>2. T \subseteq SUBSET (1 .. n) /\ T # {}
    BY <2>1
  <2> QED BY <2>2
<1>3. PICK s \in T : \A t \in SUBSET s : t # s => t \notin T
  BY <1>1, <1>2, SmallestSubset
<1>4. PICK m \in I : s = below(m)
  BY <1>3, Zenon
<1>5. ASSUME NEW i \in I, i < m
      PROVE  FALSE
  <2>1. below(i) \in SUBSET s /\ below(i) \in T
    BY <1>4, <1>5
  <2>2. m \in s /\ m \notin below(i)
    BY <1>4, <1>5
  <2> QED BY <1>3, <2>1, <2>2
<1>6. m \in I /\ \A i \in I : m =< i
  BY <1>5
<1> HIDE DEF T
<1> QED
  BY <1>6 DEF Min

LEMMA MaxOf ==
    ASSUME NEW n \in Nat, NEW I \in SUBSET (1 .. n), I # {}
    PROVE  Max(I) \in I /\ \A i \in I : i <= Max(I)
<1> DEFINE above(i) == i .. n
           T == {above(i) : i \in I}
<1>1. IsFiniteSet(1 .. n)
  BY FS_Interval
<1>2. T \in SUBSET SUBSET (1 .. n) /\ T # {}
  <2>1. \A i \in I : above(i) \subseteq 1 .. n
    OBVIOUS
  <2> HIDE DEF above
  <2>2. T \subseteq SUBSET (1 .. n) /\ T # {}
    BY <2>1
  <2> QED BY <2>2
<1>3. PICK s \in T : \A t \in SUBSET s : t # s => t \notin T
  BY <1>1, <1>2, SmallestSubset
<1>4. PICK m \in I : s = above(m)
  BY <1>3, Zenon
<1>5. ASSUME NEW i \in I, m < i
      PROVE  FALSE
  <2>1. above(i) \in SUBSET s /\ above(i) \in T
    BY <1>4, <1>5
  <2>2. m \in s /\ m \notin above(i)
    BY <1>4, <1>5
  <2> QED BY <1>3, <2>1, <2>2
<1>6. m \in I /\ \A i \in I : m >= i
  BY <1>5
<1> HIDE DEF T
<1> QED
  BY <1>6 DEF Max

LEMMA FirstSale ==
    ASSUME NEW events \in Seq(Event)
    PROVE  LET i == SelectInSeq(events, IsSale)
           IN /\ i # 0 => i \in 1 .. Len(events) /\ IsSale(events[i])
              /\ (\E j \in 1 .. Len(events) : IsSale(events[j])) => i # 0
<1> DEFINE I == {i \in 1 .. Len(events) : IsSale(events[i])}
<1>1. SelectInSeq(events, IsSale) = IF I # {} THEN Min(I) ELSE 0
  BY DEF SelectInSeq
<1>2. I # {} => Min(I) \in I
  <2>1. Len(events) \in Nat /\ I \in SUBSET (1 .. Len(events))
    OBVIOUS
  <2> HIDE DEF I
  <2> QED BY <2>1, MinOf
<1> QED
  BY <1>1, <1>2

LEMMA FirstPriced ==
    ASSUME NEW events \in Seq(Event)
    PROVE  LET i == SelectInSeq(events, Priced)
           IN /\ i # 0 => i \in 1 .. Len(events) /\ Priced(events[i])
              /\ \A j \in 1 .. Len(events) : Priced(events[j]) => i # 0 /\ i <= j
<1> DEFINE I == {i \in 1 .. Len(events) : Priced(events[i])}
<1>1. SelectInSeq(events, Priced) = IF I # {} THEN Min(I) ELSE 0
  BY DEF SelectInSeq
<1>2. I # {} => Min(I) \in I /\ \A j \in I : Min(I) <= j
  <2>1. Len(events) \in Nat /\ I \in SUBSET (1 .. Len(events))
    OBVIOUS
  <2> HIDE DEF I
  <2> QED BY <2>1, MinOf
<1>3. \A j \in 1 .. Len(events) : Priced(events[j]) => j \in I
  OBVIOUS
<1>4. \A i \in I : i # 0 /\ i \in 1 .. Len(events) /\ Priced(events[i])
  OBVIOUS
<1> HIDE DEF I
<1> QED
  BY <1>1, <1>2, <1>3, <1>4

LEMMA LastPriced ==
    ASSUME NEW events \in Seq(Event)
    PROVE  LET i == SelectLastInSeq(events, Priced)
           IN /\ i # 0 => i \in 1 .. Len(events) /\ Priced(events[i])
              /\ \A j \in 1 .. Len(events) : Priced(events[j]) => i # 0 /\ j <= i
<1> DEFINE I == {i \in 1 .. Len(events) : Priced(events[i])}
<1>1. SelectLastInSeq(events, Priced) = IF I # {} THEN Max(I) ELSE 0
  BY DEF SelectLastInSeq
<1>2. I # {} => Max(I) \in I /\ \A j \in I : j <= Max(I)
  <2>1. Len(events) \in Nat /\ I \in SUBSET (1 .. Len(events))
    OBVIOUS
  <2> HIDE DEF I
  <2> QED BY <2>1, MaxOf
<1> QED
  BY <1>1, <1>2

-----------------------------------------------------------------------------
(* The report. *)

\* The row that tells a sale has its price, and the event that tells it.
LEMMA SaleOfTheTimeline ==
    ASSUME ServerType, RowTells(row, timeline), row.sold # Null
    PROVE  \E k \in 1 .. Len(timeline) :
              /\ timeline[k].amount = row.sold /\ Priced(timeline[k]) /\ IsSale(timeline[k])
              /\ \A i \in 1 .. Len(timeline) : IsSale(timeline[i]) <=> i = k
              /\ {e \in Range(timeline) : IsSale(e)} = {timeline[k]}
<1>1. PICK k \in 1 .. Len(timeline) :
         /\ timeline[k].amount = row.sold
         /\ \A i \in 1 .. Len(timeline) : IsSale(timeline[i]) <=> i = k
  BY DEF RowTells
<1>2. timeline \in Seq(Event) /\ DOMAIN timeline = 1 .. Len(timeline)
  BY DEF ServerType
<1>3. {e \in Range(timeline) : IsSale(e)} = {timeline[k]}
  BY <1>1, <1>2 DEF Range
<1> QED
  BY <1>1, <1>3 DEF Priced

LEMMA NoSaleInTheTimeline ==
    ASSUME ServerType, RowTells(row, timeline), row.sold = Null
    PROVE  {e \in Range(timeline) : IsSale(e)} = {}
<1>1. timeline \in Seq(Event) /\ DOMAIN timeline = 1 .. Len(timeline)
  BY DEF ServerType
<1> QED
  BY <1>1 DEF RowTells, Range

\* A page tells what the timeline told then, backwards.
LEMMA PageFacts ==
    ASSUME ServerType, NEW page \in Seq(Event), NEW n \in 0 .. Len(timeline), IsPage(page, n)
    PROVE  /\ \A j \in 1 .. Len(page) :
                 (n - j) + 1 \in 1 .. n /\ page[j] = timeline[(n - j) + 1]
           /\ Len(timeline) <= Page
                 => /\ Len(page) = n
                    /\ \A i \in 1 .. n : /\ (n - i) + 1 \in 1 .. Len(page)
                                         /\ page[(n - i) + 1] = timeline[i]
<1>1. Len(timeline) \in Nat /\ Page \in Nat
  BY ScreensAssumption DEF ServerType
<1>2. Len(page) = IF n < Page THEN n ELSE Page
  BY DEF IsPage
<1>3. \A j \in 1 .. Len(page) : (n - j) + 1 \in 1 .. n /\ page[j] = timeline[(n - j) + 1]
  BY <1>1, <1>2 DEF IsPage
<1>4. ASSUME Len(timeline) <= Page
      PROVE  /\ Len(page) = n
             /\ \A i \in 1 .. n : /\ (n - i) + 1 \in 1 .. Len(page)
                                  /\ page[(n - i) + 1] = timeline[i]
  <2>1. Len(page) = n
    BY <1>1, <1>2, <1>4
  <2>2. \A i \in 1 .. n : (n - i) + 1 \in 1 .. n /\ (n - ((n - i) + 1)) + 1 = i
    OBVIOUS
  <2> QED BY <1>3, <2>1, <2>2
<1> QED
  BY <1>3, <1>4

\* The sale and the first offer, when the whole timeline fits the page.
LEMMA WholePage ==
    ASSUME ServerType, NEW page \in Seq(Event), NEW n \in 0 .. Len(timeline), IsPage(page, n),
           Len(timeline) <= Page, NEW k \in 1 .. n, Priced(timeline[k]), IsSale(timeline[k]),
           \A i \in 1 .. Len(timeline) : IsSale(timeline[i]) <=> i = k
    PROVE  LET sale == SelectInSeq(page, IsSale)
           IN /\ sale # 0 /\ page[sale] = timeline[k]
              /\ FirstOffer(page) = AmountAt(timeline, SelectInSeq(timeline, Priced))
<1> DEFINE sale  == SelectInSeq(page, IsSale)
           last  == SelectLastInSeq(page, Priced)
           first == SelectInSeq(timeline, Priced)
<1>0. timeline \in Seq(Event) /\ Len(timeline) \in Nat
  BY DEF ServerType
<1>1. /\ Len(page) = n
      /\ \A j \in 1 .. n : (n - j) + 1 \in 1 .. n /\ page[j] = timeline[(n - j) + 1]
      /\ \A i \in 1 .. n : page[(n - i) + 1] = timeline[i]
  BY PageFacts
<1>2. n \in Nat /\ k \in 1 .. Len(timeline) /\ \A i \in 1 .. n : i \in 1 .. Len(timeline)
  BY <1>0
<1>3. sale # 0 /\ sale \in 1 .. n /\ IsSale(page[sale])
  BY <1>1, <1>2, FirstSale
<1>4. first # 0 /\ first <= k /\ first \in 1 .. Len(timeline) /\ Priced(timeline[first])
  BY <1>0, <1>2, FirstPriced
<1>5. \A j \in 1 .. Len(timeline) : Priced(timeline[j]) => first <= j
  BY <1>0, FirstPriced
<1>6. last # 0 => last \in 1 .. n /\ Priced(page[last])
  BY <1>1, LastPriced
<1>7. \A j \in 1 .. n : Priced(page[j]) => last # 0 /\ j <= last
  BY <1>1, LastPriced
<1> HIDE DEF sale, last, first
<1>8. page[sale] = timeline[k]
  BY <1>1, <1>2, <1>3
<1>9. first \in 1 .. n
  BY <1>2, <1>4
<1>10. last # 0 /\ (n - first) + 1 <= last
  BY <1>1, <1>4, <1>7, <1>9
<1>11. first <= (n - last) + 1
  BY <1>1, <1>2, <1>5, <1>6, <1>10
<1>12. last = (n - first) + 1
  BY <1>2, <1>6, <1>9, <1>10, <1>11
<1>13. page[last] = timeline[first]
  BY <1>1, <1>9, <1>12
<1>14. FirstOffer(page) = AmountAt(timeline, first)
  BY <1>4, <1>10, <1>13 DEF FirstOffer, AmountAt, last
<1> QED
  BY <1>3, <1>8, <1>14 DEF sale, first

LEMMA RecapIsRight ==
    ASSUME ScreensInv, Data("recap") # Null,
           NEW recap \in MissionRecap(Data("recap").row, Data("recap").events)
    PROVE  LET sales == {e \in Range(timeline) : IsSale(e)}
               byMandate == \E e \in sales : e.kind = "AUTO_ACCEPT"
           IN /\ recap.kind = "STOPPED_NO_SALE" <=> sales = {}
              /\ recap.kind = "SOLD_ZERO_CLICK" => byMandate
              /\ \A e \in sales : recap.amount = e.amount
              /\ sales # {} /\ Len(timeline) <= Page
                    => /\ byMandate => recap.kind = "SOLD_ZERO_CLICK"
                       /\ recap.first = AmountAt(timeline, SelectInSeq(timeline, Priced))
<1> DEFINE sales == {e \in Range(timeline) : IsSale(e)}
           byMandate == \E e \in sales : e.kind = "AUTO_ACCEPT"
           r == Data("recap").row
           events == Data("recap").events
           sale == SelectInSeq(events, IsSale)
           first == AmountAt(timeline, SelectInSeq(timeline, Priced))
<1>1. /\ ServerType /\ RowTells(row, timeline)
      /\ Sound("recap", res["recap"])
  BY DEF ScreensInv, Screen
<1>2. Data("recap") \in Shown /\ Data("recap").events # Null /\ HasRead(res["recap"], Data("recap"))
  BY <1>1 DEF Sound, Resource, Data, HasRead
<1>3. Frozen(r) /\ Told(Data("recap")) /\ events \in Seq(Event)
  BY <1>1, <1>2 DEF Sound, Shown
<1>4. /\ r.status \in {"VENDU", "MISSION_TERMINEE", "ARRETEE"}
      /\ recap = IF r.sold = Null
                 THEN [kind |-> "STOPPED_NO_SALE", amount |-> Null, first |-> Null]
                 ELSE [kind |-> IF sale # 0 /\ events[sale].kind = "AUTO_ACCEPT"
                                THEN "SOLD_ZERO_CLICK" ELSE "SOLD_BY_HUMAN",
                       amount |-> r.sold, first |-> FirstOffer(events)]
  BY DEF MissionRecap, Doors
<1>5. CASE r.sold = Null
  <2>1. row.status = "ARRETEE"
    BY <1>3, <1>4, <1>5 DEF Frozen, SoldStatus
  <2>2. sales = {}
    BY <1>1, <2>1, NoSaleInTheTimeline DEF RowTells, SoldStatus
  <2>3. recap.kind = "STOPPED_NO_SALE"
    BY <1>4, <1>5
  <2> HIDE DEF sales
  <2> QED BY <2>2, <2>3 DEF sales
<1>6. CASE r.sold # Null
  <2>1. row.sold = r.sold
    BY <1>3, <1>6 DEF Frozen
  <2>2. PICK k \in 1 .. Len(timeline) :
           /\ timeline[k].amount = r.sold /\ Priced(timeline[k]) /\ IsSale(timeline[k])
           /\ \A i \in 1 .. Len(timeline) : IsSale(timeline[i]) <=> i = k
           /\ sales = {timeline[k]}
    BY <1>1, <1>6, <2>1, SaleOfTheTimeline
  <2>3. /\ recap.kind = IF sale # 0 /\ events[sale].kind = "AUTO_ACCEPT"
                        THEN "SOLD_ZERO_CLICK" ELSE "SOLD_BY_HUMAN"
        /\ recap.amount = r.sold /\ recap.first = FirstOffer(events)
    BY <1>4, <1>6
  <2>4. PICK n \in 0 .. Len(timeline) :
           IsPage(events, n) /\ \E i \in 1 .. n : IsSale(timeline[i])
    BY <1>2, <1>3, <1>6 DEF Told
  <2>5. k \in 1 .. n /\ n \in Nat
    BY <1>1, <2>2, <2>4 DEF ServerType
  <2>6. sale # 0 => events[sale] = timeline[k]
    <3> SUFFICES ASSUME sale # 0 PROVE events[sale] = timeline[k]
      OBVIOUS
    <3>1. sale \in 1 .. Len(events) /\ IsSale(events[sale])
      BY <1>3, FirstSale
    <3>2. \A j \in 1 .. Len(events) :
             (n - j) + 1 \in 1 .. n /\ events[j] = timeline[(n - j) + 1]
      BY <1>1, <1>3, <2>4, PageFacts
    <3>3. \A i \in 1 .. n : i \in 1 .. Len(timeline)
      BY <1>1 DEF ServerType
    <3> HIDE DEF sale, events
    <3> QED BY <2>2, <3>1, <3>2, <3>3
  <2>7. ASSUME Len(timeline) <= Page
        PROVE  /\ sale # 0 /\ events[sale] = timeline[k]
               /\ FirstOffer(events) = first
    BY <1>1, <1>3, <2>2, <2>4, <2>5, <2>7, WholePage
  <2>8. byMandate <=> timeline[k].kind = "AUTO_ACCEPT"
    BY <2>2
  <2>9. sales # {} /\ \A e \in sales : recap.amount = e.amount
    BY <2>2, <2>3
  <2> HIDE DEF sales, byMandate, sale, events, first
  <2>10. recap.kind # "STOPPED_NO_SALE"
    BY <2>3
  <2>11. recap.kind = "SOLD_ZERO_CLICK" => byMandate
    BY <2>3, <2>6, <2>8
  <2>12. Len(timeline) <= Page
           => (byMandate => recap.kind = "SOLD_ZERO_CLICK") /\ recap.first = first
    BY <2>3, <2>7, <2>8
  <2> QED BY <2>9, <2>10, <2>11, <2>12 DEF sales, byMandate, first
<1> QED
  BY <1>5, <1>6

(* mission-recap: the report tells the sale that was made, its amount and who *)
(* concluded it, although it has read the row and the timeline apart.        *)
THEOREM RecapIsTheSale == Spec => []RecapTellsTheSale
<1>1. ScreensInv => RecapTellsTheSale
  BY RecapIsRight DEF RecapTellsTheSale
<1> QED
  BY <1>1, ScreensInvariant, PTL
=============================================================================
