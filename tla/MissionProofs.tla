---------------------------- MODULE MissionProofs ----------------------------
(***************************************************************************)
(* TLAPS proofs about Mission.                                             *)
(***************************************************************************)
EXTENDS Mission, FiniteSetTheorems, TLAPS

Over == {"ARRETEE", "EXPIREE", "MISSION_TERMINEE"}
SoldStatus == {"VENDU", "MISSION_TERMINEE"}
SaleKind == {"AUTO_ACCEPT", "SALE_CONFIRMED"}

-----------------------------------------------------------------------------
(* Types. *)

Fields == {"status", "mandate", "buyers", "best", "reason", "offer", "buyer", "sold",
           "preSuspend", "notifiedAt"}

IsPatch(p) ==
    /\ "status" \in DOMAIN p /\ p.status \in Status
    /\ "mandate" \notin DOMAIN p /\ "buyers" \notin DOMAIN p
    /\ "best" \in DOMAIN p => p.best \in Amount \cup {Null}
    /\ "reason" \in DOMAIN p => p.reason \in Reason \cup {Null}
    /\ "offer" \in DOMAIN p => p.offer \in Amount \cup {Null}
    /\ "buyer" \in DOMAIN p => p.buyer \in Buyer \cup {Null}
    /\ "sold" \in DOMAIN p => p.sold \in Amount
    /\ "preSuspend" \in DOMAIN p => p.preSuspend \in Status \cup {Null}
    /\ "notifiedAt" \in DOMAIN p => p.notifiedAt \in 0 .. MaxHour
    \* The reason and the buyer of a slate are written together, with the offer.
    /\ "reason" \in DOMAIN p <=> "buyer" \in DOMAIN p
    /\ "reason" \in DOMAIN p => (p.reason # Null <=> p.buyer # Null)
    /\ "reason" \in DOMAIN p /\ p.reason \in OfferReason
          => "offer" \in DOMAIN p /\ p.offer # Null
    /\ "offer" \in DOMAIN p => "reason" \in DOMAIN p

IsWork(q) ==
    /\ {"step", "patch", "entries", "notify", "lastSeen", "newBuyer", "fresh"} \subseteq DOMAIN q
    /\ q.step \in {"count", "notify", "write"}
    /\ IsPatch(q.patch)
    /\ q.entries \subseteq Event

IsRequest(q) ==
    /\ {"step", "fresh"} \subseteq DOMAIN q
    /\ \/ q.step = "idle" /\ q.fresh = FALSE
       \/ q.step = "activate"
       \/ q.step = "expire" /\ "op" \in DOMAIN q /\ q.op \in Operation
       \/ IsWork(q)

TypeInv ==
    /\ mission \in MissionRow \cup {Null}
    /\ events \subseteq Event
    /\ received \in 0 .. MaxMessages /\ hour \in 0 .. MaxHour /\ crashes \in 0 .. MaxCrashes
    /\ alerts \in [0 .. MaxHour -> Nat]
    /\ {overdue, overwritten} \subseteq BOOLEAN
    /\ req = [r \in Request |-> req[r]]
    /\ \A r \in Request : IsRequest(req[r])
    /\ mission = Null => events = {} /\ \A r \in Request : req[r].step = "idle"

-----------------------------------------------------------------------------
(* What is promised: of a patch on a row, of a row, and of the events. *)

PatchIsHonest(p, entries, row, evs) ==
    /\ "sold" \in DOMAIN p
          => /\ p.sold >= row.mandate.prixMini
             /\ \E e \in entries : e.kind \in SaleKind /\ e.amount = p.sold
    /\ p.status \in SoldStatus => "sold" \in DOMAIN p \/ row.sold # Null
    /\ "offer" \in DOMAIN p /\ p.offer # Null
          => /\ p.offer >= row.mandate.prixMini
             /\ \E s \in entries : s.kind = "SUBMITTED" /\ s.amount = p.offer
    /\ \A e \in entries : e.kind \in SaleKind
          => /\ "sold" \in DOMAIN p
             /\ e.amount >= row.mandate.prixMini
             /\ e.kind = "AUTO_ACCEPT" => row.mandate.autoAdjuge
             /\ e.kind = "SALE_CONFIRMED"
                   => \E s \in evs : s.kind = "SUBMITTED" /\ s.amount = e.amount

RowIsHonest(row, evs) ==
    /\ row.sold # Null
          => /\ row.sold >= row.mandate.prixMini
             /\ \E e \in evs : e.kind \in SaleKind /\ e.amount = row.sold
    /\ row.offer # Null
          => /\ row.offer >= row.mandate.prixMini
             /\ \E s \in evs : s.kind = "SUBMITTED" /\ s.amount = row.offer
    /\ row.status \in SoldStatus => row.sold # Null

EventsAreHonest(row, evs) ==
    \A e \in evs : e.kind \in SaleKind
       => /\ row.sold # Null
          /\ e.amount >= row.mandate.prixMini
          /\ e.kind = "AUTO_ACCEPT" => row.mandate.autoAdjuge
          /\ e.kind = "SALE_CONFIRMED"
                => \E s \in evs : s.kind = "SUBMITTED" /\ s.amount = e.amount

HonestInv ==
    mission # Null
       => /\ RowIsHonest(mission, events)
          /\ EventsAreHonest(mission, events)
          /\ \A r \in Request : IsWork(req[r])
                => PatchIsHonest(req[r].patch, req[r].entries, mission, events)

-----------------------------------------------------------------------------
(* A fresh request goes on from the status the row has now. *)

StaysOver(from, to) ==
    /\ from \in Over => to = from
    /\ from = "VENDU" => to \in SoldStatus

FreshInv ==
    \A r \in Request : req[r].fresh
       => /\ req[r].step = "activate" => mission.status = "BROUILLON_MANDAT"
          /\ req[r].step = "expire" => mission.status \in Expirable
          /\ IsWork(req[r]) => StaysOver(mission.status, req[r].patch.status)

Inv == TypeInv /\ HonestInv /\ FreshInv

-----------------------------------------------------------------------------
(* The transition table. *)
LEMMA AfterFacts ==
    ASSUME NEW from, NEW event, NEW to \in After(from, event)
    PROVE  /\ to \in Status
           /\ StaysOver(from, to)
           /\ to \in SoldStatus => event \in {"SALE_CONFIRMED", "MISSION_FINALIZED"}
           /\ event = "SALE_CONFIRMED" => to = "VENDU"
           /\ event = "MISSION_FINALIZED" => from = "VENDU"
           /\ event = "BUYER_MESSAGE" => to = "NEGOCIATION_ACTIVE"
BY DEF After, Transitions, Resumable, Stoppable, Expirable, StaysOver, Over, SoldStatus, Status

LEMMA PatchedIsRow ==
    ASSUME NEW row \in MissionRow, NEW p, IsPatch(p)
    PROVE  /\ Patched(row, p) \in MissionRow
           /\ Patched(row, p).mandate = row.mandate
           /\ Patched(row, p).status = p.status
           /\ Patched(row, p).sold = IF "sold" \in DOMAIN p THEN p.sold ELSE row.sold
           /\ Patched(row, p).offer = IF "offer" \in DOMAIN p THEN p.offer ELSE row.offer
           /\ Patched(row, p).reason = IF "reason" \in DOMAIN p THEN p.reason ELSE row.reason
           /\ Patched(row, p).buyer = IF "buyer" \in DOMAIN p THEN p.buyer ELSE row.buyer
           /\ Patched(row, p).buyers = row.buyers
<1>1. DOMAIN row = Fields
  BY DEF MissionRow, Fields
<1>2. Patched(row, p) = [f \in Fields |-> IF f \in DOMAIN p THEN p[f] ELSE row[f]]
  BY <1>1 DEF Patched
<1>3. Patched(row, p) = [status |-> p.status, mandate |-> row.mandate, buyers |-> row.buyers,
         best |-> IF "best" \in DOMAIN p THEN p.best ELSE row.best,
         reason |-> IF "reason" \in DOMAIN p THEN p.reason ELSE row.reason,
         offer |-> IF "offer" \in DOMAIN p THEN p.offer ELSE row.offer,
         buyer |-> IF "buyer" \in DOMAIN p THEN p.buyer ELSE row.buyer,
         sold |-> IF "sold" \in DOMAIN p THEN p.sold ELSE row.sold,
         preSuspend |-> IF "preSuspend" \in DOMAIN p THEN p.preSuspend ELSE row.preSuspend,
         notifiedAt |-> IF "notifiedAt" \in DOMAIN p THEN p.notifiedAt ELSE row.notifiedAt]
  BY <1>2 DEF Fields, IsPatch
<1> QED BY <1>3 DEF IsPatch, MissionRow

LEMMA NullFacts ==
    /\ Null \notin Status /\ Null \notin Reason /\ Null \notin Buyer /\ Null \notin Amount
    /\ OfferReason \subseteq Reason /\ Resumable \subseteq Status
    /\ \A row \in MissionRow :
          /\ row.status \in Status /\ row.preSuspend \in Status \cup {Null}
          /\ row.reason \in Reason \cup {Null}
BY MissionAssumption DEF Reason, Resumable, Status, MissionRow

-----------------------------------------------------------------------------
(* Every plan is made of a patch and events that keep the promise. *)

PlanIsHonest(plan, row, evs) ==
    /\ plan = [patch |-> plan.patch, entries |-> plan.entries, notify |-> plan.notify]
    /\ IsPatch(plan.patch)
    /\ plan.entries \subseteq Event
    /\ PatchIsHonest(plan.patch, plan.entries, row, evs)
    /\ StaysOver(row.status, plan.patch.status)

\* A plan that sells nothing and submits nothing.
LEMMA QuietPlan ==
    ASSUME NEW row, NEW evs, NEW patch, NEW entries, NEW notify,
           IsPatch(patch),
           entries \subseteq {Contact(b) : b \in Buyer \cup {Null}}
                               \cup {Ending("MISSION_FINALIZED")},
           "sold" \notin DOMAIN patch, "offer" \in DOMAIN patch => patch.offer = Null,
           patch.status \in SoldStatus => row.sold # Null,
           StaysOver(row.status, patch.status)
    PROVE  PlanIsHonest(Plan(patch, entries, notify), row, evs)
<1>1. \A e \in entries : e \in Event /\ e.kind \in {"CONTACT", "MISSION_FINALIZED"}
  BY DEF Contact, Ending, Entry, Event
<1> QED BY <1>1 DEF PlanIsHonest, Plan, PatchIsHonest, SaleKind

LEMMA SellerPlans ==
    ASSUME NEW row \in MissionRow, NEW evs, RowIsHonest(row, evs),
           NEW plan \in Suspend(row) \cup Resume(row) \cup Stop(row) \cup Finalize(row)
                        \cup CloseValidation(row)
    PROVE  PlanIsHonest(plan, row, evs)
<1>0. row.status \in Status /\ row.buyer \in Buyer \cup {Null}
  BY DEF MissionRow
<1>1. CASE plan \in Suspend(row)
  <2> PICK to \in After(row.status, "SUSPENDED") :
         plan = Plan([status |-> to, preSuspend |-> row.status], {}, Null)
    BY <1>1 DEF Suspend
  <2> QED BY <1>0, AfterFacts, QuietPlan DEF IsPatch
<1>2. CASE plan \in Resume(row)
  <2> PICK to \in Resumable :
         /\ row.status = "SUSPENDUE"
         /\ plan = Plan([status |-> to, preSuspend |-> Null], {}, Null)
    BY <1>2 DEF Resume
  <2>1. IsPatch([status |-> to, preSuspend |-> Null])
    BY DEF IsPatch, Resumable, Status
  <2> QED BY <2>1, QuietPlan DEF Resumable, SoldStatus, StaysOver, Over
<1>3. CASE plan \in Stop(row)
  <2> PICK to \in After(row.status, "STOPPED") : plan = Plan([status |-> to], {}, Null)
    BY <1>3 DEF Stop
  <2> QED BY AfterFacts, QuietPlan DEF IsPatch
<1>4. CASE plan \in Finalize(row)
  <2> PICK to \in After(row.status, "MISSION_FINALIZED") :
         plan = Plan([status |-> to], {Ending("MISSION_FINALIZED")}, Null)
    BY <1>4 DEF Finalize
  <2>1. row.sold # Null
    BY AfterFacts DEF RowIsHonest, SoldStatus
  <2> QED BY <2>1, AfterFacts, QuietPlan DEF IsPatch
<1>5. CASE plan \in CloseValidation(row)
  <2> PICK to \in After(row.status, "VALIDATION_RESOLVED") :
         plan = Plan([status |-> to, reason |-> Null, offer |-> Null, buyer |-> Null],
                     {Contact(row.buyer)}, Null)
    BY <1>5 DEF CloseValidation
  <2>1. IsPatch([status |-> to, reason |-> Null, offer |-> Null, buyer |-> Null])
    BY AfterFacts, NullFacts DEF IsPatch
  <2> QED BY <1>0, <2>1, AfterFacts, QuietPlan
<1> QED BY <1>1, <1>2, <1>3, <1>4, <1>5

LEMMA BestIsAnAmount ==
    ASSUME NEW row \in MissionRow, NEW a \in Amount
    PROVE  BestOf(row, a) \in Amount
BY DEF BestOf, MissionRow

\* The seller can only accept the offer of the slate, which is above the floor.
LEMMA AcceptPlans ==
    ASSUME NEW row \in MissionRow, NEW evs, RowIsHonest(row, evs), NEW plan \in AcceptOffer(row)
    PROVE  PlanIsHonest(plan, row, evs)
<1> DEFINE patch(to) == [status |-> to, sold |-> row.offer, best |-> BestOf(row, row.offer),
                         reason |-> Null, offer |-> Null, buyer |-> Null]
           entry == Entry("SALE_CONFIRMED", row.buyer, row.offer)
<1>1. PICK to \in After(row.status, "SALE_CONFIRMED") :
         /\ row.status = "EN_ATTENTE_VALIDATION" /\ row.offer # Null
         /\ plan = Plan(patch(to), {entry}, "SOLD")
  BY DEF AcceptOffer
<1>2. row.offer \in Amount /\ row.buyer \in Buyer \cup {Null} /\ BestOf(row, row.offer) \in Amount
  BY <1>1, BestIsAnAmount DEF MissionRow
<1>3. IsPatch(patch(to))
  BY <1>2, AfterFacts, NullFacts DEF IsPatch
<1>4. entry \in Event /\ entry.kind = "SALE_CONFIRMED" /\ entry.amount = row.offer
  BY <1>2 DEF Entry, Event
<1>5. PatchIsHonest(patch(to), {entry}, row, evs)
  BY <1>1, <1>4 DEF PatchIsHonest, RowIsHonest, SaleKind
<1>6. StaysOver(row.status, to)
  BY AfterFacts
<1> QED BY <1>1, <1>3, <1>4, <1>5, <1>6 DEF PlanIsHonest, Plan

-----------------------------------------------------------------------------
(* The decision rules: what is sold or submitted is an offer at or above the *)
(* floor, and what is sold at once was opted for.                            *)
LEMMA DecisionFacts ==
    ASSUME NEW mandate, NEW m \in Message
    PROVE  LET action == DecideNegotiation(mandate, m)
           IN \/ action = Reply
              \/ /\ action = Accept
                 /\ m.kind = "OFFER" /\ ~(m.amount < mandate.prixMini) /\ mandate.autoAdjuge
              \/ /\ m.kind = "OFFER" /\ ~(m.amount < mandate.prixMini)
                 /\ \E reason \in OfferReason : action = Ask(reason)
              \/ /\ m.kind # "OFFER"
                 /\ \E reason \in Reason \ OfferReason : action = Ask(reason)
<1>1. CASE m.kind = "OFFER"
  BY <1>1 DEF DecideNegotiation, DecideOffer, OfferReason
<1>2. CASE m.kind = "OFF_PLATFORM_PAYMENT"
  BY <1>2 DEF DecideNegotiation, Reason, OfferReason
<1>3. CASE m.kind = "COMPLEX_CASE"
  BY <1>3 DEF DecideNegotiation, Reason, OfferReason
<1>4. CASE m.kind \in {"QUESTION", "DELIVERY_REQUEST"}
  BY <1>4 DEF DecideNegotiation
<1> QED BY <1>1, <1>2, <1>3, <1>4 DEF Message

LEMMA MessageFacts ==
    ASSUME NEW m \in Message
    PROVE  /\ m.buyer \in Buyer
           /\ m.kind = "OFFER" => m.amount \in Amount
BY DEF Message

LEMMA AwakeFacts ==
    ASSUME NEW row \in MissionRow, NEW to \in Awake(row)
    PROVE  /\ to \in Status
           /\ StaysOver(row.status, to)
           /\ to \in SoldStatus => to = row.status
           /\ row.status \in SoldStatus \cup Over => to = row.status
<1>1. row.status \in Status
  BY DEF MissionRow
<1>2. CASE row.status = "EN_VENTE"
  BY <1>2, AfterFacts DEF Awake, StaysOver, Over, SoldStatus
<1>3. CASE row.status # "EN_VENTE"
  BY <1>1, <1>3 DEF Awake, StaysOver, Over, SoldStatus
<1> QED BY <1>2, <1>3

\* The status a message leads to by way of the first awakening.
LEMMA AwakenedFacts ==
    ASSUME NEW row \in MissionRow, NEW event \in {"SALE_CONFIRMED", "VALIDATION_REQUIRED"},
           NEW to \in UNION {After(s, event) : s \in Awake(row)}
    PROVE  /\ to \in Status
           /\ StaysOver(row.status, to)
           /\ to \in SoldStatus => event = "SALE_CONFIRMED"
<1> PICK s \in Awake(row) : to \in After(s, event)
  OBVIOUS
<1> QED BY AwakeFacts, AfterFacts DEF StaysOver, Over, SoldStatus

LEMMA MessagePlans ==
    ASSUME NEW row \in MissionRow, NEW evs, RowIsHonest(row, evs),
           NEW m \in Message, NEW plan \in ApplyAction(row, m)
    PROVE  PlanIsHonest(plan, row, evs)
<1> DEFINE action == DecideNegotiation(row.mandate, m)
           sale   == UNION {After(s, "SALE_CONFIRMED") : s \in Awake(row)}
           asked  == UNION {After(s, "VALIDATION_REQUIRED") : s \in Awake(row)}
           best   == BestOf(row, m.amount)
<1>1. m.buyer \in Buyer /\ row.mandate.prixMini \in Nat
  BY MessageFacts, MissionAssumption DEF MissionRow, MandateRow
<1>0. \A a \in Amount : ~(a < row.mandate.prixMini) => a >= row.mandate.prixMini
  <2>1. Amount \subseteq Nat
    BY MissionAssumption
  <2>2. \A a, b \in Nat : ~(a < b) => a >= b
    OBVIOUS
  <2> QED BY <1>1, <2>1, <2>2
<1>2. CASE action = Reply
  <2>1. PICK to \in Awake(row) : plan = Plan([status |-> to], {Contact(m.buyer)}, Null)
    BY <1>2 DEF ApplyAction, Reply
  <2>2. IsPatch([status |-> to])
    BY AwakeFacts DEF IsPatch
  <2>3. to \in SoldStatus => row.sold # Null
    BY AwakeFacts DEF RowIsHonest
  <2> QED BY <1>1, <2>1, <2>2, <2>3, AwakeFacts, QuietPlan
<1>3. CASE action = Accept /\ m.kind = "OFFER" /\ ~(m.amount < row.mandate.prixMini)
           /\ row.mandate.autoAdjuge
  <2> DEFINE entry == Entry("AUTO_ACCEPT", m.buyer, m.amount)
             patch(to) == [status |-> to, sold |-> m.amount, best |-> best]
  <2>0. ApplyAction(row, m) = {Plan(patch(to), {entry}, "SOLD") : to \in sale}
    BY <1>3 DEF ApplyAction, Accept
  <2>1. PICK to \in sale : plan = Plan(patch(to), {entry}, "SOLD")
    BY <2>0
  <2>2. m.amount \in Amount /\ best \in Amount
    BY <1>3, MessageFacts, BestIsAnAmount
  <2>3. m.amount >= row.mandate.prixMini
    BY <1>0, <1>3, <2>2
  <2>4. IsPatch(patch(to)) /\ StaysOver(row.status, to)
    BY <2>2, AwakenedFacts DEF IsPatch
  <2>5. entry \in Event /\ entry.kind = "AUTO_ACCEPT" /\ entry.amount = m.amount
    BY <1>1, <2>2 DEF Entry, Event
  <2>6. PatchIsHonest(patch(to), {entry}, row, evs)
    BY <1>3, <2>3, <2>5 DEF PatchIsHonest, SaleKind
  <2> QED BY <2>1, <2>4, <2>5, <2>6 DEF PlanIsHonest, Plan
<1>4. CASE /\ m.kind = "OFFER" /\ ~(m.amount < row.mandate.prixMini)
           /\ \E reason \in OfferReason : action = Ask(reason)
  <2> PICK reason \in OfferReason : action = Ask(reason)
    BY <1>4
  <2> DEFINE entry == Entry("SUBMITTED", m.buyer, m.amount)
             patch(to) == [status |-> to, reason |-> reason, buyer |-> m.buyer,
                           offer |-> m.amount, best |-> best]
  <2>0. ApplyAction(row, m) = {Plan(patch(to), {entry}, "VALIDATION_REQUIRED") : to \in asked}
    BY <1>4 DEF ApplyAction, Ask
  <2>1. PICK to \in asked : plan = Plan(patch(to), {entry}, "VALIDATION_REQUIRED")
    BY <2>0
  <2>2. m.amount \in Amount /\ best \in Amount
    BY <1>4, MessageFacts, BestIsAnAmount
  <2>3. m.amount >= row.mandate.prixMini
    BY <1>0, <1>4, <2>2
  <2>4. IsPatch(patch(to)) /\ StaysOver(row.status, to) /\ to \notin SoldStatus
    <3>1. reason \in Reason /\ reason # Null /\ m.amount # Null /\ m.buyer # Null
      BY <1>1, <2>2, NullFacts
    <3> QED BY <1>1, <2>2, <3>1, AwakenedFacts DEF IsPatch
  <2>5. entry \in Event /\ entry.kind = "SUBMITTED" /\ entry.amount = m.amount
    BY <1>1, <2>2 DEF Entry, Event
  <2>6. PatchIsHonest(patch(to), {entry}, row, evs)
    BY <2>3, <2>4, <2>5 DEF PatchIsHonest, SaleKind
  <2> QED BY <2>1, <2>4, <2>5, <2>6 DEF PlanIsHonest, Plan
<1>5. CASE m.kind # "OFFER" /\ \E reason \in Reason \ OfferReason : action = Ask(reason)
  <2> PICK reason \in Reason \ OfferReason : action = Ask(reason)
    BY <1>5
  <2> DEFINE patch(to) == [status |-> to, reason |-> reason, buyer |-> m.buyer]
  <2> DEFINE notify == IF reason = "SECURITY_ALERT" THEN "SECURITY_ALERT"
                       ELSE "VALIDATION_REQUIRED"
  <2>0. ApplyAction(row, m) = {Plan(patch(to), {Contact(m.buyer)}, notify) : to \in asked}
    BY <1>5 DEF ApplyAction, Ask
  <2>1. PICK to \in asked : plan = Plan(patch(to), {Contact(m.buyer)}, notify)
    BY <2>0
  <2>2. IsPatch(patch(to)) /\ StaysOver(row.status, to) /\ to \notin SoldStatus
    <3>1. reason # Null /\ m.buyer # Null
      BY <1>1, NullFacts
    <3> QED BY <1>1, <3>1, AwakenedFacts DEF IsPatch
  <2> QED BY <1>1, <2>1, <2>2, QuietPlan
<1> QED BY <1>2, <1>3, <1>4, <1>5, DecisionFacts

LEMMA PlansAreHonest ==
    ASSUME NEW op \in Operation, NEW row \in MissionRow, NEW evs, RowIsHonest(row, evs),
           NEW plan \in Plans(op, row)
    PROVE  PlanIsHonest(plan, row, evs)
<1>1. CASE op.kind = "MESSAGE"
  BY <1>1, MessagePlans DEF Plans, Operation
<1>2. CASE op.kind = "ACCEPT"
  BY <1>2, AcceptPlans DEF Plans
<1>3. CASE op.kind \in {"SUSPEND", "RESUME", "STOP", "FINALIZE", "READ", "CLOSE"}
  BY <1>3, SellerPlans DEF Plans
<1> QED BY <1>1, <1>2, <1>3 DEF Operation

-----------------------------------------------------------------------------
(* Requests: how they begin, and what the writes of the others leave of them. *)

LEMMA BegunFacts ==
    ASSUME NEW op \in Operation, NEW row \in MissionRow, NEW evs, RowIsHonest(row, evs),
           NEW next \in Begun(op, row)
    PROVE  \/ next = Idle
           \/ /\ IsWork(next)
              /\ PatchIsHonest(next.patch, next.entries, row, evs)
              /\ StaysOver(row.status, next.patch.status)
<1>1. CASE Plans(op, row) = {}
  BY <1>1 DEF Begun
<1>2. CASE Plans(op, row) # {}
  <2>1. PICK plan \in Plans(op, row) :
          next = [step |-> IF op.kind = "MESSAGE" THEN "count"
                           ELSE IF plan.notify # Null THEN "notify" ELSE "write",
                  patch |-> plan.patch, entries |-> plan.entries, notify |-> plan.notify,
                  lastSeen |-> IF plan.notify \in Regulated THEN row.notifiedAt ELSE Null,
                  newBuyer |-> FALSE, fresh |-> TRUE]
    BY <1>2 DEF Begun
  <2>2. PlanIsHonest(plan, row, evs)
    BY PlansAreHonest
  <2> QED BY <2>1, <2>2 DEF PlanIsHonest, IsWork
<1> QED BY <1>1, <1>2

Stale(q) == [q EXCEPT !.fresh = FALSE]

LEMMA StaleFacts ==
    ASSUME NEW q, IsRequest(q)
    PROVE  /\ IsRequest(Stale(q))
           /\ Stale(q).fresh = FALSE
           /\ Stale(q).step = q.step
           /\ IsWork(Stale(q))
                 => IsWork(q) /\ Stale(q).patch = q.patch /\ Stale(q).entries = q.entries
BY DEF IsRequest, IsWork, Stale

LEMMA HonestyLasts ==
    ASSUME NEW p, NEW entries, NEW row, NEW row2, NEW evs, NEW evs2,
           PatchIsHonest(p, entries, row, evs), evs \subseteq evs2,
           row2.mandate = row.mandate, row.sold # Null => row2.sold # Null
    PROVE  PatchIsHonest(p, entries, row2, evs2)
BY DEF PatchIsHonest

\* What an honest patch makes of an honest row.
LEMMA HonestWrite ==
    ASSUME NEW row \in MissionRow, NEW evs, NEW p, NEW entries, IsPatch(p),
           RowIsHonest(row, evs), EventsAreHonest(row, evs), PatchIsHonest(p, entries, row, evs),
           NEW row2, row2.mandate = row.mandate, row2.status = p.status,
           row2.sold = IF "sold" \in DOMAIN p THEN p.sold ELSE row.sold,
           row2.offer = IF "offer" \in DOMAIN p THEN p.offer ELSE row.offer
    PROVE  /\ RowIsHonest(row2, evs \cup entries)
           /\ EventsAreHonest(row2, evs \cup entries)
           /\ row.sold # Null => row2.sold # Null
<1>1. "sold" \in DOMAIN p => p.sold # Null
  BY MissionAssumption DEF IsPatch
<1>2. RowIsHonest(row2, evs \cup entries)
  BY <1>1 DEF RowIsHonest, PatchIsHonest
<1>3. EventsAreHonest(row2, evs \cup entries)
  BY <1>1 DEF EventsAreHonest, PatchIsHonest
<1> QED BY <1>1, <1>2, <1>3

-----------------------------------------------------------------------------
(* A request r writes the row `row2`, adds `entries` and goes on as `next`.  *)
LEMMA WriteStep ==
    ASSUME Inv, NEW r \in Request, NEW p, NEW entries, NEW next, mission \in MissionRow,
           IsPatch(p), PatchIsHonest(p, entries, mission, events), entries \subseteq Event,
           mission' \in MissionRow,
           mission'.mandate = mission.mandate, mission'.status = p.status,
           mission'.sold = IF "sold" \in DOMAIN p THEN p.sold ELSE mission.sold,
           mission'.offer = IF "offer" \in DOMAIN p THEN p.offer ELSE mission.offer,
           events' = events \cup entries, Wrote(r, next), IsRequest(next),
           IsWork(next) => PatchIsHonest(next.patch, next.entries, mission', events'),
           next.fresh => IsWork(next) /\ StaysOver(mission'.status, next.patch.status),
           UNCHANGED <<received, hour, overdue, alerts, crashes>>
    PROVE  Inv'
<1> USE NullAssumption
<1>1. \A q \in Request : req'[q] = IF q = r THEN next ELSE Stale(req[q])
  BY DEF Wrote, Stale
<1>2. RowIsHonest(mission', events') /\ EventsAreHonest(mission', events')
      /\ (mission.sold # Null => mission'.sold # Null)
  BY HonestWrite DEF Inv, HonestInv
<1>3. \A q \in Request : IsRequest(req'[q])
  BY <1>1, StaleFacts DEF Inv, TypeInv
<1>4. TypeInv'
  BY <1>3 DEF Inv, TypeInv, Wrote
<1>5. HonestInv'
  <2> SUFFICES ASSUME NEW q \in Request, IsWork(req'[q])
               PROVE  PatchIsHonest(req'[q].patch, req'[q].entries, mission', events')
    BY <1>2 DEF HonestInv
  <2>1. CASE q = r
    BY <1>1, <2>1
  <2>2. CASE q # r
    <3>0. req'[q] = Stale(req[q]) /\ IsRequest(req[q])
      BY <1>1, <2>2 DEF Inv, TypeInv
    <3>1. IsWork(req[q]) /\ req'[q].patch = req[q].patch /\ req'[q].entries = req[q].entries
      <4>1. IsWork(Stale(req[q]))
        BY <3>0
      <4> QED BY <3>0, <4>1, StaleFacts
    <3>2. PatchIsHonest(req[q].patch, req[q].entries, mission, events)
      BY <3>1 DEF Inv, HonestInv
    <3> QED BY <1>2, <3>1, <3>2, HonestyLasts
  <2> QED BY <2>1, <2>2
<1>6. FreshInv'
  <2> SUFFICES ASSUME NEW q \in Request, req'[q].fresh
               PROVE  /\ req'[q].step = "activate" => mission'.status = "BROUILLON_MANDAT"
                      /\ req'[q].step = "expire" => mission'.status \in Expirable
                      /\ IsWork(req'[q]) => StaysOver(mission'.status, req'[q].patch.status)
    BY DEF FreshInv
  <2>1. q = r
    BY <1>1, StaleFacts DEF Inv, TypeInv
  <2> QED BY <1>1, <2>1 DEF IsWork
<1> QED BY <1>4, <1>5, <1>6 DEF Inv

-----------------------------------------------------------------------------
(* A request r goes on as `next` and the row and the events stay. *)
LEMMA LocalStep ==
    ASSUME Inv, NEW r \in Request, NEW next, mission \in MissionRow,
           IsRequest(next),
           IsWork(next) => PatchIsHonest(next.patch, next.entries, mission, events),
           next.fresh
              => /\ next.step = "activate" => mission.status = "BROUILLON_MANDAT"
                 /\ next.step = "expire" => mission.status \in Expirable
                 /\ IsWork(next) => StaysOver(mission.status, next.patch.status),
           req' = [req EXCEPT ![r] = next],
           UNCHANGED <<mission, events, overdue, crashes, overwritten>>,
           received' \in 0 .. MaxMessages, hour' = hour,
           alerts' \in [0 .. MaxHour -> Nat]
    PROVE  Inv'
<1> USE NullAssumption
<1>1. \A q \in Request : req'[q] = IF q = r THEN next ELSE req[q]
  BY DEF Inv, TypeInv
<1>2. TypeInv'
  BY <1>1 DEF Inv, TypeInv
<1>3. HonestInv'
  BY <1>1 DEF Inv, HonestInv
<1>4. FreshInv'
  BY <1>1 DEF Inv, FreshInv
<1> QED BY <1>2, <1>3, <1>4 DEF Inv

-----------------------------------------------------------------------------
(* The actions. *)

LEMMA IdleFacts == IsRequest(Idle) /\ ~IsWork(Idle) /\ Idle.fresh = FALSE /\ Idle.step = "idle"
BY DEF IsRequest, IsWork, Idle

\* A request that is not idle has a row to work on.
LEMMA BusyFacts ==
    ASSUME Inv, NEW r \in Request, req[r].step # "idle"
    PROVE  mission \in MissionRow /\ RowIsHonest(mission, events)
BY NullAssumption DEF Inv, TypeInv, HonestInv

LEMMA WorkFacts ==
    ASSUME Inv, NEW r \in Request, req[r].step \in {"count", "notify", "write"}
    PROVE  /\ IsWork(req[r])
           /\ mission \in MissionRow
           /\ PatchIsHonest(req[r].patch, req[r].entries, mission, events)
<1>1. IsWork(req[r])
  BY DEF Inv, TypeInv, IsRequest
<1>2. mission \in MissionRow /\ mission # Null
  BY BusyFacts, NullAssumption
<1> QED BY <1>1, <1>2 DEF Inv, HonestInv

LEMMA InitHolds ==
    ASSUME Init
    PROVE  Inv
<1>1. TypeInv
  <2>1. 0 \in 0 .. MaxMessages /\ 0 \in 0 .. MaxHour /\ 0 \in 0 .. MaxCrashes
    BY MissionAssumption
  <2>2. alerts \in [0 .. MaxHour -> Nat]
    BY DEF Init
  <2>3. req = [r \in Request |-> req[r]] /\ \A r \in Request : req[r] = Idle
    BY DEF Init
  <2>4. {overdue, overwritten} \subseteq BOOLEAN
    BY DEF Init
  <2> QED BY <2>1, <2>2, <2>3, <2>4, IdleFacts DEF Init, TypeInv
<1>2. HonestInv /\ FreshInv
  BY IdleFacts DEF Init, HonestInv, FreshInv
<1> QED BY <1>1, <1>2 DEF Inv

LEMMA CreateStep ==
    ASSUME Inv, NEW r \in Request, NEW m \in Mandate, CreateMission(r, m)
    PROVE  Inv'
<1> DEFINE next == [step |-> "activate", fresh |-> TRUE]
<1>0. m \in {n \in Mandate : 0 < n.prixMini /\ n.prixMini <= n.prixAffiche}
  <2>1. m.prixMini \in Nat
    BY MissionAssumption DEF MandateRow
  <2> QED BY <2>1 DEF CreateMission, IsMandateValid
<1>1. mission' \in MissionRow
  BY <1>0 DEF CreateMission, MissionRow, Status
<1>2. /\ mission'.sold = Null /\ mission'.offer = Null
      /\ mission'.status = "BROUILLON_MANDAT" /\ events = {} /\ events' = {}
  BY DEF CreateMission, Inv, TypeInv
<1>3. \A q \in Request : req'[q] = IF q = r THEN next ELSE req[q]
  BY DEF CreateMission, Inv, TypeInv
<1>4. IsRequest(next) /\ ~IsWork(next)
  BY DEF IsRequest, IsWork
<1>5. \A q \in Request : ~IsWork(req[q]) /\ req[q].fresh = FALSE
  BY DEF CreateMission, Inv, TypeInv, IsRequest, IsWork
<1>6. TypeInv'
  BY <1>1, <1>3, <1>4, NullAssumption DEF CreateMission, Inv, TypeInv
<1>7. HonestInv'
  BY <1>2, <1>3, <1>4, <1>5 DEF HonestInv, RowIsHonest, EventsAreHonest, SoldStatus
<1>8. FreshInv'
  BY <1>2, <1>3, <1>4, <1>5 DEF FreshInv
<1> QED BY <1>6, <1>7, <1>8 DEF Inv

\* A patch of the status alone.
LEMMA StatusPatch ==
    ASSUME NEW to \in Status \ SoldStatus, NEW row, NEW evs
    PROVE  /\ IsPatch([status |-> to])
           /\ PatchIsHonest([status |-> to], {}, row, evs)
BY DEF IsPatch, PatchIsHonest

LEMMA ActivateStep ==
    ASSUME Inv, NEW r \in Request, Activate(r)
    PROVE  Inv'
<1> DEFINE p == [status |-> "EN_VENTE"]
<1>1. mission \in MissionRow
  BY BusyFacts DEF Activate
<1>2. IsPatch(p) /\ PatchIsHonest(p, {}, mission, events)
  BY StatusPatch DEF Status, SoldStatus
<1>3. mission' = Patched(mission, p) /\ events' = events \cup {}
  BY DEF Activate
<1> HIDE DEF p
<1> QED BY <1>1, <1>2, <1>3, PatchedIsRow, IdleFacts, WriteStep DEF Activate

LEMMA FindStep ==
    ASSUME Inv, NEW r \in Request, NEW op \in Operation, FindOwned(r, op)
    PROVE  Inv'
<1>1. mission \in MissionRow /\ RowIsHonest(mission, events)
  BY NullAssumption DEF FindOwned, Inv, TypeInv, HonestInv
<1>2. received' \in 0 .. MaxMessages /\ alerts' \in [0 .. MaxHour -> Nat]
  BY MissionAssumption DEF FindOwned, Inv, TypeInv
<1>3. CASE ExpiryDue(mission)
  <2> DEFINE next == [step |-> "expire", op |-> OnceExpired(op), fresh |-> TRUE]
  <2>1. req' = [req EXCEPT ![r] = next]
    BY <1>3 DEF FindOwned
  <2>0. OnceExpired(op) \in Operation
    BY DEF OnceExpired, Operation
  <2>2. IsRequest(next) /\ ~IsWork(next) /\ next.step = "expire"
    BY <2>0 DEF IsRequest, IsWork
  <2>3. mission.status \in Expirable
    BY <1>3 DEF ExpiryDue
  <2> HIDE DEF next
  <2> QED BY <1>1, <1>2, <2>1, <2>2, <2>3, LocalStep DEF FindOwned
<1>4. CASE ~ExpiryDue(mission)
  <2>1. PICK next \in Begun(op, mission) : req' = [req EXCEPT ![r] = next]
    BY <1>4 DEF FindOwned
  <2>2. CASE next = Idle
    BY <1>1, <1>2, <2>1, <2>2, IdleFacts, LocalStep DEF FindOwned
  <2>3. CASE /\ IsWork(next)
             /\ PatchIsHonest(next.patch, next.entries, mission, events)
             /\ StaysOver(mission.status, next.patch.status)
    <3>1. IsRequest(next) /\ next.step \notin {"activate", "expire"}
      BY <2>3 DEF IsWork, IsRequest
    <3> QED BY <1>1, <1>2, <2>1, <2>3, <3>1, LocalStep DEF FindOwned
  <2> QED BY <1>1, <2>2, <2>3, BegunFacts
<1> QED BY <1>3, <1>4

LEMMA ExpireStep ==
    ASSUME Inv, NEW r \in Request, Expire(r)
    PROVE  Inv'
<1> DEFINE p == [status |-> "EXPIREE"]
           ended == Ending("EXPIRED")
<1>1. mission \in MissionRow /\ RowIsHonest(mission, events)
  BY BusyFacts DEF Expire
<1>2. IsPatch(p) /\ PatchIsHonest(p, {ended}, mission, events) /\ {ended} \subseteq Event
  <2>1. ended \in Event /\ ended.kind = "EXPIRED"
    BY DEF Ending, Entry, Event
  <2>2. IsPatch(p) /\ PatchIsHonest(p, {}, mission, events)
    BY StatusPatch DEF Status, SoldStatus
  <2>3. "sold" \notin DOMAIN p /\ "offer" \notin DOMAIN p /\ p.status \notin SoldStatus
    BY DEF SoldStatus
  <2> HIDE DEF p, ended
  <2> QED BY <2>1, <2>2, <2>3 DEF PatchIsHonest, SaleKind
<1>3. mission' = Patched(mission, p) /\ events' = events \cup {ended}
  BY DEF Expire
<1>4. req[r].op \in Operation
  BY DEF Expire, Inv, TypeInv, IsRequest, IsWork
<1>5. PICK next \in Begun(req[r].op, mission') : Wrote(r, next)
  BY DEF Expire
<1> HIDE DEF p, ended
<1>6. /\ mission' \in MissionRow
      /\ mission'.mandate = mission.mandate /\ mission'.status = p.status
      /\ mission'.sold = IF "sold" \in DOMAIN p THEN p.sold ELSE mission.sold
      /\ mission'.offer = IF "offer" \in DOMAIN p THEN p.offer ELSE mission.offer
  BY <1>1, <1>2, <1>3, PatchedIsRow
<1>7. RowIsHonest(mission', events')
  BY <1>1, <1>2, <1>3, <1>6, HonestWrite, NullAssumption DEF Inv, HonestInv
<1>8. \/ next = Idle
      \/ /\ IsWork(next)
         /\ PatchIsHonest(next.patch, next.entries, mission', events')
         /\ StaysOver(mission'.status, next.patch.status)
  BY <1>4, <1>6, <1>7, BegunFacts
<1>9. IsRequest(next)
  BY <1>8, IdleFacts DEF IsRequest, IsWork
<1> QED BY <1>1, <1>2, <1>3, <1>5, <1>6, <1>8, <1>9, IdleFacts, WriteStep DEF Expire

LEMMA CountStep ==
    ASSUME Inv, NEW r \in Request, CountBuyer(r)
    PROVE  Inv'
<1>1. /\ IsWork(req[r]) /\ mission \in MissionRow
      /\ PatchIsHonest(req[r].patch, req[r].entries, mission, events)
  BY WorkFacts DEF CountBuyer
<1>2. PICK next :
        /\ req' = [req EXCEPT ![r] = next]
        /\ next = [req[r] EXCEPT !.step = IF req[r].notify # Null THEN "notify" ELSE "write",
                                 !.newBuyer = \A n \in req[r].entries, e \in events :
                                                 e.buyer # n.buyer]
  BY DEF CountBuyer
<1>3. /\ IsWork(next) /\ next.step \notin {"activate", "expire"}
      /\ next.patch = req[r].patch /\ next.entries = req[r].entries
      /\ next.fresh = req[r].fresh
  BY <1>1, <1>2 DEF IsWork
<1>4. next.fresh => StaysOver(mission.status, next.patch.status)
  BY <1>1, <1>3 DEF Inv, FreshInv
<1>5. IsRequest(next)
  BY <1>3 DEF IsRequest, IsWork
<1>6. received' \in 0 .. MaxMessages /\ alerts' \in [0 .. MaxHour -> Nat]
  BY DEF CountBuyer, Inv, TypeInv
<1> QED BY <1>1, <1>2, <1>3, <1>4, <1>5, <1>6, LocalStep DEF CountBuyer

LEMMA NotifyStep ==
    ASSUME Inv, NEW r \in Request, Notify(r)
    PROVE  Inv'
<1> DEFINE patch == req[r].patch
           stamp == [f \in DOMAIN patch \cup {"notifiedAt"} |->
                       IF f = "notifiedAt" THEN hour ELSE patch[f]]
           due == AlertDue(req[r].notify, req[r].lastSeen)
           written == IF due THEN stamp ELSE patch
<1>1. /\ IsWork(req[r]) /\ mission \in MissionRow
      /\ PatchIsHonest(patch, req[r].entries, mission, events)
  BY WorkFacts DEF Notify
<1>2. PICK next :
        /\ req' = [req EXCEPT ![r] = next]
        /\ next = [req[r] EXCEPT !.step = "write", !.patch = written, !.lastSeen = Null]
  BY DEF Notify
<1>3. IsPatch(stamp) /\ stamp.status = patch.status
  <2>1. IsPatch(patch) /\ hour \in 0 .. MaxHour
    BY <1>1 DEF IsWork, Inv, TypeInv
  <2>2. /\ DOMAIN stamp = DOMAIN patch \cup {"notifiedAt"}
        /\ stamp["notifiedAt"] = hour
        /\ \A f \in DOMAIN patch : f # "notifiedAt" => stamp[f] = patch[f]
    OBVIOUS
  <2> HIDE DEF stamp, patch
  <2> QED BY <2>1, <2>2 DEF IsPatch
<1>4. PatchIsHonest(stamp, req[r].entries, mission, events)
  <2>1. /\ DOMAIN stamp = DOMAIN patch \cup {"notifiedAt"}
        /\ \A f \in DOMAIN patch : f # "notifiedAt" => stamp[f] = patch[f]
    OBVIOUS
  <2>2. "status" \in DOMAIN patch
    BY <1>1 DEF IsWork, IsPatch
  <2> HIDE DEF stamp, patch
  <2> QED BY <1>1, <2>1, <2>2 DEF PatchIsHonest
<1>5. IsPatch(written) /\ written.status = patch.status
      /\ PatchIsHonest(written, req[r].entries, mission, events)
  <2>1. IsPatch(patch)
    BY <1>1 DEF IsWork
  <2> HIDE DEF stamp, patch, due
  <2> QED BY <1>1, <1>3, <1>4, <2>1
<1> HIDE DEF written
<1>6. /\ IsWork(next) /\ next.step \notin {"activate", "expire"}
      /\ next.patch = written /\ next.entries = req[r].entries
      /\ next.fresh = req[r].fresh
  BY <1>1, <1>2, <1>5 DEF IsWork
<1>7. next.fresh => StaysOver(mission.status, next.patch.status)
  BY <1>1, <1>5, <1>6 DEF Inv, FreshInv
<1>8. IsRequest(next)
  BY <1>6 DEF IsRequest, IsWork
<1>9. alerts' \in [0 .. MaxHour -> Nat] /\ received' \in 0 .. MaxMessages
  <2>1. alerts' = [alerts EXCEPT ![hour] = IF due THEN @ + 1 ELSE @] /\ received' = received
    BY DEF Notify
  <2>2. alerts \in [0 .. MaxHour -> Nat] /\ received \in 0 .. MaxMessages
        /\ hour \in 0 .. MaxHour
    BY DEF Inv, TypeInv
  <2> DEFINE sent == IF due THEN alerts[hour] + 1 ELSE alerts[hour]
  <2>3. alerts[hour] \in Nat
    BY <2>2
  <2>4. sent \in Nat
    BY <2>3
  <2>5. alerts' = [alerts EXCEPT ![hour] = sent]
    BY <2>1
  <2> HIDE DEF sent
  <2> QED BY <2>1, <2>2, <2>4, <2>5
<1>10. UNCHANGED <<mission, events, overdue, crashes, overwritten>> /\ hour' = hour
  BY DEF Notify
<1> QED BY <1>1, <1>2, <1>5, <1>6, <1>7, <1>8, <1>9, <1>10, LocalStep

LEMMA CommitStep ==
    ASSUME Inv, NEW r \in Request, Commit(r)
    PROVE  Inv'
<1> DEFINE p == req[r].patch
           row == Patched(mission, p)
<1>1. IsWork(req[r]) /\ mission \in MissionRow /\ IsPatch(p) /\ req[r].entries \subseteq Event
      /\ PatchIsHonest(p, req[r].entries, mission, events)
  BY WorkFacts DEF Commit, IsWork
<1>2. /\ row \in MissionRow /\ row.mandate = mission.mandate /\ row.status = p.status
      /\ row.sold = IF "sold" \in DOMAIN p THEN p.sold ELSE mission.sold
      /\ row.offer = IF "offer" \in DOMAIN p THEN p.offer ELSE mission.offer
  BY <1>1, PatchedIsRow
<1>3. mission' = [row EXCEPT !.buyers = @ + IF req[r].newBuyer THEN 1 ELSE 0]
  BY DEF Commit
<1> HIDE DEF row
<1>4. /\ mission' \in MissionRow /\ mission'.mandate = row.mandate
      /\ mission'.status = row.status /\ mission'.sold = row.sold /\ mission'.offer = row.offer
  BY <1>2, <1>3 DEF MissionRow
<1>5. events' = events \cup req[r].entries /\ Wrote(r, Idle)
      /\ UNCHANGED <<received, hour, overdue, alerts, crashes>>
  BY DEF Commit
<1> HIDE DEF p
<1> QED BY <1>1, <1>2, <1>4, <1>5, IdleFacts, WriteStep

LEMMA CrashStep ==
    ASSUME Inv, Crash
    PROVE  Inv'
<1>1. \A r \in Request : req'[r] = Idle
  BY DEF Crash
<1>2. TypeInv'
  BY <1>1, IdleFacts, MissionAssumption DEF Crash, Inv, TypeInv
<1>3. HonestInv'
  BY <1>1, IdleFacts DEF Crash, Inv, HonestInv
<1>4. FreshInv'
  BY <1>1, IdleFacts DEF FreshInv
<1> QED BY <1>2, <1>3, <1>4 DEF Inv

LEMMA ClockStep ==
    ASSUME Inv, HourPasses \/ MonthPasses
    PROVE  Inv'
<1>1. TypeInv'
  <2>1. UNCHANGED <<mission, events, req, received, alerts, crashes, overwritten>>
    BY DEF HourPasses, MonthPasses
  <2>2. hour' \in 0 .. MaxHour /\ overdue' \in BOOLEAN
    <3>1. hour \in 0 .. MaxHour /\ overdue \in BOOLEAN /\ MaxHour \in Nat
      BY MissionAssumption DEF Inv, TypeInv
    <3>2. CASE HourPasses
      BY <3>1, <3>2 DEF HourPasses
    <3>3. CASE MonthPasses
      BY <3>1, <3>3 DEF MonthPasses
    <3> QED BY <3>2, <3>3
  <2> QED BY <2>1, <2>2 DEF Inv, TypeInv
<1>2. HonestInv'
  BY DEF HourPasses, MonthPasses, Inv, HonestInv
<1>3. FreshInv'
  BY DEF HourPasses, MonthPasses, Inv, FreshInv
<1> QED BY <1>1, <1>2, <1>3 DEF Inv

LEMMA InvHolds ==
    ASSUME Inv, [Next]_vars
    PROVE  Inv'
<1>1. ASSUME NEW r \in Request, Handle(r) PROVE Inv'
  BY <1>1, CreateStep, ActivateStep, FindStep, ExpireStep, CountStep, NotifyStep, CommitStep
  DEF Handle
<1>2. CASE Crash
  BY <1>2, CrashStep
<1>3. CASE HourPasses \/ MonthPasses
  BY <1>3, ClockStep
<1>4. CASE UNCHANGED vars
  BY <1>4 DEF vars, Inv, TypeInv, HonestInv, FreshInv
<1> QED BY <1>1, <1>2, <1>3, <1>4 DEF Next

THEOREM InvIsInvariant == Spec => []Inv
<1>1. Init => Inv
  BY InitHolds
<1>2. Inv /\ [Next]_vars => Inv'
  BY InvHolds
<1> QED BY <1>1, <1>2, PTL DEF Spec

-----------------------------------------------------------------------------
\* For any buyers, amounts, mandates and requests: the row is well typed, and
\* stays so under every patch that is on its way to it.
THEOREM MissionTypeCorrect == Spec => []TypeOK
<1>1. Inv => TypeOK
  <2> SUFFICES ASSUME Inv PROVE TypeOK
    OBVIOUS
  <2>1. \A r \in Request :
          req[r].step \in {"idle", "activate", "expire", "count", "notify", "write"}
    BY DEF Inv, TypeInv, IsRequest, IsWork
  <2>2. ASSUME NEW r \in Request, req[r].step \in {"count", "notify", "write"}
        PROVE  mission # Null /\ Patched(mission, req[r].patch) \in MissionRow
    <3>1. mission \in MissionRow /\ IsPatch(req[r].patch)
      BY <2>2, WorkFacts DEF IsWork
    <3> QED BY <3>1, PatchedIsRow, NullAssumption
  <2> QED BY <2>1, <2>2 DEF Inv, TypeInv, TypeOK
<1> QED BY <1>1, InvIsInvariant, PTL

\* R1 and R4, in every interleaving of any number of requests and across
\* restarts: no sale below the floor, none the seller has not accepted unless
\* opted for, and the row and the timeline tell of the same sale.
THEOREM NoSaleOutsideTheMandate == Spec => []HammerIsTheSellers
<1>1. Inv => HammerIsTheSellers
  <2> SUFFICES ASSUME Inv PROVE HammerIsTheSellers
    OBVIOUS
  <2>1. CASE mission = Null
    BY <2>1 DEF Inv, TypeInv, HammerIsTheSellers, Sold, SaleEvents
  <2>2. CASE mission # Null
    BY <2>2 DEF Inv, HonestInv, RowIsHonest, EventsAreHonest, HammerIsTheSellers, Sold,
       SaleEvents, SoldStatus, SaleKind
  <2> QED BY <2>1, <2>2
<1> QED BY <1>1, InvIsInvariant, PTL

\* A request that writes is not idle, and has not been overtaken unless it overwrites.
LEMMA WriterIsFresh ==
    ASSUME Inv, NEW r \in Request, NEW next, req[r].step \in {"activate", "expire", "write"},
           Wrote(r, next), next.step \notin {"activate", "expire", "write"}, ~Overwriting
    PROVE  req[r].fresh
<1>1. req'[r] = next /\ req[r] # Idle /\ req'[r] # req[r]
  BY DEF Wrote, Idle
<1> QED BY <1>1 DEF Overwriting

\* A write leaves the sale that is in the row.
LEMMA SoldLasts ==
    ASSUME NEW row \in MissionRow, NEW p, IsPatch(p), row.sold # Null
    PROVE  Patched(row, p).sold # Null
BY PatchedIsRow, MissionAssumption DEF IsPatch

\* A sale is never undone; a mission that is over stays over and one that is
\* sold can only be finalized, but for an update by a request that read the
\* row before.
THEOREM OverIsOver == Spec => WhatIsOverStaysOver
<1> DEFINE Stays == mission # Null =>
         /\ mission.sold # Null => mission'.sold # Null
         /\ ~Overwriting =>
               /\ mission.status \in {"ARRETEE", "EXPIREE", "MISSION_TERMINEE"}
                     => mission'.status = mission.status
               /\ mission.status = "VENDU"
                     => mission'.status \in {"VENDU", "MISSION_TERMINEE"}
<1>1. Inv /\ [Next]_vars => [Stays]_vars
  <2> DEFINE Kept == /\ mission.sold # Null => mission'.sold # Null
                     /\ ~Overwriting => StaysOver(mission.status, mission'.status)
  <2> SUFFICES ASSUME Inv, Next, mission # Null PROVE Kept
    BY DEF StaysOver, Over, SoldStatus
  <2>1. mission \in MissionRow
    BY DEF Inv, TypeInv
  <2>2. CASE mission' = mission
    BY <2>2 DEF StaysOver, SoldStatus
  <2>3. ASSUME NEW r \in Request, Activate(r)
        PROVE  Kept
    <3>0. IsPatch([status |-> "EN_VENTE"])
      BY DEF IsPatch, Status
    <3>1. mission.sold # Null => mission'.sold # Null
      BY <2>1, <2>3, <3>0, SoldLasts DEF Activate
    <3>2. ~Overwriting => mission.status = "BROUILLON_MANDAT"
      <4>1. ~Overwriting => req[r].fresh
        BY <2>3, WriterIsFresh, IdleFacts DEF Activate
      <4> QED BY <2>3, <4>1 DEF Activate, Inv, FreshInv
    <3> QED BY <3>1, <3>2 DEF StaysOver, Over
  <2>4. ASSUME NEW r \in Request, Expire(r)
        PROVE  Kept
    <3>0. IsPatch([status |-> "EXPIREE"])
      BY DEF IsPatch, Status
    <3>1. mission.sold # Null => mission'.sold # Null
      BY <2>1, <2>4, <3>0, SoldLasts DEF Expire
    <3>2. ~Overwriting => mission.status \in Expirable
      <4>1. PICK next \in Begun(req[r].op, mission') : Wrote(r, next)
        BY <2>4 DEF Expire
      <4>2. next.step \in {"idle", "count", "notify", "write"}
        BY <4>1 DEF Begun, Idle
      <4>3. next.step # "expire"
        BY <4>2
      <4>4. req'[r] = next /\ req[r] # Idle /\ req'[r] # req[r]
        BY <2>4, <4>1, <4>3 DEF Expire, Wrote, Idle
      <4>5. ~Overwriting => req[r].fresh
        BY <4>4 DEF Overwriting
      <4> QED BY <2>4, <4>5 DEF Expire, Inv, FreshInv
    <3> QED BY <3>1, <3>2 DEF StaysOver, Over, Expirable
  <2>5. ASSUME NEW r \in Request, Commit(r)
        PROVE  Kept
    <3>1. ~Overwriting => req[r].fresh
      BY <2>5, WriterIsFresh, IdleFacts DEF Commit
    <3>2. IsWork(req[r]) /\ IsPatch(req[r].patch)
      BY <2>5, WorkFacts DEF Commit, IsWork
    <3>3. Patched(mission, req[r].patch) \in MissionRow
          /\ Patched(mission, req[r].patch).status = req[r].patch.status
      BY <2>1, <3>2, PatchedIsRow
    <3>4. /\ mission'.status = req[r].patch.status
          /\ mission'.sold = Patched(mission, req[r].patch).sold
      BY <2>5, <3>3 DEF Commit, MissionRow
    <3>5. mission.sold # Null => mission'.sold # Null
      BY <2>1, <3>2, <3>4, SoldLasts
    <3> QED BY <3>1, <3>2, <3>4, <3>5 DEF Inv, FreshInv
  <2>6. Crash \/ HourPasses \/ MonthPasses => mission' = mission
    BY DEF Crash, HourPasses, MonthPasses
  <2>7. \A r \in Request : CountBuyer(r) \/ Notify(r) => mission' = mission
    BY DEF CountBuyer, Notify
  <2>8. \A r \in Request, op \in Operation : FindOwned(r, op) => mission' = mission
    BY DEF FindOwned
  <2>9. \A r \in Request, m \in Mandate : ~CreateMission(r, m)
    BY DEF CreateMission
  <2> HIDE DEF Kept
  <2> QED BY <2>2, <2>3, <2>4, <2>5, <2>6, <2>7, <2>8, <2>9 DEF Next, Handle
<1> QED BY <1>1, InvIsInvariant, PTL DEF Spec, WhatIsOverStaysOver

-----------------------------------------------------------------------------
(* The coherence of the slate. *)

Effective(row) == IF row.status = "SUSPENDUE" THEN row.preSuspend ELSE row.status

IsCoherent(row) ==
    /\ row.preSuspend # Null <=> row.status = "SUSPENDUE"
    /\ row.status = "SUSPENDUE" => row.preSuspend \in Resumable
    /\ Effective(row) = "EN_ATTENTE_VALIDATION"
          => /\ row.reason # Null /\ row.buyer # Null
             /\ row.reason \in OfferReason <=> row.offer # Null
    /\ Effective(row) \in Expirable \cup {"BROUILLON_MANDAT"}
          => row.reason = Null /\ row.offer = Null /\ row.buyer = Null
    /\ Effective(row) \in SoldStatus <=> row.sold # Null

\* A patch that is coherent with the row it was computed from.
KeepsCoherence(p, row) ==
    /\ IsCoherent(Patched(row, p))
    /\ p.status = "BROUILLON_MANDAT" => row.status = "BROUILLON_MANDAT"

SlateInv ==
    mission # Null /\ ~overwritten
       => /\ IsCoherent(mission)
          /\ \A r \in Request : IsWork(req[r]) /\ req[r].fresh
                => KeepsCoherence(req[r].patch, mission)
          /\ mission.status = "BROUILLON_MANDAT" /\ crashes = 0
                => \E r \in Request : req[r].step = "activate"

\* What a slate has in every interleaving: its three columns are written together.
IsWhole(row) ==
    /\ row.reason # Null <=> row.buyer # Null
    /\ row.reason \in OfferReason => row.offer # Null

WholeInv == mission # Null => IsWhole(mission)

LEMMA PatchedIsWhole ==
    ASSUME NEW row \in MissionRow, IsWhole(row), NEW p, IsPatch(p)
    PROVE  IsWhole(Patched(row, p))
<1>1. SUFFICES ASSUME NEW patched,
                      patched.reason = IF "reason" \in DOMAIN p THEN p.reason ELSE row.reason,
                      patched.offer = IF "offer" \in DOMAIN p THEN p.offer ELSE row.offer,
                      patched.buyer = IF "buyer" \in DOMAIN p THEN p.buyer ELSE row.buyer
               PROVE  IsWhole(patched)
  BY PatchedIsRow
<1>2. CASE "reason" \in DOMAIN p
  <2>1. /\ "buyer" \in DOMAIN p /\ (p.reason # Null <=> p.buyer # Null)
        /\ p.reason \in OfferReason => "offer" \in DOMAIN p /\ p.offer # Null
    BY <1>2 DEF IsPatch
  <2>2. patched.reason = p.reason /\ patched.buyer = p.buyer
    BY <1>1, <1>2, <2>1
  <2>3. p.reason \in OfferReason => patched.offer = p.offer
    BY <1>1, <2>1
  <2> QED BY <2>1, <2>2, <2>3 DEF IsWhole
<1>3. CASE "reason" \notin DOMAIN p
  <2>1. "buyer" \notin DOMAIN p /\ "offer" \notin DOMAIN p
    BY <1>3 DEF IsPatch
  <2>2. patched.reason = row.reason /\ patched.buyer = row.buyer /\ patched.offer = row.offer
    BY <1>1, <1>3, <2>1
  <2> QED BY <2>2 DEF IsWhole
<1> QED BY <1>2, <1>3

LEMMA WholeInvHolds ==
    ASSUME Inv, WholeInv, [Next]_vars
    PROVE  WholeInv'
<1>1. CASE UNCHANGED mission
  BY <1>1 DEF WholeInv
<1>2. ASSUME NEW r \in Request, NEW m \in Mandate, CreateMission(r, m) PROVE WholeInv'
  <2>1. mission'.reason = Null /\ mission'.buyer = Null
    BY <1>2 DEF CreateMission
  <2> QED BY <2>1, NullFacts DEF WholeInv, IsWhole
<1>3. ASSUME NEW r \in Request, Activate(r) \/ Expire(r) PROVE WholeInv'
  <2>1. mission \in MissionRow /\ IsWhole(mission)
    BY <1>3, BusyFacts, NullAssumption DEF Activate, Expire, WholeInv
  <2>2. PICK to \in Status \ SoldStatus : mission' = Patched(mission, [status |-> to])
    BY <1>3 DEF Activate, Expire, Status, SoldStatus
  <2> QED BY <2>1, <2>2, StatusPatch, PatchedIsWhole DEF WholeInv
<1>4. ASSUME NEW r \in Request, Commit(r) PROVE WholeInv'
  <2> DEFINE row == Patched(mission, req[r].patch)
  <2>1. mission \in MissionRow /\ IsWhole(mission) /\ IsPatch(req[r].patch)
    BY <1>4, WorkFacts, NullAssumption DEF Commit, IsWork, WholeInv
  <2>2. IsWhole(row) /\ row \in MissionRow
    BY <2>1, PatchedIsWhole, PatchedIsRow
  <2>3. mission' = [row EXCEPT !.buyers = @ + IF req[r].newBuyer THEN 1 ELSE 0]
    BY <1>4 DEF Commit
  <2> HIDE DEF row
  <2>4. /\ mission'.reason = row.reason /\ mission'.offer = row.offer
        /\ mission'.buyer = row.buyer
    BY <2>2, <2>3 DEF MissionRow
  <2> QED BY <2>2, <2>4 DEF WholeInv, IsWhole
<1>5. \A r \in Request : CountBuyer(r) \/ Notify(r) => UNCHANGED mission
  BY DEF CountBuyer, Notify
<1>6. \A r \in Request, op \in Operation : FindOwned(r, op) => UNCHANGED mission
  BY DEF FindOwned
<1>7. Crash \/ HourPasses \/ MonthPasses \/ UNCHANGED vars => UNCHANGED mission
  BY DEF Crash, HourPasses, MonthPasses, vars
<1> QED BY <1>1, <1>2, <1>3, <1>4, <1>5, <1>6, <1>7 DEF Next, Handle

LEMMA PatchedColumns ==
    ASSUME NEW row \in MissionRow, NEW p
    PROVE  \A f \in {"status", "reason", "offer", "buyer", "sold", "preSuspend"} :
              Patched(row, p)[f] = IF f \in DOMAIN p THEN p[f] ELSE row[f]
<1>1. DOMAIN row = Fields
  BY DEF MissionRow, Fields
<1>2. Patched(row, p) = [f \in Fields |-> IF f \in DOMAIN p THEN p[f] ELSE row[f]]
  BY <1>1 DEF Patched
<1> QED BY <1>2 DEF Fields

\* Coherence is about six columns.
LEMMA CoherenceOfColumns ==
    ASSUME NEW row, NEW row2, IsCoherent(row),
           row2.status = row.status, row2.reason = row.reason, row2.offer = row.offer,
           row2.buyer = row.buyer, row2.sold = row.sold, row2.preSuspend = row.preSuspend
    PROVE  IsCoherent(row2)
BY DEF IsCoherent, Effective

LEMMA ColumnsOf ==
    ASSUME NEW row \in MissionRow, NEW p, NEW patched, patched = Patched(row, p)
    PROVE  /\ patched.status = IF "status" \in DOMAIN p THEN p.status ELSE row.status
           /\ patched.reason = IF "reason" \in DOMAIN p THEN p.reason ELSE row.reason
           /\ patched.offer = IF "offer" \in DOMAIN p THEN p.offer ELSE row.offer
           /\ patched.buyer = IF "buyer" \in DOMAIN p THEN p.buyer ELSE row.buyer
           /\ patched.sold = IF "sold" \in DOMAIN p THEN p.sold ELSE row.sold
           /\ patched.preSuspend = IF "preSuspend" \in DOMAIN p THEN p.preSuspend
                                   ELSE row.preSuspend
BY PatchedColumns

LEMMA SellerPlansCohere ==
    ASSUME NEW row \in MissionRow, IsCoherent(row),
           NEW plan \in Suspend(row) \cup Resume(row) \cup Stop(row) \cup Finalize(row)
                        \cup CloseValidation(row)
    PROVE  KeepsCoherence(plan.patch, row)
<1> DEFINE patched == Patched(row, plan.patch)
<1>0. patched = Patched(row, plan.patch)
  OBVIOUS
<1> HIDE DEF patched
<1>1. CASE plan \in Suspend(row)
  <2> PICK to \in After(row.status, "SUSPENDED") :
         plan = Plan([status |-> to, preSuspend |-> row.status], {}, Null)
    BY <1>1 DEF Suspend
  <2>1. plan.patch = [status |-> to, preSuspend |-> row.status]
    BY DEF Plan
  <2>2. row.status \in Resumable /\ to = "SUSPENDUE"
    BY DEF After, Transitions, Stoppable, Resumable, Expirable
  <2>3. /\ patched.status = "SUSPENDUE" /\ patched.preSuspend = row.status
        /\ patched.reason = row.reason /\ patched.offer = row.offer
        /\ patched.buyer = row.buyer /\ patched.sold = row.sold
    BY <1>0, <2>1, <2>2, ColumnsOf
  <2>4. IsCoherent(patched)
    BY <2>2, <2>3, NullFacts DEF IsCoherent, Effective, Resumable
  <2> QED BY <1>0, <2>1, <2>2, <2>4 DEF KeepsCoherence
<1>2. CASE plan \in Resume(row)
  <2> PICK to \in Resumable :
         /\ row.status = "SUSPENDUE" /\ to = row.preSuspend
         /\ plan = Plan([status |-> to, preSuspend |-> Null], {}, Null)
    BY <1>2 DEF Resume
  <2>1. plan.patch = [status |-> to, preSuspend |-> Null]
    BY DEF Plan
  <2>2. /\ patched.status = row.preSuspend /\ patched.preSuspend = Null
        /\ patched.reason = row.reason /\ patched.offer = row.offer
        /\ patched.buyer = row.buyer /\ patched.sold = row.sold
    BY <1>0, <2>1, ColumnsOf
  <2>3. IsCoherent(patched)
    BY <2>2, NullFacts DEF IsCoherent, Effective, Resumable
  <2> QED BY <1>0, <2>1, <2>3 DEF KeepsCoherence, Resumable
<1>3. CASE plan \in Stop(row)
  <2> PICK to \in After(row.status, "STOPPED") : plan = Plan([status |-> to], {}, Null)
    BY <1>3 DEF Stop
  <2>1. plan.patch = [status |-> to]
    BY DEF Plan
  <2>2. row.status \in Resumable /\ to = "ARRETEE"
    BY DEF After, Transitions, Stoppable, Resumable, Expirable
  <2>3. /\ patched.status = "ARRETEE" /\ patched.preSuspend = row.preSuspend
        /\ patched.reason = row.reason /\ patched.offer = row.offer
        /\ patched.buyer = row.buyer /\ patched.sold = row.sold
    BY <1>0, <2>1, <2>2, ColumnsOf
  <2>4. IsCoherent(patched)
    BY <2>2, <2>3 DEF IsCoherent, Effective, Resumable, Expirable, SoldStatus
  <2> QED BY <1>0, <2>1, <2>2, <2>4 DEF KeepsCoherence
<1>4. CASE plan \in Finalize(row)
  <2> PICK to \in After(row.status, "MISSION_FINALIZED") :
         plan = Plan([status |-> to], {Ending("MISSION_FINALIZED")}, Null)
    BY <1>4 DEF Finalize
  <2>1. plan.patch = [status |-> to]
    BY DEF Plan
  <2>2. row.status = "VENDU" /\ to = "MISSION_TERMINEE"
    BY DEF After, Transitions, Stoppable, Resumable, Expirable
  <2>3. /\ patched.status = "MISSION_TERMINEE" /\ patched.preSuspend = row.preSuspend
        /\ patched.reason = row.reason /\ patched.offer = row.offer
        /\ patched.buyer = row.buyer /\ patched.sold = row.sold
    BY <1>0, <2>1, <2>2, ColumnsOf
  <2>4. IsCoherent(patched)
    BY <2>2, <2>3 DEF IsCoherent, Effective, Expirable, SoldStatus
  <2> QED BY <1>0, <2>1, <2>2, <2>4 DEF KeepsCoherence
<1>5. CASE plan \in CloseValidation(row)
  <2> DEFINE patch(to) == [status |-> to, reason |-> Null, offer |-> Null, buyer |-> Null]
  <2> PICK to \in After(row.status, "VALIDATION_RESOLVED") :
         plan = Plan(patch(to), {Contact(row.buyer)}, Null)
    BY <1>5 DEF CloseValidation
  <2>1. plan.patch = patch(to)
    BY DEF Plan
  <2>2. row.status = "EN_ATTENTE_VALIDATION" /\ to = "NEGOCIATION_ACTIVE"
    BY DEF After, Transitions, Stoppable, Resumable, Expirable
  <2>3. /\ patched.status = "NEGOCIATION_ACTIVE" /\ patched.preSuspend = row.preSuspend
        /\ patched.reason = Null /\ patched.offer = Null
        /\ patched.buyer = Null /\ patched.sold = row.sold
    BY <1>0, <2>1, <2>2, ColumnsOf
  <2>4. IsCoherent(patched)
    BY <2>2, <2>3 DEF IsCoherent, Effective, Expirable, SoldStatus
  <2> QED BY <1>0, <2>1, <2>2, <2>4 DEF KeepsCoherence
<1> QED BY <1>1, <1>2, <1>3, <1>4, <1>5

LEMMA AcceptPlansCohere ==
    ASSUME NEW row \in MissionRow, IsCoherent(row), NEW plan \in AcceptOffer(row)
    PROVE  KeepsCoherence(plan.patch, row)
<1> DEFINE patch(to) == [status |-> to, sold |-> row.offer, best |-> BestOf(row, row.offer),
                         reason |-> Null, offer |-> Null, buyer |-> Null]
           patched == Patched(row, plan.patch)
<1>1. PICK to \in After(row.status, "SALE_CONFIRMED") :
         /\ row.status = "EN_ATTENTE_VALIDATION" /\ row.offer # Null
         /\ plan = Plan(patch(to), {Entry("SALE_CONFIRMED", row.buyer, row.offer)}, "SOLD")
  BY DEF AcceptOffer
<1>2. plan.patch = patch(to) /\ to = "VENDU"
  BY <1>1, AfterFacts DEF Plan
<1>3. /\ patched.status = "VENDU" /\ patched.preSuspend = row.preSuspend
      /\ patched.sold = row.offer
  BY <1>2, ColumnsOf
<1> HIDE DEF patched
<1>4. IsCoherent(patched)
  BY <1>1, <1>3 DEF IsCoherent, Effective, Expirable, SoldStatus
<1> QED BY <1>2, <1>4 DEF KeepsCoherence, patched

\* Where an awakened mission may be sold or need the seller.
LEMMA AwakenedFrom ==
    ASSUME NEW row \in MissionRow
    PROVE  /\ \A to \in UNION {After(s, "SALE_CONFIRMED") : s \in Awake(row)} :
                 to = "VENDU" /\ row.status \in Resumable
           /\ \A to \in UNION {After(s, "VALIDATION_REQUIRED") : s \in Awake(row)} :
                 to = "EN_ATTENTE_VALIDATION" /\ row.status \in Expirable
           /\ \A to \in Awake(row) :
                 \/ to = row.status
                 \/ row.status = "EN_VENTE" /\ to = "NEGOCIATION_ACTIVE"
<1>1. \A s, to : to \in After(s, "SALE_CONFIRMED")
                    => to = "VENDU" /\ s \in {"NEGOCIATION_ACTIVE", "EN_ATTENTE_VALIDATION"}
  BY DEF After, Transitions, Stoppable, Resumable, Expirable
<1>2. \A s, to : to \in After(s, "VALIDATION_REQUIRED")
                    => to = "EN_ATTENTE_VALIDATION" /\ s \in {"EN_VENTE", "NEGOCIATION_ACTIVE"}
  BY DEF After, Transitions, Stoppable, Resumable, Expirable
<1>3. \A s, to : to \in After(s, "BUYER_MESSAGE") => to = "NEGOCIATION_ACTIVE"
  BY DEF After, Transitions, Stoppable, Resumable, Expirable
<1>4. \A to \in Awake(row) :
         \/ to = row.status /\ row.status # "EN_VENTE"
         \/ row.status = "EN_VENTE" /\ to = "NEGOCIATION_ACTIVE"
  BY <1>3 DEF Awake
<1> QED BY <1>1, <1>2, <1>4 DEF Resumable, Expirable

LEMMA MessagePlansCohere ==
    ASSUME NEW row \in MissionRow, IsCoherent(row), NEW m \in Message,
           NEW plan \in ApplyAction(row, m)
    PROVE  KeepsCoherence(plan.patch, row)
<1> DEFINE action == DecideNegotiation(row.mandate, m)
           sale   == UNION {After(s, "SALE_CONFIRMED") : s \in Awake(row)}
           asked  == UNION {After(s, "VALIDATION_REQUIRED") : s \in Awake(row)}
           best   == BestOf(row, m.amount)
           patched == Patched(row, plan.patch)
<1>0. patched = Patched(row, plan.patch)
  OBVIOUS
<1>1. m.buyer \in Buyer /\ (m.kind = "OFFER" => m.amount \in Amount)
  BY MessageFacts
<1> HIDE DEF patched
<1>2. CASE action = Reply
  <2>0. ApplyAction(row, m) = {Plan([status |-> to], {Contact(m.buyer)}, Null) : to \in Awake(row)}
    BY <1>2 DEF ApplyAction, Reply
  <2>1. PICK to \in Awake(row) : plan = Plan([status |-> to], {Contact(m.buyer)}, Null)
    BY <2>0
  <2>2. plan.patch = [status |-> to]
    BY <2>1 DEF Plan
  <2>3. /\ patched.status = to /\ patched.preSuspend = row.preSuspend
        /\ patched.reason = row.reason /\ patched.offer = row.offer
        /\ patched.buyer = row.buyer /\ patched.sold = row.sold
    BY <1>0, <2>2, ColumnsOf
  <2>4. to = row.status \/ (row.status = "EN_VENTE" /\ to = "NEGOCIATION_ACTIVE")
    BY AwakenedFrom
  <2>5. IsCoherent(patched)
    BY <2>3, <2>4 DEF IsCoherent, Effective, Expirable, SoldStatus
  <2> QED BY <1>0, <2>2, <2>4, <2>5 DEF KeepsCoherence
<1>3. CASE action = Accept /\ m.kind = "OFFER"
  <2> DEFINE entry == Entry("AUTO_ACCEPT", m.buyer, m.amount)
             patch(to) == [status |-> to, sold |-> m.amount, best |-> best]
  <2>0. ApplyAction(row, m) = {Plan(patch(to), {entry}, "SOLD") : to \in sale}
    BY <1>3 DEF ApplyAction, Accept
  <2>1. PICK to \in sale : plan = Plan(patch(to), {entry}, "SOLD")
    BY <2>0
  <2>2. plan.patch = patch(to) /\ to = "VENDU" /\ row.status \in Resumable
    BY <2>1, AwakenedFrom DEF Plan
  <2>3. /\ patched.status = "VENDU" /\ patched.preSuspend = row.preSuspend
        /\ patched.sold = m.amount
    BY <1>0, <2>2, ColumnsOf
  <2>4. IsCoherent(patched)
    BY <1>1, <1>3, <2>2, <2>3, NullFacts DEF IsCoherent, Effective, Expirable, SoldStatus,
       Resumable
  <2> QED BY <1>0, <2>2, <2>4 DEF KeepsCoherence
<1>4. CASE m.kind = "OFFER" /\ \E reason \in OfferReason : action = Ask(reason)
  <2> PICK reason \in OfferReason : action = Ask(reason)
    BY <1>4
  <2> DEFINE entry == Entry("SUBMITTED", m.buyer, m.amount)
             patch(to) == [status |-> to, reason |-> reason, buyer |-> m.buyer,
                           offer |-> m.amount, best |-> best]
  <2>0. ApplyAction(row, m) = {Plan(patch(to), {entry}, "VALIDATION_REQUIRED") : to \in asked}
    BY <1>4 DEF ApplyAction, Ask
  <2>1. PICK to \in asked : plan = Plan(patch(to), {entry}, "VALIDATION_REQUIRED")
    BY <2>0
  <2>2. plan.patch = patch(to) /\ to = "EN_ATTENTE_VALIDATION" /\ row.status \in Expirable
    BY <2>1, AwakenedFrom DEF Plan
  <2>3. /\ patched.status = "EN_ATTENTE_VALIDATION" /\ patched.preSuspend = row.preSuspend
        /\ patched.reason = reason /\ patched.offer = m.amount
        /\ patched.buyer = m.buyer /\ patched.sold = row.sold
    BY <1>0, <2>2, ColumnsOf
  <2>4. reason # Null /\ m.amount # Null /\ m.buyer # Null
    BY <1>1, <1>4, NullFacts
  <2>5. row.sold = Null /\ row.preSuspend = Null
    BY <2>2 DEF IsCoherent, Effective, Expirable, SoldStatus
  <2>6. IsCoherent(patched)
    BY <2>3, <2>4, <2>5 DEF IsCoherent, Effective, Expirable, SoldStatus
  <2> QED BY <1>0, <2>2, <2>6 DEF KeepsCoherence
<1>5. CASE m.kind # "OFFER" /\ \E reason \in Reason \ OfferReason : action = Ask(reason)
  <2> PICK reason \in Reason \ OfferReason : action = Ask(reason)
    BY <1>5
  <2> DEFINE patch(to) == [status |-> to, reason |-> reason, buyer |-> m.buyer]
             notify == IF reason = "SECURITY_ALERT" THEN "SECURITY_ALERT"
                       ELSE "VALIDATION_REQUIRED"
  <2>0. ApplyAction(row, m) = {Plan(patch(to), {Contact(m.buyer)}, notify) : to \in asked}
    BY <1>5 DEF ApplyAction, Ask
  <2>1. PICK to \in asked : plan = Plan(patch(to), {Contact(m.buyer)}, notify)
    BY <2>0
  <2>2. plan.patch = patch(to) /\ to = "EN_ATTENTE_VALIDATION" /\ row.status \in Expirable
    BY <2>1, AwakenedFrom DEF Plan
  <2>3. /\ patched.status = "EN_ATTENTE_VALIDATION" /\ patched.preSuspend = row.preSuspend
        /\ patched.reason = reason /\ patched.offer = row.offer
        /\ patched.buyer = m.buyer /\ patched.sold = row.sold
    BY <1>0, <2>2, ColumnsOf
  <2>4. IsCoherent(patched)
    BY <1>1, <2>2, <2>3, NullFacts DEF IsCoherent, Effective, Expirable, SoldStatus
  <2> QED BY <1>0, <2>2, <2>4 DEF KeepsCoherence
<1> QED BY <1>2, <1>3, <1>4, <1>5, DecisionFacts

LEMMA BegunCoheres ==
    ASSUME NEW op \in Operation, NEW row \in MissionRow, IsCoherent(row),
           NEW next \in Begun(op, row), IsWork(next)
    PROVE  KeepsCoherence(next.patch, row)
<1>1. PICK plan \in Plans(op, row) : next.patch = plan.patch
  BY IdleFacts DEF Begun
<1>2. CASE op.kind = "MESSAGE"
  BY <1>1, <1>2, MessagePlansCohere DEF Plans, Operation
<1>3. CASE op.kind = "ACCEPT"
  BY <1>1, <1>3, AcceptPlansCohere DEF Plans
<1>4. CASE op.kind \in {"SUSPEND", "RESUME", "STOP", "FINALIZE", "READ", "CLOSE"}
  BY <1>1, <1>4, SellerPlansCohere DEF Plans
<1> QED BY <1>2, <1>3, <1>4 DEF Operation

-----------------------------------------------------------------------------
(* The steps of SlateInv. *)

\* A fresh request r writes its coherent row and goes on as `next`.
LEMMA SlateWrite ==
    ASSUME Inv, Inv', SlateInv, NEW r \in Request, NEW next, Wrote(r, next),
           mission \in MissionRow, mission' \in MissionRow, crashes' = crashes,
           req[r].fresh => IsCoherent(mission'),
           IsWork(next) => KeepsCoherence(next.patch, mission'),
           mission'.status = "BROUILLON_MANDAT" /\ req[r].fresh
              => mission.status = "BROUILLON_MANDAT" /\ req[r].step # "activate"
    PROVE  SlateInv'
<1> SUFFICES ASSUME ~overwritten'
             PROVE  /\ IsCoherent(mission')
                    /\ \A q \in Request : IsWork(req'[q]) /\ req'[q].fresh
                          => KeepsCoherence(req'[q].patch, mission')
                    /\ mission'.status = "BROUILLON_MANDAT" /\ crashes' = 0
                          => \E q \in Request : req'[q].step = "activate"
  BY DEF SlateInv
<1>1. ~overwritten /\ req[r].fresh
  <2>1. overwritten' = (overwritten \/ ~req[r].fresh)
    BY DEF Wrote
  <2> QED BY <2>1
<1>2. \A q \in Request : req'[q] = IF q = r THEN next ELSE Stale(req[q])
  BY DEF Wrote, Stale
<1>3. \A q \in Request : q # r => req'[q].fresh = FALSE /\ req'[q].step = req[q].step
  <2> SUFFICES ASSUME NEW q \in Request, q # r
               PROVE  req'[q].fresh = FALSE /\ req'[q].step = req[q].step
    OBVIOUS
  <2>1. IsRequest(req[q])
    BY DEF Inv, TypeInv
  <2>2. Stale(req[q]).fresh = FALSE /\ Stale(req[q]).step = req[q].step
    BY <2>1, StaleFacts
  <2> QED BY <1>2, <2>2
<1>4. \A q \in Request : IsWork(req'[q]) /\ req'[q].fresh
         => KeepsCoherence(req'[q].patch, mission')
  BY <1>2, <1>3
<1>5. ASSUME mission'.status = "BROUILLON_MANDAT", crashes' = 0
      PROVE  \E q \in Request : req'[q].step = "activate"
  <2>1. PICK q \in Request : req[q].step = "activate"
    BY <1>1, <1>5, NullAssumption DEF SlateInv
  <2> QED BY <1>1, <1>3, <1>5, <2>1
<1> QED BY <1>1, <1>4, <1>5

\* A request r goes on as `next`; nothing it is coherent with changes.
LEMMA SlateLocal ==
    ASSUME Inv, SlateInv, NEW r \in Request, NEW next, req' = [req EXCEPT ![r] = next],
           UNCHANGED <<mission, overwritten, crashes>>,
           req[r].step = "activate" => next.step = "activate",
           mission # Null /\ ~overwritten /\ IsWork(next) /\ next.fresh
              => KeepsCoherence(next.patch, mission)
    PROVE  SlateInv'
<1>1. \A q \in Request : req'[q] = IF q = r THEN next ELSE req[q]
  BY DEF Inv, TypeInv
<1> QED BY <1>1 DEF SlateInv

LEMMA SlateCreate ==
    ASSUME Inv, SlateInv, NEW r \in Request, NEW m \in Mandate, CreateMission(r, m)
    PROVE  SlateInv'
<1> DEFINE next == [step |-> "activate", fresh |-> TRUE]
<1>1. \A q \in Request : req'[q] = IF q = r THEN next ELSE req[q]
  BY DEF CreateMission, Inv, TypeInv
<1>2. \A q \in Request : ~IsWork(req'[q])
  BY <1>1 DEF CreateMission, Inv, TypeInv, IsRequest, IsWork
<1>3. req'[r].step = "activate"
  BY <1>1
<1>4. IsCoherent(mission')
  BY DEF CreateMission, IsCoherent, Effective, SoldStatus
<1> QED BY <1>2, <1>3, <1>4 DEF SlateInv

LEMMA SlateActivate ==
    ASSUME Inv, Inv', SlateInv, NEW r \in Request, Activate(r)
    PROVE  SlateInv'
<1>1. mission \in MissionRow /\ mission # Null
  BY BusyFacts, NullAssumption DEF Activate
<1>2. mission' = Patched(mission, [status |-> "EN_VENTE"])
  BY DEF Activate
<1>3. /\ mission'.status = "EN_VENTE" /\ mission'.reason = mission.reason
      /\ mission'.offer = mission.offer /\ mission'.buyer = mission.buyer
      /\ mission'.sold = mission.sold /\ mission'.preSuspend = mission.preSuspend
  BY <1>1, <1>2, ColumnsOf
<1>4. mission' \in MissionRow
  BY <1>1, <1>2, PatchedIsRow, StatusPatch DEF Status, SoldStatus
<1>5. ASSUME req[r].fresh, ~overwritten PROVE IsCoherent(mission')
  <2>1. mission.status = "BROUILLON_MANDAT" /\ IsCoherent(mission)
    BY <1>1, <1>5 DEF Activate, Inv, FreshInv, SlateInv
  <2> QED BY <1>3, <2>1 DEF IsCoherent, Effective, Expirable, SoldStatus
<1>6. CASE overwritten
  BY <1>6 DEF Activate, Wrote, SlateInv
<1>7. CASE ~overwritten
  BY <1>1, <1>3, <1>4, <1>5, <1>7, IdleFacts, SlateWrite DEF Activate
<1> QED BY <1>6, <1>7

LEMMA SlateFind ==
    ASSUME Inv, SlateInv, NEW r \in Request, NEW op \in Operation, FindOwned(r, op)
    PROVE  SlateInv'
<1>1. mission \in MissionRow
  BY DEF FindOwned, Inv, TypeInv
<1>2. req[r].step = "idle"
  BY IdleFacts DEF FindOwned
<1>3. CASE ExpiryDue(mission)
  <2> DEFINE next == [step |-> "expire", op |-> OnceExpired(op), fresh |-> TRUE]
  <2>1. req' = [req EXCEPT ![r] = next]
    BY <1>3 DEF FindOwned
  <2>2. ~IsWork(next)
    BY DEF IsWork
  <2> HIDE DEF next
  <2> QED BY <1>2, <2>1, <2>2, SlateLocal DEF FindOwned
<1>4. CASE ~ExpiryDue(mission)
  <2>1. PICK next \in Begun(op, mission) : req' = [req EXCEPT ![r] = next]
    BY <1>4 DEF FindOwned
  <2>2. mission # Null /\ ~overwritten /\ IsWork(next) /\ next.fresh
           => KeepsCoherence(next.patch, mission)
    BY <1>1, BegunCoheres DEF SlateInv
  <2> QED BY <1>2, <2>1, <2>2, SlateLocal DEF FindOwned
<1> QED BY <1>3, <1>4

LEMMA SlateExpire ==
    ASSUME Inv, Inv', SlateInv, NEW r \in Request, Expire(r)
    PROVE  SlateInv'
<1>1. mission \in MissionRow /\ mission # Null
  BY BusyFacts, NullAssumption DEF Expire
<1>2. mission' = Patched(mission, [status |-> "EXPIREE"])
  BY DEF Expire
<1>3. /\ mission'.status = "EXPIREE" /\ mission'.reason = mission.reason
      /\ mission'.offer = mission.offer /\ mission'.buyer = mission.buyer
      /\ mission'.sold = mission.sold /\ mission'.preSuspend = mission.preSuspend
  BY <1>1, <1>2, ColumnsOf
<1>4. mission' \in MissionRow
  BY <1>1, <1>2, PatchedIsRow, StatusPatch DEF Status, SoldStatus
<1>5. req[r].op \in Operation
  BY DEF Expire, Inv, TypeInv, IsRequest, IsWork
<1>6. PICK next \in Begun(req[r].op, mission') : Wrote(r, next)
  BY DEF Expire
<1>7. CASE overwritten \/ ~req[r].fresh
  BY <1>7 DEF Expire, Wrote, SlateInv
<1>8. CASE ~overwritten /\ req[r].fresh
  <2>1. mission.status \in Expirable /\ IsCoherent(mission)
    BY <1>1, <1>8 DEF Expire, Inv, FreshInv, SlateInv
  <2>2. IsCoherent(mission')
    BY <1>3, <2>1 DEF IsCoherent, Effective, Expirable, SoldStatus
  <2>3. IsWork(next) => KeepsCoherence(next.patch, mission')
    BY <1>4, <1>5, <2>2, BegunCoheres
  <2> QED BY <1>1, <1>3, <1>4, <1>6, <2>2, <2>3, SlateWrite DEF Expire
<1> QED BY <1>7, <1>8

LEMMA SlateCommit ==
    ASSUME Inv, Inv', SlateInv, NEW r \in Request, Commit(r)
    PROVE  SlateInv'
<1> DEFINE p == req[r].patch
           row == Patched(mission, p)
<1>1. IsWork(req[r]) /\ mission \in MissionRow /\ IsPatch(p) /\ mission # Null
  BY WorkFacts, NullAssumption DEF Commit, IsWork
<1>2. row \in MissionRow /\ row.status = p.status
  BY <1>1, PatchedIsRow
<1>3. mission' = [row EXCEPT !.buyers = @ + IF req[r].newBuyer THEN 1 ELSE 0]
  BY DEF Commit
<1>4. CASE overwritten \/ ~req[r].fresh
  BY <1>4 DEF Commit, Wrote, SlateInv
<1>5. CASE ~overwritten /\ req[r].fresh
  <2>1. IsCoherent(row) /\ (p.status = "BROUILLON_MANDAT" => mission.status = "BROUILLON_MANDAT")
    BY <1>1, <1>5 DEF SlateInv, KeepsCoherence
  <2> HIDE DEF row, p
  <2>2. /\ mission' \in MissionRow
        /\ mission'.status = row.status /\ mission'.reason = row.reason
        /\ mission'.offer = row.offer /\ mission'.buyer = row.buyer
        /\ mission'.sold = row.sold /\ mission'.preSuspend = row.preSuspend
    BY <1>2, <1>3 DEF MissionRow
  <2>3. IsCoherent(mission')
    BY <2>1, <2>2, CoherenceOfColumns
  <2>4. Wrote(r, Idle) /\ crashes' = crashes /\ req[r].step = "write"
    BY DEF Commit
  <2> QED BY <1>1, <1>2, <2>1, <2>2, <2>3, <2>4, IdleFacts, SlateWrite
<1> QED BY <1>4, <1>5

LEMMA SlateCount ==
    ASSUME Inv, SlateInv, NEW r \in Request, CountBuyer(r)
    PROVE  SlateInv'
<1>1. IsWork(req[r])
  BY WorkFacts DEF CountBuyer
<1>2. PICK next :
        /\ req' = [req EXCEPT ![r] = next]
        /\ next = [req[r] EXCEPT !.step = IF req[r].notify # Null THEN "notify" ELSE "write",
                                 !.newBuyer = \A n \in req[r].entries, e \in events :
                                                 e.buyer # n.buyer]
  BY DEF CountBuyer
<1>3. next.patch = req[r].patch /\ next.fresh = req[r].fresh
  BY <1>1, <1>2 DEF IsWork
<1>4. mission # Null /\ ~overwritten /\ IsWork(next) /\ next.fresh
         => KeepsCoherence(next.patch, mission)
  BY <1>1, <1>3 DEF SlateInv
<1>5. req[r].step = "count" /\ UNCHANGED <<mission, overwritten, crashes>>
  BY DEF CountBuyer
<1> QED BY <1>2, <1>4, <1>5, SlateLocal

LEMMA SlateNotify ==
    ASSUME Inv, SlateInv, NEW r \in Request, Notify(r)
    PROVE  SlateInv'
<1> DEFINE patch == req[r].patch
           stamp == [f \in DOMAIN patch \cup {"notifiedAt"} |->
                       IF f = "notifiedAt" THEN hour ELSE patch[f]]
           due == AlertDue(req[r].notify, req[r].lastSeen)
           written == IF due THEN stamp ELSE patch
<1>1. IsWork(req[r]) /\ mission \in MissionRow /\ mission # Null
  BY WorkFacts, NullAssumption DEF Notify
<1>2. PICK next :
        /\ req' = [req EXCEPT ![r] = next]
        /\ next = [req[r] EXCEPT !.step = "write", !.patch = written, !.lastSeen = Null]
  BY DEF Notify
<1>3. /\ DOMAIN stamp = DOMAIN patch \cup {"notifiedAt"}
      /\ \A f \in DOMAIN patch : f # "notifiedAt" => stamp[f] = patch[f]
  OBVIOUS
<1>4. "status" \in DOMAIN patch
  BY <1>1 DEF IsWork, IsPatch
<1> HIDE DEF stamp
<1>5. ASSUME KeepsCoherence(patch, mission)
      PROVE  KeepsCoherence(stamp, mission)
  <2> DEFINE old == Patched(mission, patch)
             new == Patched(mission, stamp)
  <2>1. old = Patched(mission, patch) /\ new = Patched(mission, stamp)
    OBVIOUS
  <2> HIDE DEF old, new, patch
  <2>2. /\ new.status = old.status /\ new.reason = old.reason /\ new.offer = old.offer
        /\ new.buyer = old.buyer /\ new.sold = old.sold /\ new.preSuspend = old.preSuspend
    BY <1>1, <1>3, <2>1, ColumnsOf
  <2>3. IsCoherent(new)
    BY <1>5, <2>1, <2>2, CoherenceOfColumns DEF KeepsCoherence
  <2> QED BY <1>3, <1>4, <1>5, <2>1, <2>3 DEF KeepsCoherence
<1>6. KeepsCoherence(patch, mission) => KeepsCoherence(written, mission)
  <2> HIDE DEF patch, due
  <2> QED BY <1>5
<1> HIDE DEF written
<1>7. next.patch = written /\ next.fresh = req[r].fresh
  BY <1>1, <1>2 DEF IsWork
<1>8. mission # Null /\ ~overwritten /\ IsWork(next) /\ next.fresh
         => KeepsCoherence(next.patch, mission)
  BY <1>1, <1>6, <1>7 DEF SlateInv
<1>9. req[r].step = "notify" /\ UNCHANGED <<mission, overwritten, crashes>>
  BY DEF Notify
<1> QED BY <1>2, <1>8, <1>9, SlateLocal

LEMMA SlateInvHolds ==
    ASSUME Inv, Inv', SlateInv, [Next]_vars
    PROVE  SlateInv'
<1>1. ASSUME NEW r \in Request, Handle(r) PROVE SlateInv'
  BY <1>1, SlateCreate, SlateActivate, SlateFind, SlateExpire, SlateCount, SlateNotify,
     SlateCommit DEF Handle
<1>2. CASE Crash
  <2>1. \A r \in Request : req'[r] = Idle
    BY <1>2 DEF Crash
  <2>2. crashes' # 0
    BY <1>2, MissionAssumption DEF Crash, Inv, TypeInv
  <2> QED BY <1>2, <2>1, <2>2, IdleFacts DEF Crash, SlateInv
<1>3. CASE HourPasses \/ MonthPasses
  BY <1>3 DEF HourPasses, MonthPasses, SlateInv
<1>4. CASE UNCHANGED vars
  BY <1>4 DEF vars, SlateInv
<1> QED BY <1>1, <1>2, <1>3, <1>4 DEF Next

\* No request makes the slate incoherent, as long as no update overwrites another.
THEOREM SlateIsInvariant == Spec => []SlateInv
<1>1. Init => SlateInv
  BY DEF Init, SlateInv
<1>2. Inv /\ Inv' /\ SlateInv /\ [Next]_vars => SlateInv'
  BY SlateInvHolds
<1> QED BY <1>1, <1>2, InvIsInvariant, PTL DEF Spec

\* The slate the seller is shown has a buyer and, for an offer, an amount, in
\* every interleaving.  As long as no update overwrites another it is there when
\* something awaits them, a suspended mission knows what to come back to, VENDU
\* means sold, a draft is about to be activated.
THEOREM TheSlateIsCoherent == Spec => []SlateIsCoherent
<1>1. Init => WholeInv
  BY DEF Init, WholeInv
<1>2. Inv /\ WholeInv /\ [Next]_vars => WholeInv'
  BY WholeInvHolds
<1>3. Inv /\ SlateInv /\ WholeInv => SlateIsCoherent
  <2> SUFFICES ASSUME Inv, SlateInv, WholeInv, mission # Null
               PROVE  SlateIsCoherent
    BY DEF SlateIsCoherent
  <2>1. CASE overwritten
    BY <2>1 DEF SlateIsCoherent, WholeInv, IsWhole
  <2>2. CASE ~overwritten
    <3>1. mission \in MissionRow /\ IsCoherent(mission)
      BY <2>2 DEF Inv, TypeInv, SlateInv
    <3>2. /\ Effective(mission) \in Status
          /\ mission.status = "SUSPENDUE" => mission.preSuspend # "BROUILLON_MANDAT"
      BY <3>1, NullFacts DEF IsCoherent, Effective, Resumable
    <3>3. mission.status = "BROUILLON_MANDAT" /\ crashes = 0
            => \E r \in Request : req[r].step = "activate"
      BY <2>2 DEF SlateInv
    <3> QED BY <3>1, <3>2, <3>3, NullFacts DEF SlateIsCoherent, WholeInv, IsWhole, IsCoherent,
            Effective, Sold, SoldStatus, Expirable
  <2> QED BY <2>1, <2>2 DEF Inv, TypeInv
<1> QED BY <1>1, <1>2, <1>3, InvIsInvariant, SlateIsInvariant, PTL DEF Spec

-----------------------------------------------------------------------------
(* The buyers of the timeline.                                              *)

\* What a request will add to the timeline, and to the buyers that are counted.
Counts(q, seen) ==
    /\ q.newBuyer \in BOOLEAN
    /\ "buyer" \in DOMAIN q.patch /\ q.patch.buyer # Null
          => \E n \in q.entries : n.buyer = q.patch.buyer
    /\ q.step = "count" \/ q.newBuyer = TRUE
          => \E n \in Event : q.entries = {n} /\ n.buyer # Null
    /\ q.step # "count" /\ q.newBuyer = FALSE
          => \A n \in q.entries : n.buyer \in seen \cup {Null}

\* A buyer that is about to be counted is not in the timeline.
CountsOnce(q, seen) ==
    q.step # "count" /\ q.newBuyer = TRUE => \A n \in q.entries : n.buyer \notin seen

CountInv ==
    mission # Null
       => /\ IsFiniteSet(Contacted) /\ Cardinality(Contacted) <= mission.buyers
          /\ ~overwritten => mission.buyers = Cardinality(Contacted)
          /\ mission.buyer \in Contacted \cup {Null}
          /\ \A r \in Request : IsWork(req[r]) => Counts(req[r], Contacted)
          /\ \A r \in Request : IsWork(req[r]) /\ req[r].fresh /\ ~overwritten
                => CountsOnce(req[r], Contacted)

\* Who a plan is about: the sender of the message, or the buyer of the slate.
IsAbout(op, plan, row) ==
    /\ "notifiedAt" \notin DOMAIN plan.patch
    /\ op.kind = "MESSAGE" =>
          /\ \E n \in Event : plan.entries = {n} /\ n.buyer # Null
          /\ "buyer" \in DOMAIN plan.patch => \A n \in plan.entries : n.buyer = plan.patch.buyer
    /\ op.kind # "MESSAGE" =>
          /\ "buyer" \in DOMAIN plan.patch => plan.patch.buyer = Null
          /\ \A n \in plan.entries : n.buyer \in {row.buyer, Null}

LEMMA SellerPlansAreAbout ==
    ASSUME NEW op, op.kind # "MESSAGE", NEW row,
           NEW plan \in Suspend(row) \cup Resume(row) \cup Stop(row) \cup Finalize(row)
                        \cup CloseValidation(row) \cup AcceptOffer(row)
    PROVE  IsAbout(op, plan, row)
<1>1. CASE plan \in Suspend(row) \cup Resume(row) \cup Stop(row) \cup Finalize(row)
  <2>1. /\ plan.entries \subseteq {Ending("MISSION_FINALIZED")}
        /\ DOMAIN plan.patch \subseteq {"status", "preSuspend"}
    BY <1>1 DEF Suspend, Resume, Stop, Finalize, Plan
  <2>2. Ending("MISSION_FINALIZED").buyer = Null
    BY DEF Ending, Entry
  <2> QED
    BY <2>1, <2>2 DEF IsAbout
<1>2. CASE plan \in CloseValidation(row)
  <2>1. PICK to \in After(row.status, "VALIDATION_RESOLVED") :
          plan = Plan([status |-> to, reason |-> Null, offer |-> Null, buyer |-> Null],
                      {Contact(row.buyer)}, Null)
    BY <1>2 DEF CloseValidation
  <2> QED
    BY <2>1 DEF IsAbout, Plan, Contact
<1>3. CASE plan \in AcceptOffer(row)
  <2>1. PICK to \in After(row.status, "SALE_CONFIRMED") :
          plan = Plan([status |-> to, sold |-> row.offer, best |-> BestOf(row, row.offer),
                       reason |-> Null, offer |-> Null, buyer |-> Null],
                      {Entry("SALE_CONFIRMED", row.buyer, row.offer)}, "SOLD")
    BY <1>3 DEF AcceptOffer
  <2> QED
    BY <2>1 DEF IsAbout, Plan, Entry
<1> QED
  BY <1>1, <1>2, <1>3

LEMMA MessagePlansAreAbout ==
    ASSUME NEW op, op.kind = "MESSAGE", NEW row, NEW m \in Message, NEW plan \in ApplyAction(row, m)
    PROVE  IsAbout(op, plan, row)
<1> DEFINE action == DecideNegotiation(row.mandate, m)
           sale   == UNION {After(s, "SALE_CONFIRMED") : s \in Awake(row)}
           asked  == UNION {After(s, "VALIDATION_REQUIRED") : s \in Awake(row)}
           best   == BestOf(row, m.amount)
<1>1. m.buyer \in Buyer /\ m.buyer # Null /\ (m.kind = "OFFER" => m.amount \in Amount)
  BY MessageFacts, NullFacts
<1>2. /\ Contact(m.buyer) \in Event /\ Contact(m.buyer).buyer = m.buyer
      /\ \A kind \in {"AUTO_ACCEPT", "SUBMITTED"} :
            m.kind = "OFFER" => /\ Entry(kind, m.buyer, m.amount) \in Event
                                /\ Entry(kind, m.buyer, m.amount).buyer = m.buyer
  BY <1>1 DEF Contact, Entry, Event
<1>3. \/ /\ m.kind = "OFFER"
         /\ plan.entries \in {{Entry("AUTO_ACCEPT", m.buyer, m.amount)},
                              {Entry("SUBMITTED", m.buyer, m.amount)}}
      \/ plan.entries = {Contact(m.buyer)}
  <2>1. CASE action = Reply
    BY <2>1 DEF ApplyAction, Reply, Plan
  <2>2. CASE action = Accept /\ m.kind = "OFFER"
    <3>1. ApplyAction(row, m) =
            {Plan([status |-> to, sold |-> m.amount, best |-> best],
                  {Entry("AUTO_ACCEPT", m.buyer, m.amount)}, "SOLD") : to \in sale}
      BY <2>2 DEF ApplyAction, Accept
    <3> QED
      BY <3>1, <2>2 DEF Plan
  <2>3. CASE m.kind = "OFFER" /\ \E reason \in OfferReason : action = Ask(reason)
    <3>1. ApplyAction(row, m) =
            {Plan([status |-> to, reason |-> action.reason, buyer |-> m.buyer,
                   offer |-> m.amount, best |-> best],
                  {Entry("SUBMITTED", m.buyer, m.amount)}, "VALIDATION_REQUIRED") : to \in asked}
      BY <2>3 DEF ApplyAction, Ask
    <3> QED
      BY <3>1, <2>3 DEF Plan
  <2>4. CASE m.kind # "OFFER" /\ \E reason \in Reason \ OfferReason : action = Ask(reason)
    BY <2>4 DEF ApplyAction, Ask, Plan
  <2> QED
    BY <2>1, <2>2, <2>3, <2>4, DecisionFacts
<1>4. /\ "notifiedAt" \notin DOMAIN plan.patch
      /\ "buyer" \in DOMAIN plan.patch => plan.patch.buyer = m.buyer
  <2>1. CASE action = Reply
    BY <2>1 DEF ApplyAction, Reply, Plan
  <2>2. CASE action = Accept /\ m.kind = "OFFER"
    <3>1. ApplyAction(row, m) =
            {Plan([status |-> to, sold |-> m.amount, best |-> best],
                  {Entry("AUTO_ACCEPT", m.buyer, m.amount)}, "SOLD") : to \in sale}
      BY <2>2 DEF ApplyAction, Accept
    <3> QED
      BY <3>1 DEF Plan
  <2>3. CASE m.kind = "OFFER" /\ \E reason \in OfferReason : action = Ask(reason)
    <3>1. ApplyAction(row, m) =
            {Plan([status |-> to, reason |-> action.reason, buyer |-> m.buyer,
                   offer |-> m.amount, best |-> best],
                  {Entry("SUBMITTED", m.buyer, m.amount)}, "VALIDATION_REQUIRED") : to \in asked}
      BY <2>3 DEF ApplyAction, Ask
    <3> QED
      BY <3>1 DEF Plan
  <2>4. CASE m.kind # "OFFER" /\ \E reason \in Reason \ OfferReason : action = Ask(reason)
    BY <2>4 DEF ApplyAction, Ask, Plan
  <2> QED
    BY <2>1, <2>2, <2>3, <2>4, DecisionFacts
<1> QED
  BY <1>1, <1>2, <1>3, <1>4 DEF IsAbout

LEMMA PlansAreAbout ==
    ASSUME NEW op \in Operation, NEW row, NEW plan \in Plans(op, row)
    PROVE  IsAbout(op, plan, row)
<1>1. CASE op.kind = "MESSAGE"
  BY <1>1, MessagePlansAreAbout DEF Plans, Operation
<1>2. CASE op.kind # "MESSAGE"
  BY <1>2, SellerPlansAreAbout DEF Plans, Operation
<1> QED
  BY <1>1, <1>2

LEMMA BegunCounts ==
    ASSUME NEW op \in Operation, NEW row, NEW seen, row.buyer \in seen \cup {Null},
           NEW next \in Begun(op, row), IsWork(next)
    PROVE  Counts(next, seen) /\ CountsOnce(next, seen)
<1>1. PICK plan \in Plans(op, row) :
        next = [step |-> IF op.kind = "MESSAGE" THEN "count"
                         ELSE IF plan.notify # Null THEN "notify" ELSE "write",
                patch |-> plan.patch, entries |-> plan.entries, notify |-> plan.notify,
                lastSeen |-> IF plan.notify \in Regulated THEN row.notifiedAt ELSE Null,
                newBuyer |-> FALSE, fresh |-> TRUE]
  BY IdleFacts DEF Begun
<1>2. IsAbout(op, plan, row)
  BY PlansAreAbout
<1>3. /\ next.newBuyer = FALSE /\ next.patch = plan.patch /\ next.entries = plan.entries
      /\ op.kind = "MESSAGE" <=> next.step = "count"
  BY <1>1
<1>4. CASE op.kind = "MESSAGE"
  BY <1>2, <1>3, <1>4 DEF Counts, CountsOnce, IsAbout
<1>5. CASE op.kind # "MESSAGE"
  BY <1>2, <1>3, <1>5 DEF Counts, CountsOnce, IsAbout
<1> QED
  BY <1>4, <1>5

\* The timeline only grows, and nothing a request counts on is lost by that.
LEMMA CountsGrow ==
    ASSUME NEW q, IsRequest(q), NEW seen, NEW more, seen \subseteq more,
           IsWork(q) => Counts(q, seen), IsWork(Stale(q))
    PROVE  Counts(Stale(q), more)
<1>1. /\ IsWork(q) /\ Stale(q).patch = q.patch /\ Stale(q).entries = q.entries
      /\ Stale(q).step = q.step
  BY StaleFacts
<1>2. Stale(q).newBuyer = q.newBuyer
  BY <1>1 DEF IsWork, Stale
<1> QED
  BY <1>1, <1>2 DEF Counts

\* A request r writes the row and the timeline and goes on as `next`.
LEMMA CountWrite ==
    ASSUME Inv, CountInv, NEW r \in Request, NEW next, Wrote(r, next), mission # Null,
           Contacted \subseteq Contacted',
           IsFiniteSet(Contacted'), Cardinality(Contacted') <= mission'.buyers,
           ~overwritten /\ req[r].fresh => mission'.buyers = Cardinality(Contacted'),
           mission'.buyer \in Contacted' \cup {Null},
           IsWork(next) => Counts(next, Contacted') /\ CountsOnce(next, Contacted')
    PROVE  CountInv'
<1>1. ~overwritten' => ~overwritten /\ req[r].fresh
  BY DEF Wrote
<1>2. \A q \in Request : req'[q] = IF q = r THEN next ELSE Stale(req[q])
  BY DEF Wrote, Stale
<1>3. ASSUME NEW q \in Request, q # r
      PROVE  /\ req'[q].fresh = FALSE
             /\ IsWork(req'[q]) => Counts(req'[q], Contacted')
  <2>1. IsRequest(req[q])
    BY DEF Inv, TypeInv
  <2>2. Stale(req[q]).fresh = FALSE
    BY <2>1, StaleFacts
  <2>3. IsWork(Stale(req[q])) => Counts(Stale(req[q]), Contacted')
    BY <2>1, CountsGrow DEF CountInv
  <2> QED
    BY <1>2, <1>3, <2>2, <2>3
<1>4. req'[r] = next
  BY <1>2
<1> QED
  BY <1>1, <1>3, <1>4 DEF CountInv

\* A request r goes on as `next`; the row and the timeline stay.
LEMMA CountLocal ==
    ASSUME Inv, CountInv, NEW r \in Request, NEW next, req' = [req EXCEPT ![r] = next],
           UNCHANGED <<mission, events, overwritten>>,
           mission # Null /\ IsWork(next)
              => /\ Counts(next, Contacted)
                 /\ ~overwritten /\ next.fresh => CountsOnce(next, Contacted)
    PROVE  CountInv'
<1>1. \A q \in Request : req'[q] = IF q = r THEN next ELSE req[q]
  BY DEF Inv, TypeInv
<1>2. Contacted' = Contacted
  BY DEF Contacted
<1> QED
  BY <1>1, <1>2 DEF CountInv

LEMMA CountCreate ==
    ASSUME Inv, NEW r \in Request, NEW m \in Mandate, CreateMission(r, m)
    PROVE  CountInv'
<1>1. events = {} /\ \A q \in Request : req[q].step = "idle"
  BY DEF CreateMission, Inv, TypeInv
<1>2. Contacted' = {}
  BY <1>1 DEF CreateMission, Contacted
<1>3. \A q \in Request : ~IsWork(req'[q])
  <2>1. \A q \in Request : req'[q] = IF q = r THEN [step |-> "activate", fresh |-> TRUE]
                                              ELSE req[q]
    BY DEF CreateMission, Inv, TypeInv
  <2> QED
    BY <1>1, <2>1 DEF IsWork
<1>4. mission'.buyers = 0 /\ mission'.buyer = Null
  BY DEF CreateMission
<1> QED
  BY <1>2, <1>3, <1>4, FS_EmptySet DEF CountInv

LEMMA CountActivate ==
    ASSUME Inv, CountInv, NEW r \in Request, Activate(r)
    PROVE  CountInv'
<1>1. mission \in MissionRow /\ mission # Null
  BY BusyFacts, NullAssumption DEF Activate
<1>2. mission'.buyers = mission.buyers /\ mission'.buyer = mission.buyer
  <2>1. mission' = Patched(mission, [status |-> "EN_VENTE"])
    BY DEF Activate
  <2>2. IsPatch([status |-> "EN_VENTE"])
    BY DEF IsPatch, Status
  <2>3. mission'.buyers = mission.buyers
    BY <1>1, <2>1, <2>2, PatchedIsRow
  <2> QED
    BY <1>1, <2>1, <2>3, ColumnsOf
<1>3. Contacted' = Contacted
  BY DEF Activate, Contacted
<1>4. Wrote(r, Idle)
  BY DEF Activate
<1>5. /\ IsFiniteSet(Contacted) /\ Cardinality(Contacted) <= mission.buyers
      /\ ~overwritten => mission.buyers = Cardinality(Contacted)
      /\ mission.buyer \in Contacted \cup {Null}
  BY <1>1 DEF CountInv
<1> QED
  BY <1>1, <1>2, <1>3, <1>4, <1>5, IdleFacts, CountWrite

LEMMA CountFind ==
    ASSUME Inv, CountInv, NEW r \in Request, NEW op \in Operation, FindOwned(r, op)
    PROVE  CountInv'
<1>1. CASE ExpiryDue(mission)
  <2> DEFINE next == [step |-> "expire", op |-> OnceExpired(op), fresh |-> TRUE]
  <2>1. req' = [req EXCEPT ![r] = next]
    BY <1>1 DEF FindOwned
  <2>2. ~IsWork(next)
    BY DEF IsWork
  <2> HIDE DEF next
  <2> QED
    BY <2>1, <2>2, CountLocal DEF FindOwned
<1>2. CASE ~ExpiryDue(mission)
  <2>1. PICK next \in Begun(op, mission) : req' = [req EXCEPT ![r] = next]
    BY <1>2 DEF FindOwned
  <2>2. mission # Null /\ IsWork(next)
           => Counts(next, Contacted) /\ CountsOnce(next, Contacted)
    BY BegunCounts DEF CountInv
  <2> QED
    BY <2>1, <2>2, CountLocal DEF FindOwned
<1> QED
  BY <1>1, <1>2

LEMMA CountExpire ==
    ASSUME Inv, CountInv, NEW r \in Request, Expire(r)
    PROVE  CountInv'
<1>1. mission \in MissionRow /\ mission # Null
  BY BusyFacts, NullAssumption DEF Expire
<1>2. mission' = Patched(mission, [status |-> "EXPIREE"])
  BY DEF Expire
<1>3. mission'.buyers = mission.buyers
  BY <1>1, <1>2, PatchedIsRow, StatusPatch DEF Status, SoldStatus
<1>4. mission'.buyer = mission.buyer
  BY <1>1, <1>2, ColumnsOf
<1>5. Contacted' = Contacted
  <2>1. Ending("EXPIRED").buyer = Null
    BY DEF Ending, Entry
  <2> QED
    BY <2>1 DEF Expire, Contacted
<1>6. req[r].op \in Operation
  BY DEF Expire, Inv, TypeInv, IsRequest, IsWork
<1>7. PICK next \in Begun(req[r].op, mission') : Wrote(r, next)
  BY DEF Expire
<1>8. /\ IsFiniteSet(Contacted) /\ Cardinality(Contacted) <= mission.buyers
      /\ ~overwritten => mission.buyers = Cardinality(Contacted)
      /\ mission.buyer \in Contacted \cup {Null}
  BY <1>1 DEF CountInv
<1>9. IsWork(next) => Counts(next, Contacted) /\ CountsOnce(next, Contacted)
  BY <1>4, <1>6, <1>7, <1>8, BegunCounts
<1> QED
  BY <1>1, <1>3, <1>4, <1>5, <1>7, <1>8, <1>9, CountWrite

LEMMA CountCount ==
    ASSUME Inv, CountInv, NEW r \in Request, CountBuyer(r)
    PROVE  CountInv'
<1>1. IsWork(req[r]) /\ mission # Null
  BY WorkFacts, NullAssumption DEF CountBuyer
<1> DEFINE isNew == \A n \in req[r].entries, e \in events : e.buyer # n.buyer
<1>2. PICK next :
        /\ req' = [req EXCEPT ![r] = next]
        /\ next = [req[r] EXCEPT !.step = IF req[r].notify # Null THEN "notify" ELSE "write",
                                 !.newBuyer = isNew]
  BY DEF CountBuyer
<1>3. isNew \in BOOLEAN
  OBVIOUS
<1>4. /\ next.patch = req[r].patch /\ next.entries = req[r].entries
      /\ next.fresh = req[r].fresh /\ next.step \in {"notify", "write"}
      /\ next.newBuyer = isNew
  <2> HIDE DEF isNew
  <2> QED
    BY <1>1, <1>2 DEF IsWork
<1>5. Counts(req[r], Contacted) /\ req[r].step = "count"
  BY <1>1 DEF CountInv, CountBuyer
<1>6. PICK n \in Event : req[r].entries = {n} /\ n.buyer # Null
  BY <1>5 DEF Counts
<1>7. isNew <=> n.buyer \notin Contacted
  BY <1>6 DEF Contacted
<1>8. Counts(next, Contacted) /\ CountsOnce(next, Contacted)
  <2>1. \/ next.newBuyer = TRUE /\ n.buyer \notin Contacted
        \/ next.newBuyer = FALSE /\ n.buyer \in Contacted
    <3> HIDE DEF isNew
    <3> QED
      BY <1>3, <1>4, <1>7
  <2> QED
    BY <1>4, <1>5, <1>6, <2>1 DEF Counts, CountsOnce
<1>9. UNCHANGED <<mission, events, overwritten>>
  BY DEF CountBuyer
<1> QED
  BY <1>2, <1>8, <1>9, CountLocal

\* What a request goes on with once it has notified, or decided not to.
LEMMA NotifyFacts ==
    ASSUME Inv, NEW r \in Request, Notify(r)
    PROVE  \E next :
             /\ req' = [req EXCEPT ![r] = next]
             /\ next.entries = req[r].entries /\ next.fresh = req[r].fresh
             /\ next.step = "write" /\ next.newBuyer = req[r].newBuyer
             /\ \A f \in DOMAIN req[r].patch \ {"notifiedAt"} :
                   f \in DOMAIN next.patch /\ next.patch[f] = req[r].patch[f]
             /\ DOMAIN next.patch \subseteq DOMAIN req[r].patch \cup {"notifiedAt"}
             /\ IF AlertDue(req[r].notify, req[r].lastSeen)
                THEN "notifiedAt" \in DOMAIN next.patch /\ next.patch.notifiedAt = hour
                ELSE next.patch = req[r].patch
<1> DEFINE patch == req[r].patch
           stamp == [f \in DOMAIN patch \cup {"notifiedAt"} |->
                       IF f = "notifiedAt" THEN hour ELSE patch[f]]
           due == AlertDue(req[r].notify, req[r].lastSeen)
           written == IF due THEN stamp ELSE patch
           next == [req[r] EXCEPT !.step = "write", !.patch = written, !.lastSeen = Null]
<1>1. IsWork(req[r])
  BY WorkFacts DEF Notify
<1>2. req' = [req EXCEPT ![r] = next]
  BY DEF Notify
<1>3. /\ DOMAIN stamp = DOMAIN patch \cup {"notifiedAt"} /\ stamp.notifiedAt = hour
      /\ \A f \in DOMAIN patch \ {"notifiedAt"} : stamp[f] = patch[f]
  OBVIOUS
<1>4. /\ \A f \in DOMAIN patch \ {"notifiedAt"} : f \in DOMAIN written /\ written[f] = patch[f]
      /\ DOMAIN written \subseteq DOMAIN patch \cup {"notifiedAt"}
      /\ IF due THEN "notifiedAt" \in DOMAIN written /\ written.notifiedAt = hour
                ELSE written = patch
  <2> HIDE DEF stamp, patch, due
  <2> QED
    BY <1>3
<1>5. /\ next.patch = written /\ next.entries = req[r].entries /\ next.fresh = req[r].fresh
      /\ next.step = "write" /\ next.newBuyer = req[r].newBuyer
  <2> HIDE DEF written
  <2> QED
    BY <1>1 DEF IsWork
<1> HIDE DEF next, written
<1> QED
  BY <1>2, <1>4, <1>5

LEMMA CountNotify ==
    ASSUME Inv, CountInv, NEW r \in Request, Notify(r)
    PROVE  CountInv'
<1>1. IsWork(req[r]) /\ mission # Null
  BY WorkFacts, NullAssumption DEF Notify
<1>2. PICK next :
        /\ req' = [req EXCEPT ![r] = next]
        /\ next.entries = req[r].entries /\ next.fresh = req[r].fresh
        /\ next.step = "write" /\ next.newBuyer = req[r].newBuyer
        /\ \A f \in DOMAIN req[r].patch \ {"notifiedAt"} :
              f \in DOMAIN next.patch /\ next.patch[f] = req[r].patch[f]
        /\ DOMAIN next.patch \subseteq DOMAIN req[r].patch \cup {"notifiedAt"}
  BY NotifyFacts
<1>3. /\ "buyer" \in DOMAIN next.patch <=> "buyer" \in DOMAIN req[r].patch
      /\ "buyer" \in DOMAIN next.patch => next.patch.buyer = req[r].patch.buyer
  BY <1>2
<1>4. /\ Counts(req[r], Contacted) /\ req[r].step = "notify"
      /\ ~overwritten /\ req[r].fresh => CountsOnce(req[r], Contacted)
  BY <1>1 DEF CountInv, Notify
<1>5. /\ Counts(next, Contacted)
      /\ ~overwritten /\ next.fresh => CountsOnce(next, Contacted)
  BY <1>2, <1>3, <1>4 DEF Counts, CountsOnce
<1>6. UNCHANGED <<mission, events, overwritten>>
  BY DEF Notify
<1> QED
  BY <1>2, <1>5, <1>6, CountLocal

LEMMA CountCommit ==
    ASSUME Inv, CountInv, NEW r \in Request, Commit(r)
    PROVE  CountInv'
<1> DEFINE p == req[r].patch
           row == Patched(mission, p)
           n == req[r].newBuyer
<1>1. IsWork(req[r]) /\ mission \in MissionRow /\ IsPatch(p) /\ mission # Null
  BY WorkFacts, NullAssumption DEF Commit, IsWork
<1>2. row \in MissionRow /\ row.buyers = mission.buyers
      /\ row.buyer = IF "buyer" \in DOMAIN p THEN p.buyer ELSE mission.buyer
  BY <1>1, PatchedIsRow, ColumnsOf
<1>3. mission' = [row EXCEPT !.buyers = @ + IF n THEN 1 ELSE 0]
  BY DEF Commit
<1>4. /\ mission'.buyers = mission.buyers + IF n THEN 1 ELSE 0
      /\ mission'.buyer = row.buyer
  <2> HIDE DEF row, n
  <2> QED
    BY <1>2, <1>3 DEF MissionRow
<1>5. Contacted' = Contacted \cup ({e.buyer : e \in req[r].entries} \ {Null})
  BY DEF Commit, Contacted
<1>6. /\ IsFiniteSet(Contacted) /\ Cardinality(Contacted) <= mission.buyers
      /\ ~overwritten => mission.buyers = Cardinality(Contacted)
      /\ mission.buyer \in Contacted \cup {Null}
      /\ Counts(req[r], Contacted) /\ req[r].step = "write"
      /\ ~overwritten /\ req[r].fresh => CountsOnce(req[r], Contacted)
  BY <1>1 DEF CountInv, Commit
<1>7. mission'.buyer \in Contacted' \cup {Null}
  BY <1>2, <1>4, <1>5, <1>6 DEF Counts
<1>8. /\ IsFiniteSet(Contacted') /\ Cardinality(Contacted') <= mission'.buyers
      /\ ~overwritten /\ req[r].fresh => mission'.buyers = Cardinality(Contacted')
  <2>1. Cardinality(Contacted) \in Nat /\ mission.buyers \in Nat
    BY <1>1, <1>6, FS_CardinalityType DEF MissionRow
  <2>2. CASE n = TRUE
    <3>1. PICK e \in Event : req[r].entries = {e} /\ e.buyer # Null
      BY <1>6, <2>2 DEF Counts
    <3>2. Contacted' = Contacted \cup {e.buyer}
      BY <1>5, <3>1
    <3>3. /\ IsFiniteSet(Contacted')
          /\ Cardinality(Contacted') = IF e.buyer \in Contacted THEN Cardinality(Contacted)
                                                                ELSE Cardinality(Contacted) + 1
      BY <1>6, <3>2, FS_AddElement
    <3>4. ~overwritten /\ req[r].fresh => e.buyer \notin Contacted
      BY <1>6, <2>2, <3>1 DEF CountsOnce
    <3>5. mission'.buyers = mission.buyers + 1
      BY <1>4, <2>2
    <3> QED
      BY <1>6, <2>1, <3>3, <3>4, <3>5
  <2>3. CASE n = FALSE
    <3>1. Contacted' = Contacted
      BY <1>5, <1>6, <2>3 DEF Counts
    <3>2. mission'.buyers = mission.buyers
      BY <1>4, <2>1, <2>3
    <3> QED
      BY <1>6, <3>1, <3>2
  <2> QED
    BY <1>6, <2>2, <2>3 DEF Counts
<1>9. Wrote(r, Idle)
  BY DEF Commit
<1> QED
  BY <1>1, <1>5, <1>7, <1>8, <1>9, IdleFacts, CountWrite

LEMMA CountInvHolds ==
    ASSUME Inv, CountInv, [Next]_vars
    PROVE  CountInv'
<1>1. ASSUME NEW r \in Request, Handle(r) PROVE CountInv'
  BY <1>1, CountCreate, CountActivate, CountFind, CountExpire, CountCount, CountNotify,
     CountCommit DEF Handle
<1>2. CASE Crash
  BY <1>2, IdleFacts DEF Crash, CountInv, Contacted
<1>3. CASE HourPasses \/ MonthPasses \/ UNCHANGED vars
  <2>1. UNCHANGED <<mission, events, req, overwritten>>
    BY <1>3 DEF HourPasses, MonthPasses, vars
  <2>2. Contacted' = Contacted
    BY <2>1 DEF Contacted
  <2> QED
    BY <2>1, <2>2 DEF CountInv
<1> QED
  BY <1>1, <1>2, <1>3 DEF Next

(* What is still to be counted: at most one buyer for each message received. *)

Owes(q) ==
    \/ q.step = "expire" /\ q.op.kind = "MESSAGE"
    \/ q.step = "count"
    \/ q.step \in {"notify", "write"} /\ q.newBuyer = TRUE

Owing == {r \in Request : Owes(req[r])}

OwingInv ==
    /\ IsFiniteSet(Owing)
    /\ mission # Null => mission.buyers + Cardinality(Owing) <= received

LEMMA IdleOwesNothing == ~Owes(Idle)
BY DEF Idle, Owes

\* A request that becomes stale owes what it owed.
LEMMA StaleOwes ==
    ASSUME NEW q, IsRequest(q)
    PROVE  Owes(Stale(q)) <=> Owes(q)
<1>1. Stale(q).step = q.step
  BY StaleFacts
<1>2. q.step = "expire" => Stale(q).op = q.op
  BY DEF IsRequest, IsWork, Stale
<1>3. q.step \in {"notify", "write"} => Stale(q).newBuyer = q.newBuyer
  BY DEF IsRequest, IsWork, Stale
<1> QED
  BY <1>1, <1>2, <1>3 DEF Owes

\* Only the request r moves: the others owe what they owed.
LEMMA OthersOwe ==
    ASSUME Inv, NEW r \in Request, NEW next,
           req' = [req EXCEPT ![r] = next] \/ Wrote(r, next)
    PROVE  Owing' = (Owing \ {r}) \cup {x \in {r} : Owes(next)}
<1>1. CASE req' = [req EXCEPT ![r] = next]
  <2>1. \A q \in Request : req'[q] = IF q = r THEN next ELSE req[q]
    BY <1>1 DEF Inv, TypeInv
  <2> QED
    BY <2>1 DEF Owing
<1>2. CASE Wrote(r, next)
  <2>1. \A q \in Request : req'[q] = IF q = r THEN next ELSE Stale(req[q])
    BY <1>2 DEF Wrote, Stale
  <2>2. \A q \in Request : Owes(Stale(req[q])) <=> Owes(req[q])
    BY StaleOwes DEF Inv, TypeInv
  <2>3. \A q \in Request : q # r => (Owes(req'[q]) <=> Owes(req[q]))
    BY <2>1, <2>2
  <2>4. Owes(req'[r]) <=> Owes(next)
    BY <2>1
  <2> QED
    BY <2>3, <2>4 DEF Owing
<1> QED
  BY <1>1, <1>2

\* A step that makes no request owe more, and counts nobody.
LEMMA NobodyOwesMore ==
    ASSUME Inv, Inv', OwingInv, mission # Null, Owing' \subseteq Owing,
           mission'.buyers = mission.buyers, received' = received
    PROVE  OwingInv'
<1>1. /\ IsFiniteSet(Owing') /\ Cardinality(Owing') <= Cardinality(Owing)
      /\ Cardinality(Owing') \in Nat /\ Cardinality(Owing) \in Nat
  BY FS_Subset, FS_CardinalityType DEF OwingInv
<1>2. mission.buyers \in Nat /\ received \in Nat
  BY DEF Inv, TypeInv, MissionRow
<1> QED
  BY <1>1, <1>2 DEF OwingInv

\* What a request owes once it has its row: a buyer if it carries a message.
LEMMA BegunOwes ==
    ASSUME NEW op, NEW row, NEW next \in Begun(op, row)
    PROVE  Owes(next) => op.kind = "MESSAGE"
<1>1. CASE next = Idle
  BY <1>1 DEF Idle, Owes
<1>2. CASE next # Idle
  <2>1. PICK plan \in Plans(op, row) :
          next = [step |-> IF op.kind = "MESSAGE" THEN "count"
                           ELSE IF plan.notify # Null THEN "notify" ELSE "write",
                  patch |-> plan.patch, entries |-> plan.entries, notify |-> plan.notify,
                  lastSeen |-> IF plan.notify \in Regulated THEN row.notifiedAt ELSE Null,
                  newBuyer |-> FALSE, fresh |-> TRUE]
    BY <1>2 DEF Begun
  <2> QED
    BY <2>1 DEF Owes
<1> QED
  BY <1>1, <1>2

LEMMA OwingCreate ==
    ASSUME Inv, Inv', NEW r \in Request, NEW m \in Mandate, CreateMission(r, m)
    PROVE  OwingInv'
<1> DEFINE next == [step |-> "activate", fresh |-> TRUE]
<1>1. req' = [req EXCEPT ![r] = next]
  BY DEF CreateMission
<1>2. ~Owes(next)
  BY DEF Owes
<1>3. Owing = {}
  BY DEF CreateMission, Inv, TypeInv, Owing, Owes
<1>4. Owing' = {}
  <2> HIDE DEF next
  <2> QED
    BY <1>1, <1>2, <1>3, OthersOwe
<1>5. mission'.buyers = 0 /\ received' \in Nat
  BY DEF CreateMission, Inv, TypeInv
<1> QED
  BY <1>4, <1>5, FS_EmptySet DEF OwingInv

LEMMA OwingActivate ==
    ASSUME Inv, Inv', OwingInv, NEW r \in Request, Activate(r)
    PROVE  OwingInv'
<1>1. mission \in MissionRow /\ mission # Null
  BY BusyFacts, NullAssumption DEF Activate
<1>2. mission'.buyers = mission.buyers
  <2>1. IsPatch([status |-> "EN_VENTE"])
    BY DEF IsPatch, Status
  <2> QED
    BY <1>1, <2>1, PatchedIsRow DEF Activate
<1>3. Owing' \subseteq Owing
  BY IdleOwesNothing, OthersOwe DEF Activate
<1> QED
  BY <1>1, <1>2, <1>3, NobodyOwesMore DEF Activate

LEMMA OwingFind ==
    ASSUME Inv, Inv', OwingInv, NEW r \in Request, NEW op \in Operation, FindOwned(r, op)
    PROVE  OwingInv'
<1> DEFINE late == [step |-> "expire", op |-> OnceExpired(op), fresh |-> TRUE]
<1>1. PICK next : /\ req' = [req EXCEPT ![r] = next]
                  /\ next = late \/ next \in Begun(op, mission)
  BY DEF FindOwned
<1>2. Owes(next) => op.kind = "MESSAGE"
  <2>1. Owes(late) => op.kind = "MESSAGE"
    BY DEF Owes, OnceExpired
  <2> HIDE DEF late
  <2> QED
    BY <1>1, <2>1, BegunOwes
<1> HIDE DEF late
<1>3. Owing' \subseteq Owing \cup {x \in {r} : op.kind = "MESSAGE"}
  BY <1>1, <1>2, OthersOwe
<1>4. /\ mission # Null /\ mission' = mission
      /\ received' = IF op.kind = "MESSAGE" THEN received + 1 ELSE received
  BY DEF FindOwned
<1>5. CASE op.kind = "MESSAGE"
  <2>0. IsFiniteSet(Owing) /\ Cardinality(Owing) \in Nat
    BY FS_CardinalityType DEF OwingInv
  <2>1. /\ IsFiniteSet(Owing \cup {r})
        /\ Cardinality(Owing \cup {r}) = IF r \in Owing THEN Cardinality(Owing)
                                                        ELSE Cardinality(Owing) + 1
    BY <2>0, FS_AddElement
  <2>2. /\ IsFiniteSet(Owing') /\ Cardinality(Owing') <= Cardinality(Owing \cup {r})
        /\ Cardinality(Owing') \in Nat /\ Cardinality(Owing \cup {r}) \in Nat
        /\ Cardinality(Owing) \in Nat
    BY <1>3, <2>1, FS_Subset, FS_CardinalityType DEF OwingInv
  <2>3. mission.buyers \in Nat /\ received \in Nat
    BY <1>4 DEF Inv, TypeInv, MissionRow
  <2> QED
    BY <1>4, <1>5, <2>0, <2>1, <2>2, <2>3 DEF OwingInv
<1>6. CASE op.kind # "MESSAGE"
  BY <1>3, <1>4, <1>6, NobodyOwesMore
<1> QED
  BY <1>5, <1>6

LEMMA OwingExpire ==
    ASSUME Inv, Inv', OwingInv, NEW r \in Request, Expire(r)
    PROVE  OwingInv'
<1>1. mission \in MissionRow /\ mission # Null
  BY BusyFacts, NullAssumption DEF Expire
<1>2. mission'.buyers = mission.buyers
  BY <1>1, PatchedIsRow, StatusPatch DEF Expire, Status, SoldStatus
<1>3. PICK next \in Begun(req[r].op, mission') : Wrote(r, next)
  BY DEF Expire
<1>4. Owes(next) => r \in Owing
  BY <1>3, BegunOwes DEF Owing, Owes, Expire
<1>5. Owing' \subseteq Owing
  BY <1>3, <1>4, OthersOwe
<1> QED
  BY <1>1, <1>2, <1>5, NobodyOwesMore DEF Expire

LEMMA OwingCount ==
    ASSUME Inv, Inv', OwingInv, NEW r \in Request, CountBuyer(r)
    PROVE  OwingInv'
<1>1. PICK next : req' = [req EXCEPT ![r] = next]
  BY DEF CountBuyer
<1>2. r \in Owing
  BY DEF Owing, Owes, CountBuyer
<1>3. Owing' \subseteq Owing
  BY <1>1, <1>2, OthersOwe
<1>4. mission # Null
  BY WorkFacts, NullAssumption DEF CountBuyer
<1> QED
  BY <1>3, <1>4, NobodyOwesMore DEF CountBuyer

LEMMA OwingNotify ==
    ASSUME Inv, Inv', OwingInv, NEW r \in Request, Notify(r)
    PROVE  OwingInv'
<1>1. PICK next : /\ req' = [req EXCEPT ![r] = next]
                  /\ next.step = "write" /\ next.newBuyer = req[r].newBuyer
  BY NotifyFacts
<1>2. Owes(next) => r \in Owing
  BY <1>1 DEF Owing, Owes, Notify
<1>3. Owing' \subseteq Owing
  BY <1>1, <1>2, OthersOwe
<1>4. mission # Null
  BY WorkFacts, NullAssumption DEF Notify
<1> QED
  BY <1>3, <1>4, NobodyOwesMore DEF Notify

LEMMA OwingCommit ==
    ASSUME Inv, Inv', CountInv, OwingInv, NEW r \in Request, Commit(r)
    PROVE  OwingInv'
<1> DEFINE n == req[r].newBuyer
           row == Patched(mission, req[r].patch)
<1>1. IsWork(req[r]) /\ mission \in MissionRow /\ IsPatch(req[r].patch) /\ mission # Null
  BY WorkFacts, NullAssumption DEF Commit, IsWork
<1>2. n \in BOOLEAN
  BY <1>1 DEF CountInv, Counts
<1>3. mission'.buyers = mission.buyers + IF n THEN 1 ELSE 0
  <2>1. row \in MissionRow /\ row.buyers = mission.buyers
    BY <1>1, PatchedIsRow
  <2>2. mission' = [row EXCEPT !.buyers = @ + IF n THEN 1 ELSE 0]
    BY DEF Commit
  <2> HIDE DEF row, n
  <2> QED
    BY <2>1, <2>2 DEF MissionRow
<1>4. Owing' = Owing \ {r}
  BY IdleOwesNothing, OthersOwe DEF Commit
<1>5. mission.buyers \in Nat /\ received \in Nat /\ received' = received
  BY <1>1 DEF Inv, TypeInv, MissionRow, Commit
<1>6. CASE n = TRUE
  <2>1. r \in Owing
    BY <1>6 DEF Owing, Owes, Commit
  <2>2. IsFiniteSet(Owing') /\ Cardinality(Owing') = Cardinality(Owing) - 1
    BY <1>4, <2>1, FS_RemoveElement DEF OwingInv
  <2>3. Cardinality(Owing) \in Nat /\ Cardinality(Owing') \in Nat
    BY <2>2, FS_CardinalityType DEF OwingInv
  <2>4. mission'.buyers = mission.buyers + 1
    BY <1>3, <1>6
  <2> QED
    BY <1>1, <1>5, <2>2, <2>3, <2>4 DEF OwingInv
<1>7. CASE n = FALSE
  <2>1. mission'.buyers = mission.buyers
    BY <1>3, <1>5, <1>7
  <2> QED
    BY <1>1, <1>4, <1>5, <2>1, NobodyOwesMore
<1> QED
  BY <1>2, <1>6, <1>7

LEMMA OwingInvHolds ==
    ASSUME Inv, Inv', CountInv, OwingInv, [Next]_vars
    PROVE  OwingInv'
<1>1. ASSUME NEW r \in Request, Handle(r) PROVE OwingInv'
  BY <1>1, OwingCreate, OwingActivate, OwingFind, OwingExpire, OwingCount, OwingNotify,
     OwingCommit DEF Handle
<1>2. CASE Crash
  <2>1. Owing' = {}
    BY <1>2 DEF Crash, Owing, Owes, Idle
  <2>2. \E r \in Request : req[r] # Idle
    BY <1>2 DEF Crash
  <2>3. UNCHANGED <<mission, received>>
    BY <1>2 DEF Crash
  <2>4. CASE mission = Null
    BY <2>1, <2>3, <2>4, FS_EmptySet DEF OwingInv
  <2>5. CASE mission # Null
    BY <2>1, <2>3, <2>5, NobodyOwesMore
  <2> QED
    BY <2>4, <2>5
<1>3. CASE HourPasses \/ MonthPasses \/ UNCHANGED vars
  <2>1. UNCHANGED <<mission, received, req>>
    BY <1>3 DEF HourPasses, MonthPasses, vars
  <2>2. Owing' = Owing
    BY <2>1 DEF Owing
  <2> QED
    BY <2>1, <2>2 DEF OwingInv
<1> QED
  BY <1>1, <1>2, <1>3 DEF Next

\* In every interleaving no buyer of the timeline is left out of the count, and
\* no message is counted twice.  As long as no update overwrites another, each
\* buyer was counted, and once.
THEOREM EachBuyerIsCounted == Spec => []BuyersAreCounted
<1>1. Init => CountInv /\ OwingInv
  <2> SUFFICES ASSUME Init PROVE CountInv /\ OwingInv
    OBVIOUS
  <2>1. Owing = {}
    BY DEF Init, Owing, Owes, Idle
  <2> QED
    BY <2>1, FS_EmptySet DEF Init, CountInv, OwingInv
<1>2. Inv /\ Inv' /\ CountInv /\ OwingInv /\ [Next]_vars => CountInv' /\ OwingInv'
  BY CountInvHolds, OwingInvHolds
<1>3. Inv /\ CountInv /\ OwingInv => BuyersAreCounted
  <2> SUFFICES ASSUME Inv, CountInv, OwingInv, mission # Null
               PROVE  BuyersAreCounted
    BY DEF BuyersAreCounted
  <2>1. Cardinality(Owing) \in Nat /\ mission.buyers \in Nat /\ received \in Nat
    BY FS_CardinalityType DEF OwingInv, Inv, TypeInv, MissionRow
  <2>2. mission.buyers <= received
    BY <2>1 DEF OwingInv
  <2> QED
    BY <2>2 DEF CountInv, BuyersAreCounted
<1> QED
  BY <1>1, <1>2, <1>3, InvIsInvariant, PTL DEF Spec

-----------------------------------------------------------------------------
(* The regulated notifications.                                             *)

\* A request that has notified and has still to write it down.
Notified(r) == IsWork(req[r]) /\ "notifiedAt" \in DOMAIN req[r].patch

\* No hour has two notifications among `sent`, no hour after k has one.
QuietSince(sent, k) ==
    \A h \in 0 .. MaxHour : /\ sent[h] <= 1
                            /\ k = Null \/ h > k => sent[h] = 0

\* Before it notifies, a request knows what the row says of the last one.
LastSeenIsRead ==
    \A r \in Request : req[r].step \in {"count", "notify"} =>
        /\ "notifiedAt" \notin DOMAIN req[r].patch
        /\ req[r].fresh /\ req[r].notify \in Regulated => req[r].lastSeen = mission.notifiedAt

\* Two requests that notify in an hour cannot both write without one of them
\* writing over the other: one of them is stale already, or will be.
AlertInv ==
    /\ LastSeenIsRead
    /\ ~overwritten /\ crashes = 0 =>
          \/ \E r \in Request : req[r].step # "idle" /\ ~req[r].fresh
          \/ \E r, q \in Request : r # q /\ Notified(r) /\ Notified(q)
          \/ \E r \in Request : Notified(r) /\ QuietSince(alerts, req[r].patch.notifiedAt)
          \/ /\ \A r \in Request : ~Notified(r)
             /\ QuietSince(alerts, IF mission = Null THEN Null ELSE mission.notifiedAt)

LEMMA StampOf ==
    ASSUME NEW row \in MissionRow, NEW p
    PROVE  Patched(row, p).notifiedAt = IF "notifiedAt" \in DOMAIN p THEN p.notifiedAt
                                                                     ELSE row.notifiedAt
<1>1. DOMAIN row = Fields
  BY DEF MissionRow, Fields
<1> QED
  BY <1>1 DEF Patched, Fields

LEMMA BegunAlerts ==
    ASSUME NEW op \in Operation, NEW row, NEW next \in Begun(op, row)
    PROVE  \/ next = Idle
           \/ /\ next.fresh = TRUE /\ "notifiedAt" \notin DOMAIN next.patch
              /\ next.notify \in Regulated => next.lastSeen = row.notifiedAt
<1> SUFFICES ASSUME next # Idle
             PROVE  /\ next.fresh = TRUE /\ "notifiedAt" \notin DOMAIN next.patch
                    /\ next.notify \in Regulated => next.lastSeen = row.notifiedAt
  OBVIOUS
<1>1. PICK plan \in Plans(op, row) :
        next = [step |-> IF op.kind = "MESSAGE" THEN "count"
                         ELSE IF plan.notify # Null THEN "notify" ELSE "write",
                patch |-> plan.patch, entries |-> plan.entries, notify |-> plan.notify,
                lastSeen |-> IF plan.notify \in Regulated THEN row.notifiedAt ELSE Null,
                newBuyer |-> FALSE, fresh |-> TRUE]
  BY DEF Begun
<1>2. "notifiedAt" \notin DOMAIN plan.patch
  BY PlansAreAbout DEF IsAbout
<1> QED
  BY <1>1, <1>2

\* A request r writes what it has notified and goes on as `next`: whoever has
\* notified too is stale from now on.
LEMMA AlertWrite ==
    ASSUME Inv, AlertInv, NEW r \in Request, NEW next, Wrote(r, next), req[r].step # "idle",
           mission # Null, mission' # Null, UNCHANGED <<alerts, crashes>>,
           mission'.notifiedAt = IF Notified(r) THEN req[r].patch.notifiedAt
                                               ELSE mission.notifiedAt,
           IsWork(next) => /\ "notifiedAt" \notin DOMAIN next.patch
                           /\ next.notify \in Regulated => next.lastSeen = mission'.notifiedAt,
           IsRequest(next)
    PROVE  AlertInv'
<1>1. \A q \in Request : req'[q] = IF q = r THEN next ELSE Stale(req[q])
  BY DEF Wrote, Stale
<1>2. ASSUME NEW q \in Request, q # r
      PROVE  /\ req'[q].fresh = FALSE /\ req'[q].step = req[q].step
             /\ IsWork(req'[q]) => IsWork(req[q]) /\ req'[q].patch = req[q].patch
  <2>1. IsRequest(req[q]) /\ req'[q] = Stale(req[q])
    BY <1>1, <1>2 DEF Inv, TypeInv
  <2>2. /\ Stale(req[q]).fresh = FALSE /\ Stale(req[q]).step = req[q].step
        /\ IsWork(Stale(req[q])) => IsWork(req[q]) /\ Stale(req[q]).patch = req[q].patch
    BY <2>1, StaleFacts
  <2> QED
    BY <2>1, <2>2
<1>3. LastSeenIsRead'
  <2> SUFFICES ASSUME NEW q \in Request, req'[q].step \in {"count", "notify"}
               PROVE  /\ "notifiedAt" \notin DOMAIN req'[q].patch
                      /\ req'[q].fresh /\ req'[q].notify \in Regulated
                            => req'[q].lastSeen = mission'.notifiedAt
    BY DEF LastSeenIsRead
  <2>1. CASE q = r
    BY <1>1, <2>1 DEF IsRequest
  <2>2. CASE q # r
    <3>1. req[q].step \in {"count", "notify"} /\ IsRequest(req'[q]) /\ req'[q].fresh = FALSE
      <4>1. IsRequest(req[q])
        BY DEF Inv, TypeInv
      <4> QED
        BY <1>1, <1>2, <2>2, <4>1, StaleFacts
    <3>2. req'[q].patch = req[q].patch
      BY <1>2, <2>2, <3>1 DEF IsRequest
    <3> QED
      BY <3>1, <3>2 DEF AlertInv, LastSeenIsRead
  <2> QED
    BY <2>1, <2>2
<1> SUFFICES ASSUME ~overwritten', crashes' = 0
             PROVE  \/ \E q \in Request : req'[q].step # "idle" /\ ~req'[q].fresh
                    \/ /\ \A q \in Request : ~Notified(q)'
                       /\ QuietSince(alerts', mission'.notifiedAt)
  BY <1>3 DEF AlertInv
<1>4. ~overwritten /\ req[r].fresh /\ crashes = 0
  BY DEF Wrote
<1>5. \A q \in Request : Notified(q) => req[q].step # "idle"
  BY DEF Notified, IsWork
<1>6. CASE \E q \in Request \ {r} : Notified(q) \/ (req[q].step # "idle" /\ ~req[q].fresh)
  BY <1>2, <1>5, <1>6
<1>7. CASE \A q \in Request \ {r} : ~Notified(q) /\ (req[q].step = "idle" \/ req[q].fresh)
  <2>0. ASSUME NEW q \in Request, q # r
        PROVE  ~Notified(q) /\ (req[q].step = "idle" \/ req[q].fresh)
    BY <1>7, <2>0
  <2>1. \A q \in Request : ~Notified(q)'
    <3>1. ~Notified(r)'
      BY <1>1 DEF Notified
    <3>2. ASSUME NEW q \in Request, q # r
          PROVE  ~Notified(q)'
      <4>1. ~Notified(q)
        BY <2>0, <3>2
      <4>2. IsWork(req'[q]) => IsWork(req[q]) /\ req'[q].patch = req[q].patch
        BY <1>2, <3>2
      <4> QED
        BY <4>1, <4>2 DEF Notified
    <3> QED
      BY <3>1, <3>2
  <2>2. \/ Notified(r) /\ QuietSince(alerts, req[r].patch.notifiedAt)
        \/ ~Notified(r) /\ QuietSince(alerts, mission.notifiedAt)
    <3>1. ~\E q \in Request : req[q].step # "idle" /\ ~req[q].fresh
      BY <1>4, <2>0
    <3>2. ~\E q, o \in Request : q # o /\ Notified(q) /\ Notified(o)
      BY <2>0
    <3>3. \/ \E q \in Request : Notified(q) /\ QuietSince(alerts, req[q].patch.notifiedAt)
          \/ (\A q \in Request : ~Notified(q)) /\ QuietSince(alerts, mission.notifiedAt)
      BY <1>4, <3>1, <3>2 DEF AlertInv
    <3> QED
      BY <2>0, <3>3
  <2>3. QuietSince(alerts, mission'.notifiedAt)
    BY <2>2
  <2> QED
    BY <2>1, <2>3
<1> QED
  BY <1>6, <1>7

\* A request r that has not notified goes on as `next` without doing so.
LEMMA AlertLocal ==
    ASSUME Inv, AlertInv, NEW r \in Request, NEW next, req' = [req EXCEPT ![r] = next],
           UNCHANGED <<mission, alerts, overwritten, crashes>>,
           ~Notified(r), IsWork(next) => "notifiedAt" \notin DOMAIN next.patch,
           req[r].step # "idle" /\ ~req[r].fresh => next.step # "idle" /\ ~next.fresh,
           next.step \in {"count", "notify"} =>
              /\ IsWork(next)
              /\ next.fresh /\ next.notify \in Regulated => next.lastSeen = mission.notifiedAt
    PROVE  AlertInv'
<1>1. \A q \in Request : req'[q] = IF q = r THEN next ELSE req[q]
  BY DEF Inv, TypeInv
<1>2. LastSeenIsRead'
  BY <1>1 DEF AlertInv, LastSeenIsRead
<1>3. \A q \in Request : Notified(q)' <=> Notified(q)
  BY <1>1 DEF Notified
<1> SUFFICES ASSUME ~overwritten, crashes = 0
             PROVE  \/ \E q \in Request : req'[q].step # "idle" /\ ~req'[q].fresh
                    \/ \E q, p \in Request : q # p /\ Notified(q)' /\ Notified(p)'
                    \/ \E q \in Request : Notified(q)' /\ QuietSince(alerts', req'[q].patch.notifiedAt)
                    \/ /\ \A q \in Request : ~Notified(q)'
                       /\ QuietSince(alerts', IF mission' = Null THEN Null ELSE mission'.notifiedAt)
  BY <1>2 DEF AlertInv
<1>5. CASE \E q \in Request : req[q].step # "idle" /\ ~req[q].fresh
  BY <1>1, <1>5
<1>6. CASE \E q, p \in Request : q # p /\ Notified(q) /\ Notified(p)
  BY <1>3, <1>6
<1>7. CASE \E q \in Request : Notified(q) /\ QuietSince(alerts, req[q].patch.notifiedAt)
  <2>1. PICK q \in Request : Notified(q) /\ QuietSince(alerts, req[q].patch.notifiedAt)
    BY <1>7
  <2>2. Notified(q)' /\ req'[q] = req[q]
    BY <1>1, <1>3, <2>1
  <2> QED
    BY <2>1, <2>2
<1>8. CASE /\ \A q \in Request : ~Notified(q)
           /\ QuietSince(alerts, IF mission = Null THEN Null ELSE mission.notifiedAt)
  BY <1>3, <1>8
<1> QED
  BY <1>5, <1>6, <1>7, <1>8 DEF AlertInv

LEMMA AlertCreate ==
    ASSUME Inv, AlertInv, NEW r \in Request, NEW m \in Mandate, CreateMission(r, m)
    PROVE  AlertInv'
<1>1. mission = Null /\ \A q \in Request : req[q].step = "idle"
  BY DEF CreateMission, Inv, TypeInv
<1>2. \A q \in Request : req'[q] = IF q = r THEN [step |-> "activate", fresh |-> TRUE] ELSE req[q]
  BY DEF CreateMission, Inv, TypeInv
<1>3. \A q \in Request : ~Notified(q) /\ ~Notified(q)'
  BY <1>1, <1>2 DEF Notified, IsWork
<1>4. LastSeenIsRead'
  BY <1>1, <1>2 DEF LastSeenIsRead
<1>5. ~overwritten /\ crashes = 0 => QuietSince(alerts, Null)
  BY <1>1, <1>3 DEF AlertInv
<1>6. mission' # Null => mission'.notifiedAt = Null
  BY DEF CreateMission
<1>7. UNCHANGED <<alerts, overwritten, crashes>>
  BY DEF CreateMission
<1>8. ~overwritten' /\ crashes' = 0 => QuietSince(alerts', Null)
  BY <1>5, <1>7
<1> QED
  BY <1>3, <1>4, <1>6, <1>8 DEF AlertInv

LEMMA AlertActivate ==
    ASSUME Inv, AlertInv, NEW r \in Request, Activate(r)
    PROVE  AlertInv'
<1>1. mission \in MissionRow /\ mission # Null
  BY BusyFacts, NullAssumption DEF Activate
<1>2. mission' = Patched(mission, [status |-> "EN_VENTE"])
  BY DEF Activate
<1>3. mission' # Null /\ mission'.notifiedAt = mission.notifiedAt
  BY <1>1, <1>2, StampOf, StatusPatch, PatchedIsRow, NullAssumption DEF Status, SoldStatus
<1>4. ~Notified(r) /\ req[r].step # "idle"
  BY DEF Activate, Notified, IsWork
<1> QED
  BY <1>1, <1>3, <1>4, IdleFacts, AlertWrite DEF Activate

LEMMA AlertFind ==
    ASSUME Inv, AlertInv, NEW r \in Request, NEW op \in Operation, FindOwned(r, op)
    PROVE  AlertInv'
<1>1. mission \in MissionRow /\ mission # Null
  BY NullAssumption DEF FindOwned, Inv, TypeInv
<1>2. req[r].step = "idle" /\ ~Notified(r)
  BY IdleFacts DEF FindOwned, Notified
<1>3. UNCHANGED <<mission, alerts, overwritten, crashes>>
  BY DEF FindOwned
<1>4. CASE ExpiryDue(mission)
  <2> DEFINE next == [step |-> "expire", op |-> OnceExpired(op), fresh |-> TRUE]
  <2>1. req' = [req EXCEPT ![r] = next]
    BY <1>4 DEF FindOwned
  <2>2. ~IsWork(next) /\ next.step = "expire"
    BY DEF IsWork
  <2> HIDE DEF next
  <2> QED
    BY <1>2, <1>3, <2>1, <2>2, AlertLocal
<1>5. CASE ~ExpiryDue(mission)
  <2>1. PICK next \in Begun(op, mission) : req' = [req EXCEPT ![r] = next]
    BY <1>5 DEF FindOwned
  <2>2. \/ next = Idle
        \/ /\ IsWork(next) /\ "notifiedAt" \notin DOMAIN next.patch
           /\ next.notify \in Regulated => next.lastSeen = mission.notifiedAt
    <3>1. next = Idle \/ IsWork(next)
      BY <1>1, BegunFacts DEF Inv, HonestInv
    <3> QED
      BY <3>1, BegunAlerts
  <2> QED
    BY <1>2, <1>3, <2>1, <2>2, IdleFacts, AlertLocal
<1> QED
  BY <1>4, <1>5

LEMMA AlertExpire ==
    ASSUME Inv, AlertInv, NEW r \in Request, Expire(r)
    PROVE  AlertInv'
<1>1. mission \in MissionRow /\ mission # Null
  BY BusyFacts, NullAssumption DEF Expire
<1>2. mission' = Patched(mission, [status |-> "EXPIREE"])
  BY DEF Expire
<1>3. mission' \in MissionRow /\ mission' # Null /\ mission'.notifiedAt = mission.notifiedAt
  BY <1>1, <1>2, StampOf, StatusPatch, PatchedIsRow, NullAssumption DEF Status, SoldStatus
<1>4. ~Notified(r) /\ req[r].step # "idle" /\ req[r].op \in Operation
  BY DEF Expire, Notified, Inv, TypeInv, IsRequest, IsWork
<1>5. PICK next \in Begun(req[r].op, mission') : Wrote(r, next)
  BY DEF Expire
<1>6. IsRequest(next)
  <2>1. RowIsHonest(mission', events)
    <3>1. /\ mission'.status = "EXPIREE" /\ mission'.sold = mission.sold
          /\ mission'.offer = mission.offer /\ mission'.mandate = mission.mandate
      BY <1>1, <1>2, ColumnsOf, PatchedIsRow, StatusPatch DEF Status, SoldStatus
    <3> QED
      BY <1>1, <3>1, BusyFacts DEF Expire, RowIsHonest, SoldStatus
  <2> QED
    <3>1. next = Idle \/ IsWork(next)
      BY <1>3, <1>4, <1>5, <2>1, BegunFacts
    <3> QED
      BY <3>1, IdleFacts DEF IsRequest, IsWork
<1>7. IsWork(next) => /\ "notifiedAt" \notin DOMAIN next.patch
                      /\ next.notify \in Regulated => next.lastSeen = mission'.notifiedAt
  BY <1>4, <1>5, BegunAlerts, IdleFacts
<1>8. UNCHANGED <<alerts, crashes>>
  BY DEF Expire
<1> QED
  BY <1>1, <1>3, <1>4, <1>5, <1>6, <1>7, <1>8, AlertWrite

LEMMA AlertCount ==
    ASSUME Inv, AlertInv, NEW r \in Request, CountBuyer(r)
    PROVE  AlertInv'
<1>1. IsWork(req[r])
  BY WorkFacts DEF CountBuyer
<1>2. PICK next :
        /\ req' = [req EXCEPT ![r] = next]
        /\ next = [req[r] EXCEPT !.step = IF req[r].notify # Null THEN "notify" ELSE "write",
                                 !.newBuyer = \A n \in req[r].entries, e \in events :
                                                 e.buyer # n.buyer]
  BY DEF CountBuyer
<1>3. /\ next.patch = req[r].patch /\ next.entries = req[r].entries
      /\ next.fresh = req[r].fresh /\ next.step \in {"notify", "write"}
      /\ next.notify = req[r].notify /\ next.lastSeen = req[r].lastSeen
      /\ DOMAIN next = DOMAIN req[r]
  BY <1>1, <1>2 DEF IsWork
<1>4. IsWork(next)
  BY <1>1, <1>3 DEF IsWork
<1>5. /\ "notifiedAt" \notin DOMAIN req[r].patch
      /\ req[r].fresh /\ req[r].notify \in Regulated => req[r].lastSeen = mission.notifiedAt
  BY DEF CountBuyer, AlertInv, LastSeenIsRead
<1>6. ~Notified(r)
  BY <1>5 DEF Notified
<1>7. UNCHANGED <<mission, alerts, overwritten, crashes>>
  BY DEF CountBuyer
<1> QED
  BY <1>2, <1>3, <1>4, <1>5, <1>6, <1>7, AlertLocal

LEMMA AlertNotify ==
    ASSUME Inv, AlertInv, NEW r \in Request, Notify(r)
    PROVE  AlertInv'
<1>1. IsWork(req[r]) /\ mission \in MissionRow /\ mission # Null
  BY WorkFacts, NullAssumption DEF Notify
<1>2. PICK next :
        /\ req' = [req EXCEPT ![r] = next]
        /\ next.fresh = req[r].fresh /\ next.step = "write"
        /\ IF AlertDue(req[r].notify, req[r].lastSeen)
           THEN "notifiedAt" \in DOMAIN next.patch /\ next.patch.notifiedAt = hour
           ELSE next.patch = req[r].patch
  BY NotifyFacts
<1>3. /\ "notifiedAt" \notin DOMAIN req[r].patch
      /\ req[r].fresh /\ req[r].notify \in Regulated => req[r].lastSeen = mission.notifiedAt
  BY DEF Notify, AlertInv, LastSeenIsRead
<1>4. ~Notified(r)
  BY <1>3 DEF Notified
<1>5. UNCHANGED <<mission, overwritten, crashes>>
  BY DEF Notify
<1>6. \A q \in Request : req'[q] = IF q = r THEN next ELSE req[q]
  BY <1>2 DEF Inv, TypeInv
<1>7. CASE ~AlertDue(req[r].notify, req[r].lastSeen)
  <2>1. hour \in DOMAIN alerts /\ alerts = [h \in DOMAIN alerts |-> alerts[h]]
    BY DEF Inv, TypeInv
  <2>2. alerts' = alerts
    BY <1>7, <2>1 DEF Notify
  <2> QED
    BY <1>2, <1>3, <1>4, <1>5, <1>7, <2>2, AlertLocal
<1>8. CASE AlertDue(req[r].notify, req[r].lastSeen)
  <2>1. LastSeenIsRead'
    BY <1>2, <1>5, <1>6 DEF AlertInv, LastSeenIsRead
  <2>2. Notified(r)' /\ req'[r].patch.notifiedAt = hour
    <3>1. IsRequest(next)
      BY <1>6, NotifyStep DEF Inv, TypeInv
    <3> QED
      BY <1>2, <1>6, <1>8, <3>1 DEF Notified, IsRequest
  <2>3. \A q \in Request : Notified(q) => q # r /\ Notified(q)'
    BY <1>4, <1>6 DEF Notified
  <2> SUFFICES ASSUME ~overwritten, crashes = 0
               PROVE  \/ \E q \in Request : req'[q].step # "idle" /\ ~req'[q].fresh
                      \/ \E q, p \in Request : q # p /\ Notified(q)' /\ Notified(p)'
                      \/ Notified(r)' /\ QuietSince(alerts', req'[r].patch.notifiedAt)
    BY <1>5, <2>1 DEF AlertInv
  <2>4. CASE \E q \in Request : req[q].step # "idle" /\ ~req[q].fresh
    BY <1>2, <1>6, <2>4
  <2>5. CASE \E q \in Request : Notified(q)
    BY <2>2, <2>3, <2>5
  <2>6. CASE req[r].fresh /\ QuietSince(alerts, mission.notifiedAt)
    <3>1. /\ alerts \in [0 .. MaxHour -> Nat] /\ hour \in 0 .. MaxHour /\ MaxHour \in Nat
          /\ mission.notifiedAt \in 0 .. MaxHour \cup {Null}
      BY <1>1, MissionAssumption DEF Inv, TypeInv, MissionRow
    <3>2. alerts' = [alerts EXCEPT ![hour] = @ + 1]
      BY <1>8 DEF Notify
    <3>3. mission.notifiedAt = Null \/ hour > mission.notifiedAt
      BY <1>3, <1>8, <2>6 DEF AlertDue
    <3>4. alerts[hour] = 0 /\ \A h \in 0 .. MaxHour : h > hour => alerts[h] = 0
      <4>1. ASSUME NEW h \in 0 .. MaxHour, h >= hour
            PROVE  mission.notifiedAt = Null \/ h > mission.notifiedAt
        <5>1. CASE mission.notifiedAt = Null
          BY <5>1
        <5>2. CASE mission.notifiedAt \in 0 .. MaxHour /\ hour > mission.notifiedAt
          BY <3>1, <4>1, <5>2
        <5> QED
          BY <3>1, <3>3, <5>1, <5>2
      <4> QED
        BY <2>6, <3>1, <4>1 DEF QuietSince
    <3>5. QuietSince(alerts', hour)
      <4> SUFFICES ASSUME NEW h \in 0 .. MaxHour
                   PROVE  alerts'[h] <= 1 /\ (hour = Null \/ h > hour => alerts'[h] = 0)
        BY DEF QuietSince, Notify
      <4>1. hour # Null
        BY <3>1, MissionAssumption
      <4>2. CASE h = hour
        BY <3>1, <3>2, <3>4, <4>1, <4>2
      <4>3. CASE h # hour
        BY <2>6, <3>1, <3>2, <3>4, <4>1, <4>3 DEF QuietSince
      <4> QED
        BY <4>2, <4>3
    <3> QED
      BY <2>2, <3>5
  <2> QED
    BY <1>1, <2>4, <2>5, <2>6 DEF AlertInv, Notify
<1> QED
  BY <1>7, <1>8

LEMMA AlertCommit ==
    ASSUME Inv, AlertInv, NEW r \in Request, Commit(r)
    PROVE  AlertInv'
<1> DEFINE p == req[r].patch
           row == Patched(mission, p)
<1>1. IsWork(req[r]) /\ mission \in MissionRow /\ IsPatch(p) /\ mission # Null
  BY WorkFacts, NullAssumption DEF Commit, IsWork
<1>2. /\ row \in MissionRow
      /\ row.notifiedAt = IF Notified(r) THEN p.notifiedAt ELSE mission.notifiedAt
  BY <1>1, PatchedIsRow, StampOf DEF Notified
<1>3. mission' = [row EXCEPT !.buyers = @ + IF req[r].newBuyer THEN 1 ELSE 0]
  BY DEF Commit
<1>4. mission' # Null /\ mission'.notifiedAt = row.notifiedAt
  <2> HIDE DEF row
  <2>1. mission'.notifiedAt = row.notifiedAt
    BY <1>2, <1>3 DEF MissionRow
  <2>2. mission' \in MissionRow
    BY <1>2, <1>3 DEF MissionRow
  <2> QED
    BY <2>1, <2>2, NullAssumption
<1>5. Wrote(r, Idle) /\ UNCHANGED <<alerts, crashes>> /\ req[r].step # "idle"
  BY DEF Commit
<1> QED
  BY <1>1, <1>2, <1>4, <1>5, IdleFacts, AlertWrite

LEMMA AlertInvHolds ==
    ASSUME Inv, AlertInv, [Next]_vars
    PROVE  AlertInv'
<1>1. ASSUME NEW r \in Request, Handle(r) PROVE AlertInv'
  BY <1>1, AlertCreate, AlertActivate, AlertFind, AlertExpire, AlertCount, AlertNotify,
     AlertCommit DEF Handle
<1>2. CASE Crash
  <2>1. crashes' # 0 /\ \A r \in Request : req'[r] = Idle
    BY <1>2, MissionAssumption DEF Crash, Inv, TypeInv
  <2> QED
    BY <2>1, IdleFacts DEF AlertInv, LastSeenIsRead
<1>3. CASE HourPasses \/ MonthPasses \/ UNCHANGED vars
  <2>1. UNCHANGED <<mission, req, alerts, crashes, overwritten>>
    BY <1>3 DEF HourPasses, MonthPasses, vars
  <2> QED
    BY <2>1 DEF AlertInv, LastSeenIsRead, Notified
<1> QED
  BY <1>1, <1>2, <1>3 DEF Next

\* R8, over any number of validations, requests and hours: no hour has two
\* regulated notifications, unless updates overwrite each other or a restart
\* forgets the one that was just sent.
THEOREM OneAlertAnHour == Spec => []OneAlertPerHour
<1>1. Init => AlertInv
  <2> SUFFICES ASSUME Init
               PROVE  AlertInv
    OBVIOUS
  <2>1. LastSeenIsRead
    BY IdleFacts DEF Init, LastSeenIsRead
  <2>2. \A r \in Request : ~Notified(r)
    BY IdleFacts DEF Init, Notified
  <2>3. QuietSince(alerts, Null) /\ mission = Null
    BY DEF Init, QuietSince
  <2> QED
    BY <2>1, <2>2, <2>3 DEF AlertInv
<1>2. Inv /\ AlertInv /\ [Next]_vars => AlertInv'
  BY AlertInvHolds
<1>3. AlertInv => OneAlertPerHour
  BY IdleFacts DEF AlertInv, OneAlertPerHour, Notified, IsWork, QuietSince
<1> QED
  BY <1>1, <1>2, <1>3, InvIsInvariant, PTL DEF Spec
=============================================================================
