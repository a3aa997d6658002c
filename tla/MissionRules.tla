----------------------------- MODULE MissionRules -----------------------------
(***************************************************************************)
(* The rules of a negotiation mission, which keep no state: its statuses   *)
(* and transitions, decideNegotiation (packages/core, negotiation.ts), and *)
(* what each operation of MissionNegotiationService writes over a row.     *)
(***************************************************************************)
EXTENDS Naturals, FiniteSets

CONSTANTS
    Buyer,
    Amount,       \* the amounts a buyer may offer
    Mandate,      \* the mandates a seller may confirm
    Null

Status == {"BROUILLON_MANDAT", "EN_VENTE", "NEGOCIATION_ACTIVE", "EN_ATTENTE_VALIDATION",
           "VENDU", "MISSION_TERMINEE", "SUSPENDUE", "ARRETEE", "EXPIREE"}
OfferReason == {"OFFER", "OFFER_AT_FLOOR"}
Reason == OfferReason \cup {"COMPLEX_CASE", "SECURITY_ALERT"}

MandateRow == [prixAffiche : Nat, prixMini : Nat,
               livraison : {"MAIN_PROPRE", "ENVOI", "LES_DEUX"},
               casComplexes : {"ME_DEMANDER", "REFUSER", "CONTINUER"},
               autoAdjuge : BOOLEAN]

\* isMandateValid: the floor is positive, and at most the price shown.
IsMandateValid(m) == m.prixMini > 0 /\ m.prixMini <= m.prixAffiche

-----------------------------------------------------------------------------
(* TRANSITIONS and applyMissionEvent. *)

\* RESUMABLE_STATES, which are also those that can be suspended.
Resumable == {"EN_VENTE", "NEGOCIATION_ACTIVE", "EN_ATTENTE_VALIDATION"}

\* Mutant: a mission can be stopped once the object is sold.
Stoppable_Sold == Resumable \cup {"VENDU"}

Stoppable == Resumable

Expirable == {"EN_VENTE", "NEGOCIATION_ACTIVE"}

Transitions ==
    {<<"EN_VENTE", "BUYER_MESSAGE", "NEGOCIATION_ACTIVE">>,
     <<"EN_VENTE", "VALIDATION_REQUIRED", "EN_ATTENTE_VALIDATION">>,
     <<"NEGOCIATION_ACTIVE", "VALIDATION_REQUIRED", "EN_ATTENTE_VALIDATION">>,
     <<"NEGOCIATION_ACTIVE", "SALE_CONFIRMED", "VENDU">>,
     <<"EN_ATTENTE_VALIDATION", "SALE_CONFIRMED", "VENDU">>,
     <<"EN_ATTENTE_VALIDATION", "VALIDATION_RESOLVED", "NEGOCIATION_ACTIVE">>,
     <<"VENDU", "MISSION_FINALIZED", "MISSION_TERMINEE">>}
    \cup {<<s, "SUSPENDED", "SUSPENDUE">> : s \in Resumable}
    \cup {<<s, "STOPPED", "ARRETEE">> : s \in Stoppable}
    \cup {<<s, "EXPIRED", "EXPIREE">> : s \in Expirable}

\* No element where MissionTransitionError is thrown.
After(status, event) == {to \in Status : <<status, event, to>> \in Transitions}

-----------------------------------------------------------------------------
(* decideNegotiation: the rules R1 and R3 to R6 on an incoming message. *)

Message ==
    [kind : {"QUESTION", "OFF_PLATFORM_PAYMENT", "COMPLEX_CASE"}, buyer : Buyer]
    \cup [kind : {"OFFER"}, buyer : Buyer, amount : Amount]
    \cup [kind : {"DELIVERY_REQUEST"}, buyer : Buyer, mode : {"MAIN_PROPRE", "ENVOI"}]

Reply == [type |-> "REPLY"]     \* AUTO_REPLY, DECLINE or CONTINUE_NO_COMMIT
Ask(reason) == [type |-> "REQUIRE_VALIDATION", reason |-> reason]
Accept == [type |-> "AUTO_ACCEPT"]

\* Mutant: an offer above the floor is accepted without the opt-in.
DecideOffer_NoHammer(mandate, amount) ==
    IF amount < mandate.prixMini THEN Reply
    ELSE IF mandate.autoAdjuge \/ amount > mandate.prixMini THEN Accept
    ELSE Ask("OFFER_AT_FLOOR")

DecideOffer(mandate, amount) ==
    IF amount < mandate.prixMini THEN Reply
    ELSE IF mandate.autoAdjuge THEN Accept
    ELSE Ask(IF amount = mandate.prixMini THEN "OFFER_AT_FLOOR" ELSE "OFFER")

\* A request for delivery is answered or declined: either way only a reply.
DecideNegotiation(mandate, m) ==
    CASE m.kind = "OFFER" -> DecideOffer(mandate, m.amount)
      [] m.kind = "OFF_PLATFORM_PAYMENT" -> Ask("SECURITY_ALERT")
      [] m.kind = "COMPLEX_CASE" /\ mandate.casComplexes = "ME_DEMANDER" -> Ask("COMPLEX_CASE")
      [] OTHER -> Reply

-----------------------------------------------------------------------------
(* What an operation will write, computed from the row it has read: the     *)
(* columns of its patch, its event and its notification.  No plan, and the  *)
(* request fails, where the code throws.                                    *)

\* The timeline: who was in contact, what was submitted to the seller, the sales,
\* and how it ended.
Event == [kind : {"CONTACT", "SUBMITTED", "AUTO_ACCEPT", "SALE_CONFIRMED",
                  "MISSION_FINALIZED", "EXPIRED"},
          buyer : Buyer \cup {Null}, amount : Amount \cup {Null}]
Contact(b) == [kind |-> "CONTACT", buyer |-> b, amount |-> Null]
Entry(kind, b, amount) == [kind |-> kind, buyer |-> b, amount |-> amount]
Ending(kind) == Entry(kind, Null, Null)

Plan(patch, entries, notify) ==
    [patch |-> patch, entries |-> entries, notify |-> notify]

BestOf(row, amount) == IF row.best # Null /\ row.best > amount THEN row.best ELSE amount

Suspend(row) ==
    {Plan([status |-> to, preSuspend |-> row.status], {}, Null) :
        to \in After(row.status, "SUSPENDED")}

Resume(row) ==
    {Plan([status |-> to, preSuspend |-> Null], {}, Null) :
        to \in {s \in Resumable : s = row.preSuspend /\ row.status = "SUSPENDUE"}}

Stop(row) == {Plan([status |-> to], {}, Null) : to \in After(row.status, "STOPPED")}

Finalize(row) ==
    {Plan([status |-> to], {Ending("MISSION_FINALIZED")}, Null) :
        to \in After(row.status, "MISSION_FINALIZED")}

\* ACCEPT, which is for offers only.
AcceptOffer(row) ==
    {Plan([status |-> to, sold |-> row.offer, best |-> BestOf(row, row.offer),
           reason |-> Null, offer |-> Null, buyer |-> Null],
          {Entry("SALE_CONFIRMED", row.buyer, row.offer)}, "SOLD") :
        to \in {s \in After(row.status, "SALE_CONFIRMED") :
                  /\ row.status = "EN_ATTENTE_VALIDATION"
                  /\ row.reason \in OfferReason /\ row.offer # Null}}

\* Mutant: the offer that was declined is left in the slate.
CloseValidation_KeepsOffer(row) ==
    {Plan([status |-> to, reason |-> Null, buyer |-> Null], {Contact(row.buyer)}, Null) :
        to \in After(row.status, "VALIDATION_RESOLVED")}

\* CONTINUE and DECLINE.
CloseValidation(row) ==
    {Plan([status |-> to, reason |-> Null, offer |-> Null, buyer |-> Null],
          {Contact(row.buyer)}, Null) :
        to \in After(row.status, "VALIDATION_RESOLVED")}

\* applyAction: the first message wakes the mission before anything else.
Awake(row) == IF row.status = "EN_VENTE" THEN After(row.status, "BUYER_MESSAGE") ELSE {row.status}

ApplyAction(row, m) ==
    LET action == DecideNegotiation(row.mandate, m)
        sale   == UNION {After(s, "SALE_CONFIRMED") : s \in Awake(row)}
        asked  == UNION {After(s, "VALIDATION_REQUIRED") : s \in Awake(row)}
    IN CASE action.type = "REPLY" ->
              {Plan([status |-> to], {Contact(m.buyer)}, Null) : to \in Awake(row)}
         [] action.type = "AUTO_ACCEPT" ->
              {Plan([status |-> to, sold |-> m.amount, best |-> BestOf(row, m.amount)],
                    {Entry("AUTO_ACCEPT", m.buyer, m.amount)}, "SOLD") : to \in sale}
         [] action.type = "REQUIRE_VALIDATION" /\ m.kind = "OFFER" ->
              {Plan([status |-> to, reason |-> action.reason, buyer |-> m.buyer,
                     offer |-> m.amount, best |-> BestOf(row, m.amount)],
                    {Entry("SUBMITTED", m.buyer, m.amount)}, "VALIDATION_REQUIRED") : to \in asked}
         [] action.type = "REQUIRE_VALIDATION" /\ m.kind # "OFFER" ->
              {Plan([status |-> to, reason |-> action.reason, buyer |-> m.buyer],
                    {Contact(m.buyer)},
                    IF action.reason = "SECURITY_ALERT" THEN "SECURITY_ALERT"
                    ELSE "VALIDATION_REQUIRED") : to \in asked}

Operation ==
    [kind : {"SUSPEND", "RESUME", "STOP", "FINALIZE", "READ", "ACCEPT", "CLOSE"}]
    \cup [kind : {"MESSAGE"}, message : Message]

Plans(op, row) ==
    CASE op.kind = "SUSPEND"  -> Suspend(row)
      [] op.kind = "RESUME"   -> Resume(row)
      [] op.kind = "STOP"     -> Stop(row)
      [] op.kind = "FINALIZE" -> Finalize(row)
      [] op.kind = "READ"     -> {}
      [] op.kind = "ACCEPT"   -> AcceptOffer(row)
      [] op.kind = "CLOSE"    -> CloseValidation(row)
      [] op.kind = "MESSAGE"  -> ApplyAction(row, op.message)

\* prisma.mission.update({ where: { id }, data }): the other columns stay.
Patched(row, patch) ==
    [f \in DOMAIN row |-> IF f \in DOMAIN patch THEN patch[f] ELSE row[f]]
=============================================================================
