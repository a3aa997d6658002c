------------------------------- MODULE Mission -------------------------------
(***************************************************************************)
(* The negotiation mission of one listing: MissionService and              *)
(* MissionNegotiationService of apps/api, over the rules of MissionRules.  *)
(*                                                                         *)
(* Nothing is locked: every operation reads the row, awaits, and updates   *)
(* by id the columns it has computed from what it read.  A request         *)
(* therefore holds the patch it will write, and not the row.               *)
(***************************************************************************)
EXTENDS MissionRules

CONSTANTS
    Request,      \* HTTP requests handled at the same time
    MaxMessages,  \* bound: messages of the buyers
    MaxHour,      \* bound: hours that pass
    MaxCrashes    \* bound: restarts

VARIABLES
    mission,      \* the Mission row, or Null
    events,       \* the MissionEvent rows, without what no code reads back
    req,          \* the request each handler is busy with
    received,     \* messages received so far
    hour,         \* the hour "now" falls in
    overdue,      \* MISSION_EXPIRY_MS have passed since enVenteAt
    alerts,       \* regulated notifications sent in each hour
    crashes,
    overwritten   \* history: a patch was written over a row changed since its read

vars == <<mission, events, req, received, hour, overdue, alerts, crashes, overwritten>>

ASSUME MissionAssumption ==
    /\ Amount \subseteq Nat
    /\ Mandate \subseteq MandateRow
    /\ Null \notin Nat /\ Null \notin Buyer \cup Status \cup Reason
    /\ MaxMessages \in Nat /\ MaxHour \in Nat /\ MaxCrashes \in Nat

MissionRow ==
    [status : Status, mandate : {m \in Mandate : 0 < m.prixMini /\ m.prixMini <= m.prixAffiche},
     buyers : Nat, best : Amount \cup {Null},
     reason : Reason \cup {Null}, offer : Amount \cup {Null}, buyer : Buyer \cup {Null},
     sold : Amount \cup {Null}, preSuspend : Status \cup {Null},
     notifiedAt : 0 .. MaxHour \cup {Null}]

ASSUME NullAssumption == Null \notin MissionRow

-----------------------------------------------------------------------------
(* Requests. *)

Idle == [step |-> "idle", fresh |-> FALSE]

Regulated == {"VALIDATION_REQUIRED", "SECURITY_ALERT"}

\* What a request goes on with once it has its row.
Begun(op, row) ==
    IF Plans(op, row) = {} THEN {Idle}
    ELSE {[step |-> IF op.kind = "MESSAGE" THEN "count"
                    ELSE IF plan.notify # Null THEN "notify" ELSE "write",
           patch |-> plan.patch, entries |-> plan.entries, notify |-> plan.notify,
           lastSeen |-> IF plan.notify \in Regulated THEN row.notifiedAt ELSE Null,
           newBuyer |-> FALSE, fresh |-> TRUE] : plan \in Plans(op, row)}

\* The row has changed under the other requests.
Wrote(r, next) ==
    /\ req' = [q \in Request |-> IF q = r THEN next ELSE [req[q] EXCEPT !.fresh = FALSE]]
    /\ overwritten' = (overwritten \/ ~req[r].fresh)

\* confirmMandate(): the row is created as a draft ...
CreateMission(r, m) ==
    /\ req[r] = Idle
    /\ IsMandateValid(m)
    /\ mission = Null
    /\ mission' = [status |-> "BROUILLON_MANDAT", mandate |-> m, buyers |-> 0, best |-> Null,
                   reason |-> Null, offer |-> Null, buyer |-> Null, sold |-> Null,
                   preSuspend |-> Null, notifiedAt |-> Null]
    /\ req' = [req EXCEPT ![r] = [step |-> "activate", fresh |-> TRUE]]
    /\ UNCHANGED <<events, received, hour, overdue, alerts, crashes, overwritten>>

\* ... and activated by a second update.
Activate(r) ==
    /\ req[r].step = "activate"
    /\ mission' = Patched(mission, [status |-> "EN_VENTE"])
    /\ Wrote(r, Idle)
    /\ UNCHANGED <<events, received, hour, overdue, alerts, crashes>>

\* maybeExpire looks at the row that was read.
ExpiryDue(row) == overdue /\ row.status \in Expirable

\* Once the mission has expired no operation of the seller writes anything:
\* which one it was is not kept.
OnceExpired(op) == IF op.kind = "MESSAGE" THEN op ELSE [kind |-> "READ"]

FindOwned(r, op) ==
    /\ req[r] = Idle
    /\ mission # Null
    /\ op.kind = "MESSAGE" => received < MaxMessages
    /\ received' = IF op.kind = "MESSAGE" THEN received + 1 ELSE received
    /\ \E next \in IF ExpiryDue(mission)
                   THEN {[step |-> "expire", op |-> OnceExpired(op), fresh |-> TRUE]}
                   ELSE Begun(op, mission) :
          req' = [req EXCEPT ![r] = next]
    /\ UNCHANGED <<mission, events, hour, overdue, alerts, crashes, overwritten>>

\* maybeExpire's own commit: the operation goes on with the row it returns.
Expire(r) ==
    /\ req[r].step = "expire"
    /\ mission' = Patched(mission, [status |-> "EXPIREE"])
    /\ events' = events \cup {Ending("EXPIRED")}
    /\ \E next \in Begun(req[r].op, mission') : Wrote(r, next)
    /\ UNCHANGED <<received, hour, overdue, alerts, crashes>>

\* Mutant: a buyer is new when it has no event that is a sale or a submission.
CountBuyer_Submissions(r) ==
    /\ req[r].step = "count"
    /\ req' = [req EXCEPT ![r].step = IF req[r].notify # Null THEN "notify" ELSE "write",
                          ![r].newBuyer = \A n \in req[r].entries, e \in events :
                                             e.kind # "CONTACT" => e.buyer # n.buyer]
    /\ UNCHANGED <<mission, events, received, hour, overdue, alerts, crashes, overwritten>>

CountBuyer(r) ==
    /\ req[r].step = "count"
    /\ req' = [req EXCEPT ![r].step = IF req[r].notify # Null THEN "notify" ELSE "write",
                          ![r].newBuyer = \A n \in req[r].entries, e \in events :
                                             e.buyer # n.buyer]
    /\ UNCHANGED <<mission, events, received, hour, overdue, alerts, crashes, overwritten>>

\* shouldNotify.
AlertDue(kind, lastSeen) == kind \in Regulated /\ (lastSeen = Null \/ hour > lastSeen)

\* Mutant: lastNotifiedAt is not written back.
Notify_Forgets(r) ==
    /\ req[r].step = "notify"
    /\ req' = [req EXCEPT ![r].step = "write"]
    /\ alerts' = [alerts EXCEPT ![hour] =
                     IF AlertDue(req[r].notify, req[r].lastSeen) THEN @ + 1 ELSE @]
    /\ UNCHANGED <<mission, events, received, hour, overdue, crashes, overwritten>>

\* notifyIfDue; a sale is always notified and never counted.
Notify(r) ==
    LET patch == req[r].patch
        stamp == [f \in DOMAIN patch \cup {"notifiedAt"} |->
                    IF f = "notifiedAt" THEN hour ELSE patch[f]]
        due   == AlertDue(req[r].notify, req[r].lastSeen)
    IN /\ req[r].step = "notify"
       /\ req' = [req EXCEPT ![r].step = "write",
                             ![r].patch = IF due THEN stamp ELSE patch, ![r].lastSeen = Null]
       /\ alerts' = [alerts EXCEPT ![hour] = IF due THEN @ + 1 ELSE @]
       /\ UNCHANGED <<mission, events, received, hour, overdue, crashes, overwritten>>

\* The update and the event, in one transaction.
Commit(r) ==
    /\ req[r].step = "write"
    /\ mission' = [Patched(mission, req[r].patch) EXCEPT
                     !.buyers = @ + IF req[r].newBuyer THEN 1 ELSE 0]
    /\ events' = events \cup req[r].entries
    /\ Wrote(r, Idle)
    /\ UNCHANGED <<received, hour, overdue, alerts, crashes>>

-----------------------------------------------------------------------------
\* A restart while nothing is under way changes nothing.
Crash ==
    /\ crashes < MaxCrashes
    /\ \E r \in Request : req[r] # Idle
    /\ crashes' = crashes + 1
    /\ req' = [r \in Request |-> Idle]
    /\ UNCHANGED <<mission, events, received, hour, overdue, alerts, overwritten>>

HourPasses ==
    /\ hour < MaxHour
    /\ hour' = hour + 1
    /\ UNCHANGED <<mission, events, req, received, overdue, alerts, crashes, overwritten>>

\* MISSION_EXPIRY_MS is longer than the hours that are counted.
MonthPasses ==
    /\ mission # Null /\ mission.status # "BROUILLON_MANDAT"
    /\ hour = MaxHour /\ ~overdue
    /\ overdue' = TRUE
    /\ UNCHANGED <<mission, events, req, received, hour, alerts, crashes, overwritten>>

Init ==
    /\ mission = Null
    /\ events = {}
    /\ req = [r \in Request |-> Idle]
    /\ received = 0
    /\ hour = 0
    /\ overdue = FALSE
    /\ alerts = [h \in 0 .. MaxHour |-> 0]
    /\ crashes = 0
    /\ overwritten = FALSE

Handle(r) ==
    \/ \E m \in Mandate : CreateMission(r, m)
    \/ Activate(r)
    \/ \E op \in Operation : FindOwned(r, op)
    \/ Expire(r)
    \/ CountBuyer(r)
    \/ Notify(r)
    \/ Commit(r)

Next == (\E r \in Request : Handle(r)) \/ Crash \/ HourPasses \/ MonthPasses

Spec == Init /\ [][Next]_vars

-----------------------------------------------------------------------------
(* Type invariant: the row and the patches over it are rows. *)
TypeOK ==
    /\ mission \in MissionRow \cup {Null}
    /\ events \subseteq Event
    /\ received \in 0 .. MaxMessages /\ hour \in 0 .. MaxHour /\ crashes \in 0 .. MaxCrashes
    /\ alerts \in [0 .. MaxHour -> Nat]
    /\ {overdue, overwritten} \subseteq BOOLEAN
    /\ \A r \in Request :
          /\ req[r].step \in {"idle", "activate", "expire", "count", "notify", "write"}
          /\ req[r].step \in {"count", "notify", "write"}
                => mission # Null /\ Patched(mission, req[r].patch) \in MissionRow

Sold == mission # Null /\ mission.sold # Null
SaleEvents == {e \in events : e.kind \in {"AUTO_ACCEPT", "SALE_CONFIRMED"}}

(* R1 and R4, in every interleaving of the requests: the object is never    *)
(* sold below the floor of the mandate; unless the seller has opted for it, *)
(* only for an offer that was submitted to them and that they accepted; and *)
(* the row and its events tell of the same sale.                            *)
HammerIsTheSellers ==
    /\ Sold => /\ mission.sold >= mission.mandate.prixMini
               /\ \E e \in SaleEvents : e.amount = mission.sold
    /\ \A e \in SaleEvents :
          /\ Sold /\ e.amount >= mission.mandate.prixMini
          /\ e.kind = "AUTO_ACCEPT" => mission.mandate.autoAdjuge
          /\ e.kind = "SALE_CONFIRMED"
                => \E s \in events : s.kind = "SUBMITTED" /\ s.amount = e.amount
    /\ mission # Null /\ mission.status \in {"VENDU", "MISSION_TERMINEE"} => Sold

(* Whatever is interleaved, the slate names a buyer exactly when it has a     *)
(* reason, and has an amount when the reason is an offer: the sheet has       *)
(* something to show (validationVariant).  As long as no update has           *)
(* overwritten another, a validation is due exactly when there is such a      *)
(* slate, a suspended mission knows what to come back to, VENDU means sold,   *)
(* and a draft is about to be activated, unless a restart has stopped it.     *)
SlateIsCoherent ==
    mission # Null =>
       /\ mission.reason # Null <=> mission.buyer # Null
       /\ mission.reason \in OfferReason => mission.offer # Null
       /\ ~overwritten =>
             LET status == IF mission.status = "SUSPENDUE" THEN mission.preSuspend
                                                           ELSE mission.status
             IN /\ status \in Status
                /\ mission.preSuspend # Null <=> mission.status = "SUSPENDUE"
                /\ status = "EN_ATTENTE_VALIDATION"
                      => /\ mission.reason # Null
                         /\ mission.reason \in OfferReason <=> mission.offer # Null
                /\ status \in Expirable
                      => <<mission.reason, mission.offer, mission.buyer>> = <<Null, Null, Null>>
                /\ status \in {"VENDU", "MISSION_TERMINEE"} <=> Sold
                /\ status = "BROUILLON_MANDAT" /\ crashes = 0
                      => \E r \in Request : req[r].step = "activate"

(* activeBuyerCount against the timeline: in every interleaving no buyer is   *)
(* left out, and no message is counted twice.  As long as no update has       *)
(* overwritten another, each buyer is counted at its first message, and once. *)
Contacted == {e.buyer : e \in events} \ {Null}

BuyersAreCounted ==
    mission # Null =>
       /\ Cardinality(Contacted) <= mission.buyers
       /\ mission.buyers <= received
       /\ ~overwritten => mission.buyers = Cardinality(Contacted)

(* R8: at most one regulated notification per hour, over any number of      *)
(* validations, unless updates overwrite each other or a restart forgets    *)
(* the one that was just sent.                                              *)
OneAlertPerHour ==
    ~overwritten /\ crashes = 0 /\ (\A r \in Request : req[r] = Idle)
       => \A h \in 0 .. MaxHour : alerts[h] <= 1

\* The step is an update by a request that has read a row since changed.
Overwriting ==
    \E r \in Request : req[r] # Idle /\ ~req[r].fresh /\ req'[r] # req[r]

(* A sale is never undone, whatever overwrites what.  What is over stays over *)
(* but for an update computed from a row read before it was: a sold mission   *)
(* can only be finalized, a stopped or expired one does not move.  That an    *)
(* earlier update was overwritten excuses no later one.                       *)
WhatIsOverStaysOver ==
    [][mission # Null =>
         /\ mission.sold # Null => mission'.sold # Null
         /\ ~Overwriting =>
               /\ mission.status \in {"ARRETEE", "EXPIREE", "MISSION_TERMINEE"}
                     => mission'.status = mission.status
               /\ mission.status = "VENDU"
                     => mission'.status \in {"VENDU", "MISSION_TERMINEE"}]_vars

(* negotiation.service.ts, resolveValidation: "si la feuille S5 est restee   *)
(* ouverte pendant que l'etat a change ailleurs, on ne laisse jamais         *)
(* accepter une offre qui n'est plus la".                                    *)
AcceptsOnlyWhatIsPending ==
    [][\A e \in SaleEvents' \ SaleEvents :
          e.kind = "SALE_CONFIRMED"
             => mission.status = "EN_ATTENTE_VALIDATION" /\ mission.offer = e.amount]_vars

(* negotiation.service.ts, suspend: "Menu ... - reversible : memorise l'etat  *)
(* a restaurer dans preSuspendStatus".                                       *)
SuspensionIsReversible ==
    mission # Null /\ mission.status = "SUSPENDUE" => Resume(mission) # {}

(* packages/core, notification.ts: "au plus une notification de negociation  *)
(* par heure et par mission".                                                *)
QuotaIsKept == \A h \in 0 .. MaxHour : alerts[h] <= 1
=============================================================================
