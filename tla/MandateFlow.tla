---------------------------- MODULE MandateFlow ----------------------------
(***************************************************************************)
(* The mandate of a Premium sale, from the phone to its mission: the       *)
(* wizard (mandate-posture, mandate-customize, mandate-recap), the store   *)
(* they share (mission.store.ts), the validation screen that opens them    *)
(* and whose publish() sends the mandate last, and POST /mission.          *)
(*                                                                         *)
(* The store is one for the whole app, and is not persisted.  publish()    *)
(* reads it after all of its requests, of which PublishFlow has the        *)
(* detail: here the photos, the AI and the draft are one step, "prepare".  *)
(* A run is not started twice for one thing; PublishFlow has that too.     *)
(***************************************************************************)
EXTENDS Naturals

CONSTANTS
    Thing,
    Plancher, Haut,           \* the estimate of each thing
    Price,                    \* the prices the seller may type
    Posture,                  \* the postures offered
    Options,                  \* livraison, casComplexes, autoAdjuge
    DefaultPosture, DefaultOptions,
    MaxKills,                 \* bound: how often the app is killed
    MaxHurries,               \* bound: how often the seller does not wait
    Null

\* POSTURE_PRESETS: the objective of each posture.
Preset == [RAPIDE |-> "VENDRE_VITE", EQUILIBRE |-> "EQUILIBRE",
           MEILLEUR_PRIX |-> "MEILLEUR_PRIX", PRUDENT |-> "EQUILIBRE"]
Objective == {Preset[p] : p \in Posture}

ASSUME MandateAssumption ==
    /\ Plancher \in [Thing -> Nat] /\ Haut \in [Thing -> Nat] /\ Price \subseteq Nat
    /\ Posture \subseteq DOMAIN Preset
    /\ DefaultPosture \in Posture /\ DefaultOptions \in Options
    /\ MaxKills \in Nat /\ MaxHurries \in Nat
    /\ Null \notin Nat \cup Thing

VARIABLES
    draft,     \* useMandateDraft
    cards,     \* the ready cards of the analysis queue
    form,      \* the validation screen, mounted: its thing, its price, its tier
    screen,    \* what is on top of it
    pending,   \* usePendingPublish (MMKV)
    run,       \* the run of publish() of each thing
    listing,   \* the listing of each thing, on the server
    mission,   \* its mission, on the server
    published, \* publications that have ended with success
    agreed,    \* history: the terms of the last mandate confirmed for each thing
    owner,     \* history: the thing the store was last written for
    hurries,   \* how often a publication was left, or its tier changed, as it went on
    kills

vars == <<draft, cards, form, screen, pending, run, listing, mission, published, agreed,
          owner, hurries, kills>>

Tier == {"SIMPLE", "PREMIUM"}
Cents == Price \cup {Plancher[t] : t \in Thing} \cup {Haut[t] : t \in Thing}

Terms == [posture : Posture, objectif : Objective, options : Options, prixMini : Cents]
Draft == [posture : Posture, objectif : Objective, options : Options,
          prixMini : Cents \cup {Null}, confirmed : BOOLEAN]
Mandate == [terms : Terms, prixAffiche : Cents]
Form == [thing : Thing, price : Cents, tier : Tier]
Pending == [thing : Thing, price : Cents, tier : Tier]
Step == {"idle", "create", "prepare", "validate", "mission"}
Run == [step : Step, price : Cents \cup {0}, tier : Tier, mandate : Mandate \cup {Null}]
Screen == [at : {"home", "form", "posture", "customize", "recap", "alert"},
           affiche : Cents \cup {0}, step : 0 .. 3, resume : Pending \cup {Null}]

ASSUME NullAssumption == Null \notin Form \cup Pending \cup Mandate

\* isMandateValid: the floor is positive, and at most the price shown.
IsMandateValid(m) == m.terms.prixMini > 0 /\ m.terms.prixMini <= m.prixAffiche

Least(a, b) == IF a <= b THEN a ELSE b

\* INITIAL.
Blank == [posture |-> DefaultPosture, objectif |-> Preset[DefaultPosture],
          options |-> DefaultOptions, prixMini |-> Null, confirmed |-> FALSE]

\* What a screen of the wizard is opened with: the price, and how it was reached.
At(name, affiche, step) == [at |-> name, affiche |-> affiche, step |-> step, resume |-> Null]
Home == At("home", 0, 0)
OnForm == At("form", 0, 0)

Idle == [step |-> "idle", price |-> 0, tier |-> "SIMPLE", mandate |-> Null]
Running(t) == run[t].step # "idle"

TermsOf(d) == [posture |-> d.posture, objectif |-> d.objectif, options |-> d.options,
               prixMini |-> d.prixMini]

Init ==
    /\ draft = Blank /\ owner = Null
    /\ cards = Thing /\ form = Null /\ screen = Home
    /\ pending = Null
    /\ run = [t \in Thing |-> Idle]
    /\ listing = [t \in Thing |-> "none"]
    /\ mission = [t \in Thing |-> Null]
    /\ published = {}
    /\ agreed = [t \in Thing |-> Null]
    /\ hurries = 0
    /\ kills = 0

\* The screen is rendered, with the effects of what it was last told.
Rested == screen = OnForm /\ ~draft.confirmed

Hurries(during) ==
    /\ hurries' = IF during THEN hurries + 1 ELSE hurries
    /\ hurries' <= MaxHurries

server == <<listing, mission>>
history == <<published, agreed, kills>>

-----------------------------------------------------------------------------
(* The validation screen.                                                   *)

\* Mutant: the mandate of an abandoned sale is left for the next one.
Mounted_NeverResets(t, resume) == UNCHANGED <<draft, owner>>

\* The effect of ValidateForm at its mount.
Mounted(t, resume) ==
    IF resume = Null THEN draft' = Blank /\ owner' = Null ELSE UNCHANGED <<draft, owner>>

\* A ready card: the interrupted publication is given up, and cancelled
\* without waiting for it.
OpenCard(t) ==
    /\ form = Null /\ t \in cards
    /\ cards' = cards \ {t}
    /\ pending' = Null
    /\ listing' \in {listing} \cup
         (IF pending = Null THEN {} ELSE {[listing EXCEPT ![pending.thing] = "cancelled"]})
    /\ form' = [thing |-> t, price |-> Haut[t], tier |-> "SIMPLE"]
    /\ screen' = OnForm
    /\ Mounted(t, Null)
    /\ UNCHANGED <<run, mission, history, hurries>>

\* The banner "Reprendre".
Reopen ==
    /\ form = Null /\ pending # Null /\ ~Running(pending.thing)
    /\ form' = pending
    /\ screen' = OnForm
    /\ Mounted(pending.thing, pending)
    /\ UNCHANGED <<cards, pending, run, server, history, hurries>>

EditPrice(p) ==
    /\ Rested
    /\ form' = [form EXCEPT !.price = p]
    /\ UNCHANGED <<draft, cards, screen, pending, run, server, history, owner, hurries>>

\* The tier is no longer shown once the listing is created, but it still is
\* while it is being created.
SetTier(tier) ==
    /\ Rested /\ pending = Null
    /\ form' = [form EXCEPT !.tier = tier]
    /\ Hurries(Running(form.thing))
    /\ UNCHANGED <<draft, cards, screen, pending, run, server, history, owner>>

Leave ==
    /\ Rested
    /\ form' = Null /\ screen' = Home
    /\ Hurries(Running(form.thing))
    /\ UNCHANGED <<draft, cards, pending, run, server, history, owner>>

Alert == [at |-> "alert", affiche |-> 0, step |-> 0, resume |-> pending]

\* Mutant: the wizard is opened only as long as no mandate was drawn up.
Press_OncePerDraft ==
    /\ Rested /\ ~Running(form.thing)
    /\ screen' = IF pending = Null /\ form.tier = "PREMIUM" /\ draft.prixMini = Null
                 THEN At("posture", form.price, 0) ELSE Alert
    /\ UNCHANGED <<draft, cards, form, pending, run, server, history, owner, hurries>>

\* handlePrimaryPress.
Press ==
    /\ Rested /\ ~Running(form.thing)
    /\ screen' = IF pending = Null /\ form.tier = "PREMIUM"
                 THEN At("posture", form.price, 0) ELSE Alert
    /\ UNCHANGED <<draft, cards, form, pending, run, server, history, owner, hurries>>

-----------------------------------------------------------------------------
(* The wizard writes the store at once: leaving it takes nothing back.      *)

Write(d) == draft' = d /\ owner' = form.thing

\* The floor a screen starts from: what was typed before is kept.
Seeded(d, affiche) ==
    IF d.prixMini # Null THEN d
    ELSE [d EXCEPT !.prixMini = Least(Plancher[form.thing], affiche)]

SetPosture(p) ==
    /\ screen.at = "posture"
    /\ Write([draft EXCEPT !.posture = p, !.objectif = Preset[p]])
    /\ UNCHANGED <<cards, form, screen, pending, run, server, history, hurries>>

ContinuePosture ==
    /\ screen.at = "posture"
    /\ Write(Seeded(draft, screen.affiche))
    /\ screen' = At("recap", screen.affiche, 0)
    /\ UNCHANGED <<cards, form, pending, run, server, history, hurries>>

OpenCustomize ==
    /\ screen.at = "posture"
    /\ Write(Seeded(draft, screen.affiche))
    /\ screen' = At("customize", screen.affiche, 0)
    /\ UNCHANGED <<cards, form, pending, run, server, history, hurries>>

SetObjectif(o) ==
    /\ screen.at = "customize" /\ screen.step = 0
    /\ Write([draft EXCEPT !.objectif = o])
    /\ UNCHANGED <<cards, form, screen, pending, run, server, history, hurries>>

\* The delivery, the complex cases and the option of the last two views.
SetOptions(o) ==
    /\ screen.at = "customize" /\ screen.step \in {2, 3}
    /\ Write([draft EXCEPT !.options = o])
    /\ UNCHANGED <<cards, form, screen, pending, run, server, history, hurries>>

\* The second view is left with a floor that the price allows.
ContinuePrice(p) ==
    /\ screen.at = "customize" /\ screen.step = 1
    /\ p > 0 /\ p <= screen.affiche
    /\ Write([draft EXCEPT !.prixMini = p])
    /\ screen' = [screen EXCEPT !.step = 2]
    /\ UNCHANGED <<cards, form, pending, run, server, history, hurries>>

ContinueCustomize ==
    /\ screen.at = "customize" /\ screen.step # 1
    /\ screen' = IF screen.step = 3 THEN At("recap", screen.affiche, 3)
                                    ELSE [screen EXCEPT !.step = @ + 1]
    /\ UNCHANGED <<draft, cards, form, pending, run, server, history, owner, hurries>>

Back ==
    \/ /\ screen.at = "recap"
       /\ screen' = IF screen.step = 3 THEN At("customize", screen.affiche, 3)
                                       ELSE At("posture", screen.affiche, 0)
       /\ UNCHANGED <<draft, cards, form, pending, run, server, history, owner, hurries>>
    \/ /\ screen.at = "customize" /\ screen' = At("posture", screen.affiche, 0)
       /\ UNCHANGED <<draft, cards, form, pending, run, server, history, owner, hurries>>
    \/ /\ screen.at \in {"posture", "alert"} /\ screen' = OnForm
       /\ UNCHANGED <<draft, cards, form, pending, run, server, history, owner, hurries>>

\* "Confirmer le mandat": over to the validation screen, by the store.
ConfirmRecap ==
    /\ screen.at = "recap"
    /\ draft' = [draft EXCEPT !.confirmed = TRUE]
    /\ agreed' = [agreed EXCEPT ![form.thing] = TermsOf(draft)]
    /\ screen' = OnForm
    /\ UNCHANGED <<cards, form, pending, run, server, published, kills, owner, hurries>>

\* The effect of ValidateForm on postureConfirmed.
Confirmed ==
    /\ screen = OnForm /\ draft.confirmed
    /\ draft' = [draft EXCEPT !.confirmed = FALSE]
    /\ screen' = IF form.tier = "PREMIUM" THEN Alert ELSE screen
    /\ UNCHANGED <<cards, form, pending, run, server, history, owner, hurries>>

-----------------------------------------------------------------------------
(* publish().  The outcome of a request: "ok", "refused" by the server, or  *)
(* no answer, with the request executed or not.                             *)

Publish ==
    /\ screen.at = "alert" /\ ~Running(form.thing)
    /\ run' = [run EXCEPT ![form.thing] =
                 [step |-> IF screen.resume = Null THEN "create" ELSE "prepare",
                  price |-> form.price, tier |-> form.tier, mandate |-> Null]]
    /\ screen' = OnForm
    /\ UNCHANGED <<draft, cards, form, pending, server, history, owner, hurries>>

\* The catch and the finally of publish().
Fail(t) ==
    /\ Running(t)
    /\ run' = [run EXCEPT ![t] = Idle]
    /\ UNCHANGED <<draft, cards, form, screen, pending, server, history, owner, hurries>>

\* The listing is recorded on the phone once it is created and authorized.
Created(t) ==
    /\ run[t].step = "create"
    /\ listing' = [listing EXCEPT ![t] = "created"]
    /\ pending' = [thing |-> t, price |-> run[t].price, tier |-> run[t].tier]
    /\ run' = [run EXCEPT ![t].step = "prepare"]
    /\ UNCHANGED <<draft, cards, form, screen, mission, history, owner, hurries>>

\* The photos, the AI and the draft: each success is recorded.
Prepared(t) ==
    /\ run[t].step = "prepare"
    /\ pending' = [thing |-> t, price |-> run[t].price, tier |-> run[t].tier]
    /\ run' = [run EXCEPT ![t].step = "validate"]
    /\ UNCHANGED <<draft, cards, form, screen, server, history, owner, hurries>>

\* The debit, whose answer may be lost.
Debited(t) ==
    /\ run[t].step = "validate" /\ listing[t] = "created"
    /\ listing' = [listing EXCEPT ![t] = "queued"]
    /\ UNCHANGED <<draft, cards, form, screen, pending, run, mission, history, owner, hurries>>

\* The phone is shown home, whatever it was showing.
Ended(t) ==
    /\ pending' = Null /\ form' = Null /\ screen' = Home
    /\ draft' = Blank /\ owner' = Null
    /\ run' = [run EXCEPT ![t] = Idle]
    /\ published' = published \cup {[thing |-> t, tier |-> run[t].tier]}

\* The mandate is read from the store once the listing is paid for.
Drawn(t) == [terms |-> TermsOf(draft), prixAffiche |-> run[t].price]

\* INVALID_TRANSITION counts as validated: an earlier answer was lost.
Validated(t) ==
    /\ run[t].step = "validate" /\ listing[t] # "created"
    /\ \/ /\ run[t].tier = "PREMIUM" /\ draft.prixMini # Null
          /\ run' = [run EXCEPT ![t].step = "mission", ![t].mandate = Drawn(t)]
          /\ UNCHANGED <<draft, form, screen, pending, published, owner>>
       \/ /\ run[t].tier # "PREMIUM" \/ draft.prixMini = Null
          /\ Ended(t)
    /\ UNCHANGED <<cards, server, agreed, hurries, kills>>

\* POST /mission, whose answer may be lost.
CreateMission(t) ==
    /\ run[t].step = "mission"
    /\ IsMandateValid(run[t].mandate) /\ mission[t] = Null
    /\ mission' = [mission EXCEPT ![t] = run[t].mandate]
    /\ UNCHANGED <<draft, cards, form, screen, pending, run, listing, history, owner, hurries>>

\* ALREADY_COMMITTED counts as created.
MissionCreated(t) ==
    /\ run[t].step = "mission"
    /\ IsMandateValid(run[t].mandate) /\ mission[t] # Null
    /\ Ended(t)
    /\ UNCHANGED <<cards, server, agreed, hurries, kills>>

\* The app stops: only the record of the publication is left.
Kill ==
    /\ kills < MaxKills
    /\ kills' = kills + 1
    /\ draft' = Blank /\ owner' = Null
    /\ form' = Null /\ screen' = Home
    /\ run' = [t \in Thing |-> Idle]
    /\ UNCHANGED <<cards, pending, server, published, agreed, hurries>>

Next ==
    \/ \E t \in Thing : \/ OpenCard(t) \/ Fail(t) \/ Created(t) \/ Prepared(t) \/ Debited(t)
                        \/ Validated(t) \/ CreateMission(t) \/ MissionCreated(t)
    \/ Reopen \/ Leave \/ Press \/ Back \/ ConfirmRecap \/ Confirmed \/ Publish \/ Kill
    \/ ContinuePosture \/ OpenCustomize \/ ContinueCustomize
    \/ \E p \in Price : EditPrice(p) \/ ContinuePrice(p)
    \/ \E tier \in Tier : SetTier(tier)
    \/ \E p \in Posture : SetPosture(p)
    \/ \E o \in Objective : SetObjectif(o)
    \/ \E o \in Options : SetOptions(o)

Spec == Init /\ [][Next]_vars

-----------------------------------------------------------------------------
OnWizard == screen.at \in {"posture", "customize", "recap"}

TypeOK ==
    /\ draft \in Draft /\ cards \subseteq Thing /\ owner \in Thing \cup {Null}
    /\ form \in Form \cup {Null} /\ pending \in Pending \cup {Null}
    /\ screen \in Screen /\ (OnWizard => screen.affiche \in Cents)
    /\ screen.at = "home" <=> form = Null
    /\ run \in [Thing -> Run] /\ \A t \in Thing : Running(t) => run[t].price \in Cents
    /\ listing \in [Thing -> {"none", "created", "queued", "cancelled"}]
    /\ mission \in [Thing -> Mandate \cup {Null}] /\ agreed \in [Thing -> Terms \cup {Null}]
    /\ published \subseteq [thing : Thing, tier : Tier]
    /\ hurries \in 0 .. MaxHurries /\ kills \in 0 .. MaxKills

\* The mission of a thing is run on the terms its seller has confirmed on the
\* last screen of the wizard, whatever they went back to, changed and retried
\* since, and whatever was lost or killed; if they wait for a publication to end.
MissionIsTheMandateConfirmed ==
    hurries = 0 => \A t \in Thing : mission[t] # Null => mission[t].terms = agreed[t]

\* A Premium sale whose publication ends with success has its mission, however
\* often it failed, was left and was taken up again, if the app was not killed and
\* the seller waited for each attempt to end.
PremiumHasItsMission ==
    hurries = 0 /\ kills = 0 =>
        \A p \in published : p.tier = "PREMIUM" => mission[p.thing] # Null

\* "Une annonce abandonnee ne salit plus la suivante" (validate.tsx): what the
\* wizard shows for a thing was never written for another one, as long as the seller
\* waits for each publication to end before leaving it or changing its tier (hurries
\* counts the times she did not).
NoMandateLeaks ==
    hurries = 0 /\ screen.at \in {"posture", "customize", "recap"} => owner \in {form.thing, Null}

\* mission.ts, SellMandate: "Invariant : 0 < prixMini <= prixAffiche".
MandateSentIsValid ==
    \A t \in Thing : run[t].step = "mission" => IsMandateValid(run[t].mandate)

-----------------------------------------------------------------------------
(* The inductive invariant of the proofs (PhoneProofs).                     *)

\* The store holds the terms confirmed for t, or was emptied by a kill.
Settled(t) ==
    /\ draft.prixMini # Null => TermsOf(draft) = agreed[t]
    /\ kills = 0 => draft.prixMini # Null

Quiet == \A t \in Thing : ~Running(t)

\* What runs is what the form shows, and its mandate is settled.
RunIsShown ==
    \A t \in Thing : Running(t) =>
        /\ form # Null /\ form.thing = t /\ screen = OnForm /\ ~draft.confirmed
        /\ run[t].tier = form.tier /\ (form.tier = "PREMIUM" => Settled(t))
        /\ run[t].step # "create" => pending # Null /\ pending.thing = t
        /\ run[t].step = "mission" => /\ run[t].mandate # Null
                                      /\ run[t].mandate.terms = agreed[t]

AlertIsFresh ==
    screen.at = "alert" =>
        /\ screen.resume = pending /\ Quiet /\ ~draft.confirmed
        /\ form.tier = "PREMIUM" => Settled(form.thing)

\* The wizard is open before the publication starts.
WizardIsFirst == OnWizard => pending = Null /\ Quiet /\ ~draft.confirmed

ConfirmedIsSettled ==
    draft.confirmed => screen = OnForm /\ pending = Null /\ Quiet /\ Settled(form.thing)

\* The publication interrupted is the one of the form, and its mandate is settled.
PendingIsSettled ==
    pending # Null =>
        /\ pending.thing \notin cards /\ owner \in {pending.thing, Null}
        /\ pending.tier = "PREMIUM" => Settled(pending.thing)
        /\ form # Null => form.thing = pending.thing /\ form.tier = pending.tier

FormIsTaken == form # Null => form.thing \notin cards /\ owner \in {form.thing, Null}

\* A thing that has its mission does not come back to the wizard.
MissionIsKept ==
    \A t \in Thing : mission[t] # Null =>
        /\ mission[t].terms = agreed[t] /\ t \notin cards
        /\ form # Null /\ form.thing = t => pending # Null

PremiumIsKept ==
    kills = 0 => \A p \in published : p.tier = "PREMIUM" => mission[p.thing] # Null

Waited ==
    /\ RunIsShown /\ AlertIsFresh /\ WizardIsFirst /\ ConfirmedIsSettled
    /\ PendingIsSettled /\ FormIsTaken /\ MissionIsKept /\ PremiumIsKept

\* Past its first screen, the wizard has a floor to confirm.
FloorIsSet == screen.at \in {"customize", "recap"} => draft.prixMini # Null

MandateInv == TypeOK /\ FloorIsSet /\ (hurries = 0 => Waited)
=============================================================================
