------------------------------ MODULE PhoneProofs ------------------------------
(***************************************************************************)
(* Proofs about the small systems around the phone, for any users, links,  *)
(* requests, tasks, photos, things, prices and bounds.  First the mandate  *)
(* wizard: while a publication goes on, or can be resumed, the store holds *)
(* the terms confirmed for its thing, or nothing (Settled).  Then the four *)
(* others: each of them keeps an inductive invariant of its own, and a     *)
(* behaviour of MCPhone that runs one leaves what the others hold alone.   *)
(***************************************************************************)
EXTENDS MCPhone, Sequences, FiniteSetTheorems, TLAPS

-----------------------------------------------------------------------------
(* The types.                                                               *)

LEMMA CentsAreNumbers ==
    /\ Cents \subseteq Nat /\ Null \notin Cents /\ Price \subseteq Cents
    /\ \A t \in Thing : Haut[t] \in Cents /\ Plancher[t] \in Cents
BY MandateAssumption DEF Cents

LEMMA PresetsAreObjectives == \A p \in Posture : Preset[p] \in Objective
BY DEF Objective

LEMMA BlankIsDraft == Blank \in Draft /\ Blank.prixMini = Null /\ Blank.confirmed = FALSE
BY MandateAssumption, PresetsAreObjectives DEF Blank, Draft

LEMMA ScreensAreTyped ==
    /\ Home \in Screen /\ OnForm \in Screen /\ Home.at = "home" /\ OnForm.at = "form"
    /\ \A name \in {"posture", "customize", "recap"}, affiche \in Cents, step \in 0 .. 3 :
          /\ At(name, affiche, step) \in Screen
          /\ At(name, affiche, step).at = name /\ At(name, affiche, step).affiche = affiche
BY DEF Home, OnForm, At, Screen

LEMMA InitTyped == Init => TypeOK
<1> SUFFICES ASSUME Init
             PROVE  TypeOK
  OBVIOUS
<1>1. draft \in Draft
  BY BlankIsDraft DEF Init
<1>2. screen \in Screen /\ screen.at = "home"
  BY ScreensAreTyped DEF Init
<1>3. run \in [Thing -> Run] /\ \A t \in Thing : ~Running(t)
  BY DEF Init, Idle, Run, Step, Tier, Running
<1> QED
  BY <1>1, <1>2, <1>3, MandateAssumption DEF Init, TypeOK, OnWizard

\* The validation screen.
LEMMA FormIsTyped ==
    ASSUME TypeOK, (\E t \in Thing : OpenCard(t)) \/ Reopen \/ Leave \/ Press
                      \/ (\E p \in Price : EditPrice(p)) \/ \E tier \in Tier : SetTier(tier)
    PROVE  TypeOK'
<1>1. CASE \E t \in Thing : OpenCard(t)
  <2>1. PICK t \in Thing : OpenCard(t)
    BY <1>1
  <2>2. form' = [thing |-> t, price |-> Haut[t], tier |-> "SIMPLE"] /\ form' \in Form
    BY <2>1, CentsAreNumbers DEF OpenCard, Form, Tier
  <2>3. form' # Null
    BY <2>2, NullAssumption
  <2>4. screen' = OnForm /\ screen' \in Screen /\ screen'.at = "form"
    BY <2>1, ScreensAreTyped DEF OpenCard
  <2>5. draft' \in Draft /\ owner' = Null
    BY <2>1, BlankIsDraft DEF OpenCard, Mounted
  <2>6. listing' \in [Thing -> {"none", "created", "queued", "cancelled"}]
    BY <2>1 DEF OpenCard, TypeOK
  <2> QED
    BY <2>1, <2>2, <2>3, <2>4, <2>5, <2>6 DEF OpenCard, TypeOK, OnWizard, Running, history
<1>2. CASE Reopen
  <2>1. form' = pending /\ form' \in Form /\ form' # Null
    BY <1>2 DEF Reopen, TypeOK, Form, Pending
  <2>2. screen' = OnForm /\ screen' \in Screen /\ screen'.at = "form"
    BY <1>2, ScreensAreTyped DEF Reopen
  <2>3. UNCHANGED <<draft, owner>>
    BY <1>2 DEF Reopen, Mounted
  <2> QED
    BY <1>2, <2>1, <2>2, <2>3 DEF Reopen, TypeOK, OnWizard, Running, history, server
<1>3. CASE Leave
  <2>1. screen' \in Screen /\ screen'.at = "home" /\ form' = Null /\ hurries' \in 0 .. MaxHurries
    BY <1>3, ScreensAreTyped, MandateAssumption DEF Leave, Hurries, TypeOK
  <2> QED
    BY <1>3, <2>1 DEF Leave, TypeOK, OnWizard, Running, history, server
<1>4. ASSUME Rested
      PROVE  form \in Form /\ form # Null /\ screen.at = "form"
  BY <1>4, ScreensAreTyped DEF Rested, TypeOK
<1>5. CASE Press
  <2>1. form \in Form /\ form # Null /\ form.price \in Cents
    BY <1>4, <1>5 DEF Press, Form
  <2>2. Alert \in Screen /\ Alert.at = "alert"
    BY DEF Alert, Screen, TypeOK
  <2>3. /\ screen' \in Screen /\ screen'.at \in {"posture", "alert"}
        /\ screen'.at = "posture" => screen'.affiche \in Cents
    BY <1>5, <2>1, <2>2, ScreensAreTyped DEF Press
  <2> QED
    BY <1>5, <2>1, <2>3 DEF Press, TypeOK, OnWizard, Running, history, server
<1>6. CASE \E p \in Price : EditPrice(p)
  <2>1. PICK p \in Price : EditPrice(p)
    BY <1>6
  <2>2. form' \in Form /\ form' # Null
    <3>1. form \in Form /\ p \in Cents /\ form' = [form EXCEPT !.price = p]
      BY <1>4, <2>1, CentsAreNumbers DEF EditPrice
    <3>2. form' \in Form
      BY <3>1 DEF Form
    <3> QED
      BY <3>2, NullAssumption
  <2> QED
    BY <1>4, <2>1, <2>2 DEF EditPrice, TypeOK, OnWizard, Running, history, server
<1>7. CASE \E tier \in Tier : SetTier(tier)
  <2>1. PICK tier \in Tier : SetTier(tier)
    BY <1>7
  <2>2. form' \in Form /\ form' # Null
    <3>1. form \in Form /\ form' = [form EXCEPT !.tier = tier]
      BY <1>4, <2>1 DEF SetTier
    <3>2. form' \in Form
      BY <3>1 DEF Form
    <3> QED
      BY <3>2, NullAssumption
  <2>3. hurries' \in 0 .. MaxHurries
    BY <2>1, MandateAssumption DEF SetTier, Hurries, TypeOK
  <2> QED
    BY <1>4, <2>1, <2>2, <2>3 DEF SetTier, TypeOK, OnWizard, Running, history, server
<1> QED
  BY <1>1, <1>2, <1>3, <1>5, <1>6, <1>7

\* The wizard.
WizardStep ==
    \/ ContinuePosture \/ OpenCustomize \/ ContinueCustomize \/ Back
    \/ \E p \in Price : ContinuePrice(p)
    \/ \E p \in Posture : SetPosture(p)
    \/ \E o \in Objective : SetObjectif(o)
    \/ \E o \in Options : SetOptions(o)

\* What a screen of the wizard does to the store and to the screen.
LEMMA WizardWrites ==
    ASSUME TypeOK, FloorIsSet, WizardStep
    PROVE  /\ draft' \in Draft /\ draft'.confirmed = draft.confirmed
           /\ owner' \in {owner, form.thing}
           /\ \/ OnWizard
              \/ draft' = draft /\ owner' = owner /\ screen.at = "alert"
           /\ \/ screen' \in Screen /\ OnWizard' /\ OnWizard /\ screen'.affiche \in Cents
              \/ screen' = OnForm /\ draft' = draft /\ owner' = owner
           /\ screen'.at \in {"customize", "recap"} => draft'.prixMini # Null
           /\ UNCHANGED <<cards, form, pending, run, listing, mission, published, agreed,
                          kills, hurries>>
<1>1. /\ draft \in Draft /\ screen \in Screen /\ owner \in Thing \cup {Null}
      /\ OnWizard => screen.affiche \in Cents /\ form \in Form
      /\ screen.at \in {"customize", "recap"} => draft.prixMini # Null
  BY DEF TypeOK, OnWizard, FloorIsSet
<1>2. UNCHANGED <<cards, form, pending, run, listing, mission, published, agreed, kills, hurries>>
  BY DEF WizardStep, ContinuePosture, OpenCustomize, ContinueCustomize, Back, ContinuePrice,
     SetPosture, SetObjectif, SetOptions, server, history
<1>3. ASSUME OnWizard
      PROVE  LET d == Seeded(draft, screen.affiche)
             IN  d \in Draft /\ d.confirmed = draft.confirmed /\ d.prixMini # Null
  <2>1. Least(Plancher[form.thing], screen.affiche) \in Cents
    BY <1>1, <1>3, CentsAreNumbers DEF Least, Form
  <2> QED
    BY <1>1, <2>1, CentsAreNumbers DEF Seeded, Draft
<1>4. CASE ContinuePosture \/ OpenCustomize
  <2>1. /\ screen.at = "posture" /\ draft' = Seeded(draft, screen.affiche)
        /\ owner' = form.thing
        /\ \E name \in {"customize", "recap"} : screen' = At(name, screen.affiche, 0)
    BY <1>4 DEF ContinuePosture, OpenCustomize, Write
  <2>2. OnWizard
    BY <2>1 DEF OnWizard
  <2>3. screen' \in Screen /\ OnWizard' /\ screen'.affiche \in Cents
    BY <1>1, <2>1, <2>2, ScreensAreTyped DEF OnWizard
  <2>4. draft' \in Draft /\ draft'.confirmed = draft.confirmed /\ draft'.prixMini # Null
    BY <1>3, <2>1, <2>2
  <2> QED
    BY <1>2, <2>1, <2>2, <2>3, <2>4
<1>5. CASE ContinueCustomize
  <2>1. /\ OnWizard /\ screen.at = "customize" /\ draft' = draft /\ owner' = owner
        /\ screen' = IF screen.step = 3 THEN At("recap", screen.affiche, 3)
                                        ELSE [screen EXCEPT !.step = @ + 1]
    BY <1>5 DEF ContinueCustomize, OnWizard
  <2>2. CASE screen.step = 3
    BY <1>1, <1>2, <2>1, <2>2, ScreensAreTyped DEF OnWizard
  <2>3. CASE screen.step # 3
    <3>1. screen' = [screen EXCEPT !.step = screen.step + 1] /\ screen.step + 1 \in 0 .. 3
      BY <1>1, <2>1, <2>3 DEF Screen
    <3>2. screen' \in Screen /\ screen'.at = "customize" /\ screen'.affiche \in Cents
      BY <1>1, <2>1, <3>1 DEF Screen
    <3> QED
      BY <1>1, <1>2, <2>1, <3>2 DEF OnWizard
  <2> QED
    BY <2>2, <2>3
<1>6. CASE Back
  <2>1. draft' = draft /\ owner' = owner
    BY <1>6 DEF Back
  <2>2. CASE screen.at \in {"posture", "alert"} /\ screen' = OnForm
    BY <1>1, <1>2, <2>1, <2>2, ScreensAreTyped DEF OnWizard
  <2>3. CASE /\ screen.at \in {"recap", "customize"}
             /\ \E name \in {"posture", "customize"}, step \in {0, 3} :
                   screen' = At(name, screen.affiche, step)
    <3>1. OnWizard
      BY <2>3 DEF OnWizard
    <3>2. screen' \in Screen /\ OnWizard' /\ screen'.affiche \in Cents
      BY <1>1, <2>3, <3>1, ScreensAreTyped DEF OnWizard
    <3> QED
      BY <1>1, <1>2, <2>1, <2>3, <3>1, <3>2
  <2> QED
    BY <1>6, <2>2, <2>3 DEF Back
<1>7. CASE \E p \in Price : ContinuePrice(p)
  <2>1. PICK p \in Price : ContinuePrice(p)
    BY <1>7
  <2>2. /\ screen.at = "customize" /\ OnWizard /\ draft' = [draft EXCEPT !.prixMini = p]
        /\ owner' = form.thing /\ screen' = [screen EXCEPT !.step = 2] /\ p \in Cents
    BY <2>1, CentsAreNumbers DEF ContinuePrice, Write, OnWizard
  <2>3. screen' \in Screen /\ screen'.at = "customize" /\ screen'.affiche \in Cents
    BY <1>1, <2>2 DEF Screen
  <2>4. draft' \in Draft /\ draft'.confirmed = draft.confirmed /\ draft'.prixMini # Null
    BY <1>1, <2>2, CentsAreNumbers DEF Draft
  <2> QED
    BY <1>2, <2>2, <2>3, <2>4 DEF OnWizard
<1>8. CASE \/ \E p \in Posture : SetPosture(p)
           \/ \E o \in Objective : SetObjectif(o)
           \/ \E o \in Options : SetOptions(o)
  <2>1. OnWizard /\ screen' = screen /\ owner' = form.thing
    BY <1>8 DEF SetPosture, SetObjectif, SetOptions, Write, OnWizard
  <2>2. /\ draft' \in Draft /\ draft'.confirmed = draft.confirmed
        /\ draft'.prixMini = draft.prixMini
    BY <1>1, <1>8, PresetsAreObjectives DEF SetPosture, SetObjectif, SetOptions, Write, Draft
  <2> QED
    BY <1>1, <1>2, <2>1, <2>2 DEF OnWizard
<1> QED
  BY <1>4, <1>5, <1>6, <1>7, <1>8 DEF WizardStep

LEMMA WizardIsTyped ==
    ASSUME TypeOK, FloorIsSet, WizardStep \/ ConfirmRecap \/ Confirmed
    PROVE  TypeOK' /\ FloorIsSet'
<1>1. CASE WizardStep
  <2>1. screen' \in Screen /\ (OnWizard' => screen'.affiche \in Cents) /\ screen'.at # "home"
        /\ screen.at # "home"
    BY <1>1, WizardWrites, ScreensAreTyped DEF OnWizard
  <2>2. form # Null => form.thing \in Thing
    BY DEF TypeOK, Form
  <2>3. form # Null
    BY <2>1 DEF TypeOK
  <2>4. owner' \in Thing \cup {Null}
    BY <1>1, <2>2, <2>3, WizardWrites DEF TypeOK
  <2> QED
    BY <1>1, <2>1, <2>4, WizardWrites DEF TypeOK, Running, FloorIsSet
<1>2. CASE ConfirmRecap
  <2>1. screen.at = "recap" /\ form \in Form /\ form # Null /\ draft \in Draft
    BY <1>2 DEF ConfirmRecap, TypeOK
  <2>2. draft' \in Draft
    BY <1>2, <2>1 DEF ConfirmRecap, Draft
  <2>3. screen' \in Screen /\ screen'.at = "form"
    BY <1>2, ScreensAreTyped DEF ConfirmRecap
  <2>4. agreed' \in [Thing -> Terms \cup {Null}]
    <3>1. draft.prixMini # Null
      BY <2>1 DEF FloorIsSet
    <3>2. TermsOf(draft) \in Terms
      BY <2>1, <3>1 DEF TermsOf, Draft, Terms
    <3>3. agreed' = [agreed EXCEPT ![form.thing] = TermsOf(draft)]
      BY <1>2 DEF ConfirmRecap
    <3> HIDE DEF Terms
    <3> QED
      BY <3>2, <3>3 DEF TypeOK
  <2> QED
    BY <1>2, <2>1, <2>2, <2>3, <2>4 DEF ConfirmRecap, TypeOK, OnWizard, Running, server,
       FloorIsSet
<1>3. CASE Confirmed
  <2>1. form # Null /\ draft \in Draft
    BY <1>3, ScreensAreTyped DEF Confirmed, TypeOK
  <2>2. draft' \in Draft
    BY <1>3, <2>1 DEF Confirmed, Draft
  <2>3. Alert \in Screen /\ Alert.at = "alert"
    BY DEF Alert, Screen, TypeOK
  <2>4. screen' \in Screen /\ screen'.at \in {"form", "alert"}
    BY <1>3, <2>3, ScreensAreTyped DEF Confirmed
  <2> QED
    BY <1>3, <2>1, <2>2, <2>4 DEF Confirmed, TypeOK, OnWizard, Running, server,
       history, FloorIsSet
<1> QED
  BY <1>1, <1>2, <1>3

LEMMA FormKeepsFloor ==
    ASSUME FloorIsSet,
           \/ \E t \in Thing : OpenCard(t)
           \/ Reopen \/ Leave \/ Press
           \/ \E p \in Price : EditPrice(p)
           \/ \E tier \in Tier : SetTier(tier)
    PROVE  FloorIsSet'
<1>1. Alert.at = "alert" /\ At("posture", form.price, 0).at = "posture"
  BY DEF Alert, At
<1>2. screen'.at \in {"home", "form", "posture", "alert"}
  BY <1>1, ScreensAreTyped DEF OpenCard, Reopen, Leave, Press, EditPrice, SetTier, Rested
<1> QED
  BY <1>2 DEF FloorIsSet

\* publish().
LEMMA RunIsTyped ==
    ASSUME TypeOK, NEW t \in Thing, NEW r \in Run, run' = [run EXCEPT ![t] = r],
           r.step # "idle" => r.price \in Cents
    PROVE  run' \in [Thing -> Run] /\ \A u \in Thing : Running(u)' => run'[u].price \in Cents
BY DEF TypeOK, Running

LEMMA EndedIsTyped ==
    ASSUME TypeOK, FloorIsSet, NEW t \in Thing, Ended(t),
           UNCHANGED <<cards, listing, mission, agreed, hurries, kills>>
    PROVE  TypeOK' /\ FloorIsSet'
<1>1. Idle \in Run /\ Idle.step = "idle"
  BY DEF Idle, Run, Step, Tier
<1>2. run' \in [Thing -> Run] /\ \A u \in Thing : Running(u)' => run'[u].price \in Cents
  BY <1>1, RunIsTyped DEF Ended
<1>3. screen' \in Screen /\ screen'.at = "home" /\ form' = Null /\ pending' = Null
      /\ draft' \in Draft /\ owner' = Null
  BY ScreensAreTyped, BlankIsDraft DEF Ended
<1>4. published' \subseteq [thing : Thing, tier : Tier]
  <2>1. run[t].tier \in Tier
    BY DEF TypeOK, Run
  <2> QED
    BY <2>1 DEF Ended, TypeOK
<1> QED
  BY <1>2, <1>3, <1>4 DEF TypeOK, FloorIsSet, OnWizard

LEMMA PublishIsTyped ==
    ASSUME TypeOK, FloorIsSet, Publish \/ Kill
    PROVE  TypeOK' /\ FloorIsSet'
<1>1. CASE Publish
  <2>1. form \in Form /\ form # Null
    BY <1>1 DEF Publish, TypeOK
  <2> DEFINE r == [step |-> IF screen.resume = Null THEN "create" ELSE "prepare",
                   price |-> form.price, tier |-> form.tier, mandate |-> Null]
  <2>2. r \in Run /\ r.price \in Cents
    BY <2>1 DEF Form, Run, Step
  <2>3. run' = [run EXCEPT ![form.thing] = r] /\ form.thing \in Thing
    BY <1>1, <2>1 DEF Publish, Form
  <2> HIDE DEF r
  <2>4. run' \in [Thing -> Run] /\ \A u \in Thing : Running(u)' => run'[u].price \in Cents
    BY <2>2, <2>3, RunIsTyped
  <2>5. screen' \in Screen /\ screen'.at = "form"
    BY <1>1, ScreensAreTyped DEF Publish
  <2> QED
    BY <1>1, <2>1, <2>4, <2>5 DEF Publish, TypeOK, FloorIsSet, OnWizard, server, history
<1>2. CASE Kill
  <2>1. run' \in [Thing -> Run] /\ \A u \in Thing : ~Running(u)'
    BY <1>2 DEF Kill, Idle, Run, Step, Tier, Running
  <2>2. screen' \in Screen /\ screen'.at = "home" /\ form' = Null /\ draft' \in Draft
        /\ owner' = Null
    BY <1>2, ScreensAreTyped, BlankIsDraft DEF Kill
  <2>3. kills' \in 0 .. MaxKills
    BY <1>2, MandateAssumption DEF Kill, TypeOK
  <2> QED
    BY <1>2, <2>1, <2>2, <2>3 DEF Kill, TypeOK, FloorIsSet, OnWizard, server
<1> QED
  BY <1>1, <1>2

LEMMA StepsAreTyped ==
    ASSUME TypeOK, FloorIsSet, NEW t \in Thing,
           \/ Fail(t) \/ Created(t) \/ Prepared(t) \/ Debited(t)
           \/ Validated(t) \/ CreateMission(t) \/ MissionCreated(t)
    PROVE  TypeOK' /\ FloorIsSet'
<1>1. run[t] \in Run /\ (run[t].step # "idle" => run[t].price \in Cents)
      /\ run[t].tier \in Tier /\ run[t].mandate \in Mandate \cup {Null}
  BY DEF TypeOK, Run, Running
<1>2. CASE Fail(t)
  <2>1. Idle \in Run /\ Idle.step = "idle"
    BY DEF Idle, Run, Step, Tier
  <2>2. run' \in [Thing -> Run] /\ \A u \in Thing : Running(u)' => run'[u].price \in Cents
    BY <1>2, <2>1, RunIsTyped DEF Fail
  <2> QED
    BY <1>2, <2>2 DEF Fail, TypeOK, FloorIsSet, OnWizard, server, history
<1>3. CASE Created(t) \/ Prepared(t)
  <2>1. PICK step \in {"prepare", "validate"} : run' = [run EXCEPT ![t].step = step]
    BY <1>3 DEF Created, Prepared
  <2> DEFINE r == [run[t] EXCEPT !.step = step]
  <2>2. r \in Run /\ r.price = run[t].price
    BY <1>1 DEF Run, Step
  <2>3. run[t].price \in Cents
    BY <1>1, <1>3 DEF Created, Prepared
  <2>4. run' = [run EXCEPT ![t] = r]
    BY <2>1 DEF TypeOK
  <2> HIDE DEF r
  <2>5. run' \in [Thing -> Run] /\ \A u \in Thing : Running(u)' => run'[u].price \in Cents
    BY <2>2, <2>3, <2>4, RunIsTyped
  <2>6. pending' \in Pending
    BY <1>1, <1>3, <2>3 DEF Created, Prepared, Pending
  <2>7. listing' \in [Thing -> {"none", "created", "queued", "cancelled"}]
    BY <1>3 DEF Created, Prepared, TypeOK, server
  <2> QED
    BY <1>3, <2>5, <2>6, <2>7 DEF Created, Prepared, TypeOK, FloorIsSet, OnWizard, server,
       history
<1>4. CASE Debited(t)
  BY <1>4 DEF Debited, TypeOK, FloorIsSet, OnWizard, Running, history
<1>5. CASE Validated(t)
  <2>1. CASE Ended(t)
    BY <1>5, <2>1, EndedIsTyped DEF Validated, server
  <2>2. CASE /\ run[t].tier = "PREMIUM" /\ draft.prixMini # Null
             /\ run' = [run EXCEPT ![t].step = "mission", ![t].mandate = Drawn(t)]
             /\ UNCHANGED <<draft, form, screen, pending, published, owner>>
    <3>1. run[t].price \in Cents
      BY <1>1, <1>5 DEF Validated
    <3>2. TermsOf(draft) \in Terms
      BY <2>2 DEF TypeOK, TermsOf, Draft, Terms
    <3>3. Drawn(t) \in Mandate
      BY <3>1, <3>2 DEF Drawn, Mandate
    <3> DEFINE r == [run[t] EXCEPT !.step = "mission", !.mandate = Drawn(t)]
    <3>4. r \in Run /\ r.price = run[t].price
      BY <1>1, <3>3 DEF Run, Step
    <3>5. run' = [run EXCEPT ![t] = r]
      BY <2>2 DEF TypeOK
    <3> HIDE DEF r
    <3>6. run' \in [Thing -> Run] /\ \A u \in Thing : Running(u)' => run'[u].price \in Cents
      BY <3>1, <3>4, <3>5, RunIsTyped
    <3> QED
      BY <1>5, <2>2, <3>6 DEF Validated, TypeOK, FloorIsSet, OnWizard, server
  <2> QED
    BY <1>5, <2>1, <2>2 DEF Validated
<1>6. CASE CreateMission(t)
  <2>1. mission' = [mission EXCEPT ![t] = run[t].mandate]
    BY <1>6 DEF CreateMission
  <2>2. mission' \in [Thing -> Mandate \cup {Null}]
    BY <1>1, <2>1 DEF TypeOK
  <2> QED
    BY <1>6, <2>2 DEF CreateMission, TypeOK, FloorIsSet, OnWizard, Running, history
<1>7. CASE MissionCreated(t)
  BY <1>7, EndedIsTyped DEF MissionCreated, server
<1> QED
  BY <1>2, <1>3, <1>4, <1>5, <1>6, <1>7

\* Every action.
LEMMA NextByKind ==
    Next => \/ \E t \in Thing : OpenCard(t)
            \/ Reopen \/ Leave \/ Press
            \/ \E p \in Price : EditPrice(p)
            \/ \E tier \in Tier : SetTier(tier)
            \/ WizardStep \/ ConfirmRecap \/ Confirmed \/ Publish \/ Kill
            \/ \E t \in Thing : \/ Fail(t) \/ Created(t) \/ Prepared(t) \/ Debited(t)
                                \/ Validated(t) \/ CreateMission(t) \/ MissionCreated(t)
BY DEF Next, WizardStep

LEMMA NextTyped == TypeOK /\ FloorIsSet /\ [Next]_vars => TypeOK' /\ FloorIsSet'
<1> SUFFICES ASSUME TypeOK, FloorIsSet, [Next]_vars
             PROVE  TypeOK' /\ FloorIsSet'
  OBVIOUS
<1>1. CASE Next
  BY <1>1, NextByKind, FormIsTyped, FormKeepsFloor, WizardIsTyped, PublishIsTyped,
     StepsAreTyped
<1>2. CASE UNCHANGED vars
  BY <1>2 DEF vars, TypeOK, FloorIsSet, OnWizard, Running
<1> QED
  BY <1>1, <1>2

-----------------------------------------------------------------------------
(* The mandate, if the seller waits for a publication to end.               *)

LEMMA InitWaited == Init => Waited
<1> SUFFICES ASSUME Init
             PROVE  Waited
  OBVIOUS
<1>1. /\ \A t \in Thing : ~Running(t) /\ mission[t] = Null
      /\ pending = Null /\ form = Null /\ screen.at = "home" /\ published = {}
      /\ draft.confirmed = FALSE
  BY ScreensAreTyped, BlankIsDraft DEF Init, Running, Idle
<1> QED
  BY <1>1 DEF Waited, RunIsShown, AlertIsFresh, WizardIsFirst, ConfirmedIsSettled, OnWizard,
     PendingIsSettled, FormIsTaken, MissionIsKept, PremiumIsKept

\* Where nothing is shown nothing runs.
LEMMA NothingShownNothingRuns == Waited /\ form = Null => Quiet
BY DEF Waited, RunIsShown, Quiet

\* The ready cards: a new form starts with a blank mandate.
LEMMA OpenKeepsWaited ==
    ASSUME TypeOK, Waited, NEW t \in Thing, OpenCard(t)
    PROVE  Waited'
<1>1. /\ form = Null /\ t \in cards /\ cards' = cards \ {t} /\ pending' = Null
      /\ form' = [thing |-> t, price |-> Haut[t], tier |-> "SIMPLE"]
      /\ screen' = OnForm /\ draft' = Blank /\ owner' = Null
      /\ UNCHANGED <<run, mission, published, agreed, kills>>
  BY DEF OpenCard, Mounted, history
<1>2. form' # Null /\ form'.thing = t /\ form'.tier = "SIMPLE"
  <2>1. form' \in Form
    BY <1>1, CentsAreNumbers DEF Form, Tier
  <2> QED
    BY <1>1, <2>1, NullAssumption
<1>3. screen'.at = "form" /\ draft'.confirmed = FALSE
  BY <1>1, ScreensAreTyped, BlankIsDraft
<1>4. RunIsShown'
  BY <1>1, NothingShownNothingRuns DEF RunIsShown, Quiet, Running
<1>5. AlertIsFresh' /\ WizardIsFirst' /\ ConfirmedIsSettled'
  BY <1>3 DEF AlertIsFresh, WizardIsFirst, ConfirmedIsSettled, OnWizard
<1>6. PendingIsSettled' /\ FormIsTaken'
  BY <1>1, <1>2 DEF PendingIsSettled, FormIsTaken
<1>7. MissionIsKept' /\ PremiumIsKept'
  BY <1>1, <1>2 DEF Waited, MissionIsKept, PremiumIsKept
<1> QED
  BY <1>4, <1>5, <1>6, <1>7 DEF Waited

LEMMA ReopenKeepsWaited ==
    ASSUME TypeOK, Waited, Reopen
    PROVE  Waited'
<1>1. /\ form = Null /\ pending # Null /\ form' = pending /\ screen' = OnForm
      /\ UNCHANGED <<draft, owner, cards, pending, run, mission, published, agreed, kills>>
  BY DEF Reopen, Mounted, history, server
<1>2. screen'.at = "form" /\ Quiet
  BY <1>1, ScreensAreTyped, NothingShownNothingRuns
<1>3. ~draft.confirmed
  BY <1>1, ScreensAreTyped DEF Waited, ConfirmedIsSettled
<1>4. RunIsShown'
  BY <1>1, <1>2 DEF RunIsShown, Quiet, Running
<1>5. AlertIsFresh' /\ WizardIsFirst' /\ ConfirmedIsSettled'
  BY <1>1, <1>2, <1>3 DEF AlertIsFresh, WizardIsFirst, ConfirmedIsSettled, OnWizard
<1>6. PendingIsSettled' /\ FormIsTaken'
  BY <1>1 DEF Waited, PendingIsSettled, FormIsTaken, Settled, TermsOf
<1>7. MissionIsKept' /\ PremiumIsKept'
  BY <1>1 DEF Waited, MissionIsKept, PremiumIsKept
<1> QED
  BY <1>4, <1>5, <1>6, <1>7 DEF Waited

\* What the form does to itself, as nothing runs or only its price changes.
LEMMA RestedKeepsWaited ==
    ASSUME TypeOK, Waited, hurries' = 0,
           \/ Leave
           \/ \E p \in Price : EditPrice(p)
           \/ \E tier \in Tier : SetTier(tier)
    PROVE  Waited'
<1>1. /\ screen = OnForm /\ screen.at = "form" /\ ~draft.confirmed
      /\ form \in Form /\ form # Null
      /\ UNCHANGED <<draft, owner, cards, pending, run, mission, published, agreed, kills>>
  BY ScreensAreTyped DEF Leave, EditPrice, SetTier, Rested, history, server, TypeOK
<1>2. CASE Leave
  <2>1. form' = Null /\ screen' = Home /\ ~Running(form.thing)
    BY <1>2 DEF Leave, Hurries, TypeOK
  <2>2. Quiet
    BY <2>1 DEF Waited, RunIsShown, Quiet
  <2>3. screen'.at = "home"
    BY <2>1, ScreensAreTyped
  <2>4. RunIsShown'
    BY <1>1, <2>2 DEF RunIsShown, Quiet, Running
  <2>5. AlertIsFresh' /\ WizardIsFirst' /\ ConfirmedIsSettled'
    BY <1>1, <2>3 DEF AlertIsFresh, WizardIsFirst, ConfirmedIsSettled, OnWizard
  <2>6. PendingIsSettled' /\ FormIsTaken'
    BY <1>1, <2>1 DEF Waited, PendingIsSettled, FormIsTaken, Settled, TermsOf
  <2>7. MissionIsKept' /\ PremiumIsKept'
    BY <1>1, <2>1 DEF Waited, MissionIsKept, PremiumIsKept
  <2> QED
    BY <2>4, <2>5, <2>6, <2>7 DEF Waited
<1>3. ASSUME form' # Null, form'.thing = form.thing, screen' = screen,
             \/ form'.tier = form.tier
             \/ pending = Null /\ Quiet
      PROVE  Waited'
  <2>1. RunIsShown'
    BY <1>1, <1>3 DEF Waited, RunIsShown, Quiet, Running, Settled, TermsOf
  <2>2. AlertIsFresh' /\ WizardIsFirst' /\ ConfirmedIsSettled'
    BY <1>1, <1>3 DEF AlertIsFresh, WizardIsFirst, ConfirmedIsSettled, OnWizard
  <2>3. PendingIsSettled' /\ FormIsTaken'
    BY <1>1, <1>3 DEF Waited, PendingIsSettled, FormIsTaken, Settled, TermsOf
  <2>4. MissionIsKept' /\ PremiumIsKept'
    BY <1>1, <1>3 DEF Waited, MissionIsKept, PremiumIsKept
  <2> QED
    BY <2>1, <2>2, <2>3, <2>4 DEF Waited
<1>4. CASE \E p \in Price : EditPrice(p)
  <2>1. PICK p \in Price : form' = [form EXCEPT !.price = p] /\ screen' = screen
    BY <1>4 DEF EditPrice
  <2>2. form' \in Form /\ form'.thing = form.thing /\ form'.tier = form.tier
    BY <1>1, <2>1, CentsAreNumbers DEF Form
  <2> QED
    BY <1>3, <2>1, <2>2, NullAssumption
<1>5. CASE \E tier \in Tier : SetTier(tier)
  <2>1. PICK tier \in Tier : /\ form' = [form EXCEPT !.tier = tier] /\ screen' = screen
                             /\ pending = Null /\ Hurries(Running(form.thing))
    BY <1>5 DEF SetTier
  <2>2. form' \in Form /\ form'.thing = form.thing
    BY <1>1, <2>1 DEF Form
  <2>3. ~Running(form.thing)
    BY <2>1 DEF Hurries, TypeOK
  <2>4. Quiet
    BY <2>3 DEF Waited, RunIsShown, Quiet
  <2> QED
    BY <1>3, <2>1, <2>2, <2>4, NullAssumption
<1> QED
  BY <1>2, <1>4, <1>5

\* The press of the button: the mandate is settled if it is not still to be drawn.
LEMMA PressKeepsWaited ==
    ASSUME TypeOK, Waited, Press
    PROVE  Waited'
<1>1. /\ screen = OnForm /\ screen.at = "form" /\ ~draft.confirmed /\ ~Running(form.thing)
      /\ form \in Form /\ form # Null
      /\ UNCHANGED <<draft, owner, cards, form, pending, run, mission, published, agreed, kills>>
  BY ScreensAreTyped DEF Press, Rested, history, server, TypeOK
<1>2. Quiet
  BY <1>1 DEF Waited, RunIsShown, Quiet
<1>3. RunIsShown'
  BY <1>1, <1>2 DEF RunIsShown, Quiet, Running
<1>4. \/ pending = Null /\ screen'.at = "posture"
      \/ /\ screen'.at = "alert" /\ screen'.resume = pending
         /\ pending # Null \/ form.tier # "PREMIUM"
  BY <1>1 DEF Press, At, Alert
<1>5. AlertIsFresh'
  BY <1>1, <1>2, <1>4 DEF Waited, PendingIsSettled, AlertIsFresh, Quiet, Running, Settled,
     TermsOf
<1>6. WizardIsFirst' /\ ConfirmedIsSettled'
  BY <1>1, <1>2, <1>4 DEF WizardIsFirst, ConfirmedIsSettled, OnWizard, Quiet, Running
<1>7. PendingIsSettled' /\ FormIsTaken' /\ MissionIsKept' /\ PremiumIsKept'
  BY <1>1 DEF Waited, PendingIsSettled, FormIsTaken, MissionIsKept, PremiumIsKept, Settled,
     TermsOf
<1> QED
  BY <1>3, <1>5, <1>6, <1>7 DEF Waited

\* The wizard writes the store while no publication needs it.
LEMMA WizardKeepsWaited ==
    ASSUME TypeOK, FloorIsSet, Waited, WizardStep
    PROVE  Waited'
<1>1. /\ draft'.confirmed = draft.confirmed /\ owner' \in {owner, form.thing}
      /\ UNCHANGED <<cards, form, pending, run, mission, published, agreed, kills>>
      /\ OnWizard \/ screen.at = "alert"
      /\ \/ OnWizard' /\ OnWizard
         \/ screen' = OnForm /\ draft' = draft /\ owner' = owner
  BY WizardWrites
<1>2. /\ Quiet /\ ~draft.confirmed /\ form # Null
      /\ OnWizard => pending = Null
  BY <1>1 DEF Waited, AlertIsFresh, WizardIsFirst, TypeOK, OnWizard
<1>3. RunIsShown'
  BY <1>1, <1>2 DEF RunIsShown, Quiet, Running
<1>4. AlertIsFresh' /\ WizardIsFirst' /\ ConfirmedIsSettled'
  BY <1>1, <1>2, ScreensAreTyped DEF AlertIsFresh, WizardIsFirst, ConfirmedIsSettled, OnWizard,
     Quiet, Running
<1>5. PendingIsSettled'
  BY <1>1, <1>2 DEF Waited, PendingIsSettled, Settled, TermsOf
<1>6. FormIsTaken' /\ MissionIsKept' /\ PremiumIsKept'
  BY <1>1, <1>2 DEF Waited, FormIsTaken, MissionIsKept, PremiumIsKept
<1> QED
  BY <1>3, <1>4, <1>5, <1>6 DEF Waited

\* What is confirmed becomes the terms agreed, of a thing that has no mission yet.
LEMMA ConfirmKeepsWaited ==
    ASSUME TypeOK, FloorIsSet, Waited, ConfirmRecap
    PROVE  Waited'
<1>1. /\ screen.at = "recap" /\ OnWizard /\ form \in Form /\ form # Null
      /\ form.thing \in Thing /\ draft.prixMini # Null
      /\ draft' = [draft EXCEPT !.confirmed = TRUE]
      /\ agreed' = [agreed EXCEPT ![form.thing] = TermsOf(draft)]
      /\ screen' = OnForm
      /\ UNCHANGED <<cards, form, pending, run, mission, published, kills, owner>>
  BY DEF ConfirmRecap, TypeOK, FloorIsSet, OnWizard, Form, server
<1>2. pending = Null /\ Quiet
  BY <1>1 DEF Waited, WizardIsFirst
<1>3. agreed'[form.thing] = TermsOf(draft)
      /\ \A t \in Thing \ {form.thing} : agreed'[t] = agreed[t]
  BY <1>1 DEF TypeOK
<1>4. /\ draft'.prixMini = draft.prixMini /\ TermsOf(draft)' = TermsOf(draft)
  BY <1>1 DEF TypeOK, Draft, TermsOf
<1>5. mission[form.thing] = Null
  BY <1>1, <1>2 DEF Waited, MissionIsKept
<1>6. RunIsShown'
  BY <1>1, <1>2 DEF RunIsShown, Quiet, Running
<1>7. screen'.at = "form"
  BY <1>1, ScreensAreTyped
<1>8. AlertIsFresh' /\ WizardIsFirst'
  BY <1>7 DEF AlertIsFresh, WizardIsFirst, OnWizard
<1>9. ConfirmedIsSettled'
  BY <1>1, <1>2, <1>3, <1>4 DEF ConfirmedIsSettled, Settled, Quiet, Running
<1>10. PendingIsSettled' /\ FormIsTaken'
  BY <1>1, <1>2 DEF Waited, PendingIsSettled, FormIsTaken
<1>11. MissionIsKept' /\ PremiumIsKept'
  BY <1>1, <1>3, <1>5 DEF Waited, MissionIsKept, PremiumIsKept
<1> QED
  BY <1>6, <1>8, <1>9, <1>10, <1>11 DEF Waited

LEMMA ConfirmedKeepsWaited ==
    ASSUME TypeOK, Waited, Confirmed
    PROVE  Waited'
<1>1. /\ screen = OnForm /\ draft.confirmed
      /\ draft' = [draft EXCEPT !.confirmed = FALSE]
      /\ screen' = IF form.tier = "PREMIUM" THEN Alert ELSE screen
      /\ UNCHANGED <<cards, form, pending, run, mission, published, agreed, kills, owner>>
  BY DEF Confirmed, server, history
<1>2. pending = Null /\ Quiet /\ Settled(form.thing)
  BY <1>1 DEF Waited, ConfirmedIsSettled
<1>3. /\ draft'.prixMini = draft.prixMini /\ TermsOf(draft)' = TermsOf(draft)
      /\ draft'.confirmed = FALSE
  BY <1>1 DEF TypeOK, Draft, TermsOf
<1>4. RunIsShown'
  BY <1>1, <1>2 DEF RunIsShown, Quiet, Running
<1>5. \/ screen'.at = "form"
      \/ screen'.at = "alert" /\ screen'.resume = pending
  BY <1>1, ScreensAreTyped DEF Alert
<1>6. AlertIsFresh' /\ WizardIsFirst' /\ ConfirmedIsSettled'
  BY <1>1, <1>2, <1>3, <1>5 DEF AlertIsFresh, WizardIsFirst, ConfirmedIsSettled, OnWizard,
     Settled, Quiet, Running
<1>7. PendingIsSettled' /\ FormIsTaken' /\ MissionIsKept' /\ PremiumIsKept'
  BY <1>1, <1>2 DEF Waited, PendingIsSettled, FormIsTaken, MissionIsKept, PremiumIsKept
<1> QED
  BY <1>4, <1>6, <1>7 DEF Waited

LEMMA PublishKeepsWaited ==
    ASSUME TypeOK, Waited, Publish
    PROVE  Waited'
<1> DEFINE r == [step |-> IF screen.resume = Null THEN "create" ELSE "prepare",
                 price |-> form.price, tier |-> form.tier, mandate |-> Null]
<1>1. /\ screen.at = "alert" /\ form \in Form /\ form # Null /\ form.thing \in Thing
      /\ run' = [run EXCEPT ![form.thing] = r] /\ screen' = OnForm
      /\ UNCHANGED <<draft, cards, form, pending, mission, published, agreed, kills, owner>>
  BY DEF Publish, TypeOK, Form, server, history
<1>2. /\ screen.resume = pending /\ Quiet /\ ~draft.confirmed
      /\ form.tier = "PREMIUM" => Settled(form.thing)
  BY <1>1 DEF Waited, AlertIsFresh
<1>3. /\ r.tier = form.tier /\ r.step \in {"create", "prepare"}
      /\ r.step = "prepare" => pending # Null /\ pending.thing = form.thing
  BY <1>1, <1>2 DEF Waited, PendingIsSettled
<1> HIDE DEF r
<1>4. run'[form.thing] = r /\ \A u \in Thing \ {form.thing} : ~Running(u)'
  BY <1>1, <1>2 DEF TypeOK, Quiet, Running
<1>5. RunIsShown'
  BY <1>1, <1>2, <1>3, <1>4 DEF RunIsShown, Settled, TermsOf
<1>6. AlertIsFresh' /\ WizardIsFirst' /\ ConfirmedIsSettled'
  BY <1>1, <1>2, ScreensAreTyped DEF AlertIsFresh, WizardIsFirst, ConfirmedIsSettled, OnWizard
<1>7. PendingIsSettled' /\ FormIsTaken' /\ MissionIsKept' /\ PremiumIsKept'
  BY <1>1 DEF Waited, PendingIsSettled, FormIsTaken, MissionIsKept, PremiumIsKept, Settled,
     TermsOf
<1> QED
  BY <1>5, <1>6, <1>7 DEF Waited

\* A kill empties the store, and a publication taken up then has no mandate.
LEMMA KillKeepsWaited ==
    ASSUME TypeOK, Waited, Kill
    PROVE  Waited'
<1>1. /\ kills' # 0 /\ draft' = Blank /\ owner' = Null /\ form' = Null /\ screen' = Home
      /\ run' = [t \in Thing |-> Idle]
      /\ UNCHANGED <<cards, pending, mission, published, agreed>>
  BY MandateAssumption DEF Kill, TypeOK, server
<1>2. draft'.prixMini = Null /\ draft'.confirmed = FALSE /\ screen'.at = "home"
  BY <1>1, BlankIsDraft, ScreensAreTyped
<1>3. RunIsShown'
  BY <1>1 DEF RunIsShown, Running, Idle
<1>4. AlertIsFresh' /\ WizardIsFirst' /\ ConfirmedIsSettled'
  BY <1>2 DEF AlertIsFresh, WizardIsFirst, ConfirmedIsSettled, OnWizard
<1>5. PendingIsSettled' /\ FormIsTaken'
  BY <1>1, <1>2 DEF Waited, PendingIsSettled, FormIsTaken, Settled
<1>6. MissionIsKept' /\ PremiumIsKept'
  BY <1>1 DEF Waited, MissionIsKept, PremiumIsKept
<1> QED
  BY <1>3, <1>4, <1>5, <1>6 DEF Waited

\* The steps of publish() that go on, and its failure, change the run of one thing,
\* and what is recorded of it.
LEMMA StepKeepsWaited ==
    ASSUME TypeOK, Waited, NEW t \in Thing, Running(t), pending' # Null,
           pending'.thing = t \/ pending' = pending,
           \/ pending' = pending
           \/ pending' = [thing |-> t, price |-> run[t].price, tier |-> run[t].tier],
           NEW r \in Run, run' = [run EXCEPT ![t] = r],
           \/ r.step = "idle"
           \/ r.tier = run[t].tier /\ pending'.thing = t,
           r.step = "mission" => r.mandate # Null /\ r.mandate.terms = agreed[t],
           UNCHANGED <<draft, owner, cards, form, screen, mission, published, agreed, kills>>
    PROVE  Waited'
<1>1. /\ form # Null /\ form.thing = t /\ screen = OnForm /\ ~draft.confirmed
      /\ run[t].tier = form.tier
      /\ form.tier = "PREMIUM" => Settled(t)
      /\ \A u \in Thing : Running(u) => u = t
  BY DEF Waited, RunIsShown
<1>2. screen.at = "form"
  BY <1>1, ScreensAreTyped
<1>3. run'[t] = r /\ \A u \in Thing \ {t} : ~Running(u)'
  BY <1>1 DEF TypeOK, Running
<1>4. RunIsShown'
  BY <1>1, <1>3 DEF RunIsShown, Running, Settled, TermsOf
<1>5. AlertIsFresh' /\ WizardIsFirst' /\ ConfirmedIsSettled'
  BY <1>1, <1>2 DEF AlertIsFresh, WizardIsFirst, ConfirmedIsSettled, OnWizard
<1>6. FormIsTaken' /\ PremiumIsKept'
  BY DEF Waited, FormIsTaken, PremiumIsKept
<1>7. PendingIsSettled'
  <2>1. CASE pending' = pending
    BY <2>1 DEF Waited, PendingIsSettled, Settled, TermsOf
  <2>2. CASE pending' = [thing |-> t, price |-> run[t].price, tier |-> run[t].tier]
    <3>1. pending'.thing = t /\ pending'.tier = form.tier
      BY <1>1, <2>2
    <3>2. t \notin cards /\ owner \in {t, Null}
      BY <1>1 DEF Waited, FormIsTaken
    <3> QED
      BY <1>1, <3>1, <3>2 DEF PendingIsSettled, Settled, TermsOf
  <2> QED
    BY <2>1, <2>2
<1>8. MissionIsKept'
  BY DEF Waited, MissionIsKept
<1> QED
  BY <1>4, <1>5, <1>6, <1>7, <1>8 DEF Waited

LEMMA FailKeepsWaited ==
    ASSUME TypeOK, Waited, NEW t \in Thing, Fail(t)
    PROVE  Waited'
<1>1. /\ Running(t) /\ run' = [run EXCEPT ![t] = Idle]
      /\ UNCHANGED <<draft, owner, cards, form, screen, pending, mission, published, agreed,
                     kills>>
  BY DEF Fail, server, history
<1>2. /\ form # Null /\ form.thing = t /\ screen = OnForm /\ ~draft.confirmed
      /\ \A u \in Thing : Running(u) => u = t
  BY <1>1 DEF Waited, RunIsShown
<1>3. \A u \in Thing : ~Running(u)'
  BY <1>1, <1>2 DEF TypeOK, Running, Idle
<1>4. screen.at = "form"
  BY <1>2, ScreensAreTyped
<1>5. RunIsShown'
  BY <1>3 DEF RunIsShown
<1>6. AlertIsFresh' /\ WizardIsFirst' /\ ConfirmedIsSettled'
  BY <1>1, <1>2, <1>4 DEF AlertIsFresh, WizardIsFirst, ConfirmedIsSettled, OnWizard
<1>7. PendingIsSettled' /\ FormIsTaken' /\ MissionIsKept' /\ PremiumIsKept'
  BY <1>1 DEF Waited, PendingIsSettled, FormIsTaken, MissionIsKept, PremiumIsKept, Settled,
     TermsOf
<1> QED
  BY <1>5, <1>6, <1>7 DEF Waited

LEMMA RecordedKeepsWaited ==
    ASSUME TypeOK, Waited, NEW t \in Thing, Created(t) \/ Prepared(t)
    PROVE  Waited'
<1>1. PICK step \in {"prepare", "validate"} : run' = [run EXCEPT ![t].step = step]
  BY DEF Created, Prepared
<1>2. /\ run[t].step \in {"create", "prepare"} /\ Running(t) /\ run[t] \in Run
      /\ pending' = [thing |-> t, price |-> run[t].price, tier |-> run[t].tier]
      /\ UNCHANGED <<draft, owner, cards, form, screen, mission, published, agreed, kills>>
  BY DEF Created, Prepared, Running, history, server, TypeOK
<1>3. pending'.thing = t /\ pending' # Null
  <2>1. run[t].price \in Cents /\ run[t].tier \in Tier
    BY <1>2 DEF TypeOK, Run
  <2>2. pending' \in Pending
    BY <1>2, <2>1 DEF Pending
  <2> QED
    BY <1>2, <2>2, NullAssumption
<1> DEFINE q == [run[t] EXCEPT !.step = step]
<1>4. q \in Run /\ q.step = step /\ q.tier = run[t].tier /\ run' = [run EXCEPT ![t] = q]
  BY <1>1, <1>2 DEF Run, Step, TypeOK
<1> HIDE DEF q
<1>5. PICK r \in Run : r = q
  BY <1>4
<1> QED
  BY <1>2, <1>3, <1>4, <1>5, StepKeepsWaited

LEMMA MissionKeepsWaited ==
    ASSUME TypeOK, Waited, NEW t \in Thing, CreateMission(t)
    PROVE  Waited'
<1>1. /\ run[t].step = "mission" /\ Running(t)
      /\ mission' = [mission EXCEPT ![t] = run[t].mandate]
      /\ UNCHANGED <<draft, owner, cards, form, screen, pending, run, published, agreed, kills>>
  BY DEF CreateMission, Running, history
<1>2. /\ form # Null /\ form.thing = t /\ pending # Null /\ pending.thing = t
      /\ run[t].mandate # Null /\ run[t].mandate.terms = agreed[t]
  BY <1>1 DEF Waited, RunIsShown
<1>3. t \notin cards
  BY <1>2 DEF Waited, PendingIsSettled
<1>4. mission'[t] = run[t].mandate /\ \A u \in Thing \ {t} : mission'[u] = mission[u]
  BY <1>1 DEF TypeOK
<1>5. MissionIsKept'
  BY <1>1, <1>2, <1>3, <1>4 DEF Waited, MissionIsKept
<1>6. PremiumIsKept'
  BY <1>1, <1>2, <1>4 DEF Waited, PremiumIsKept, TypeOK
<1>7. RunIsShown' /\ AlertIsFresh' /\ WizardIsFirst' /\ ConfirmedIsSettled'
      /\ PendingIsSettled' /\ FormIsTaken'
  BY <1>1 DEF Waited, RunIsShown, AlertIsFresh, WizardIsFirst, ConfirmedIsSettled,
     PendingIsSettled, FormIsTaken, OnWizard, Quiet, Running, Settled, TermsOf
<1> QED
  BY <1>5, <1>6, <1>7 DEF Waited

\* The end of a publication: a Premium one has its mission, or a kill took its mandate.
LEMMA EndedKeepsWaited ==
    ASSUME TypeOK, Waited, NEW t \in Thing, Running(t), run[t].step # "create", Ended(t),
           kills = 0 /\ run[t].tier = "PREMIUM" => mission[t] # Null,
           UNCHANGED <<cards, mission, agreed, kills>>
    PROVE  Waited'
<1>1. /\ pending' = Null /\ form' = Null /\ screen'.at = "home" /\ draft'.confirmed = FALSE
      /\ run' = [run EXCEPT ![t] = Idle]
      /\ published' = published \cup {[thing |-> t, tier |-> run[t].tier]}
  BY BlankIsDraft, ScreensAreTyped DEF Ended
<1>2. \A u \in Thing : ~Running(u)'
  <2>1. \A u \in Thing : Running(u) => u = t
    BY DEF Waited, RunIsShown
  <2> QED
    BY <1>1, <2>1 DEF TypeOK, Running, Idle
<1>3. RunIsShown'
  BY <1>2 DEF RunIsShown
<1>4. AlertIsFresh' /\ WizardIsFirst' /\ ConfirmedIsSettled' /\ PendingIsSettled' /\ FormIsTaken'
  BY <1>1 DEF AlertIsFresh, WizardIsFirst, ConfirmedIsSettled, OnWizard, PendingIsSettled,
     FormIsTaken
<1>5. MissionIsKept'
  BY <1>1 DEF Waited, MissionIsKept
<1>6. PremiumIsKept'
  BY <1>1 DEF Waited, PremiumIsKept
<1> QED
  BY <1>3, <1>4, <1>5, <1>6 DEF Waited

LEMMA ValidatedKeepsWaited ==
    ASSUME TypeOK, Waited, NEW t \in Thing, Validated(t)
    PROVE  Waited'
<1>1. /\ run[t].step = "validate" /\ Running(t) /\ run[t] \in Run
      /\ UNCHANGED <<cards, mission, agreed, kills>>
  BY DEF Validated, Running, server, TypeOK
<1>2. /\ form # Null /\ form.thing = t /\ pending # Null /\ pending.thing = t
      /\ run[t].tier = "PREMIUM" => Settled(t)
  BY <1>1 DEF Waited, RunIsShown
<1>3. CASE /\ run[t].tier = "PREMIUM" /\ draft.prixMini # Null
           /\ run' = [run EXCEPT ![t].step = "mission", ![t].mandate = Drawn(t)]
           /\ UNCHANGED <<draft, form, screen, pending, published, owner>>
  <2>1. run[t].price \in Cents /\ draft \in Draft
    BY <1>1 DEF TypeOK
  <2>2. TermsOf(draft) \in Terms
    BY <1>3, <2>1 DEF TermsOf, Draft, Terms
  <2>3. Drawn(t) \in Mandate /\ Drawn(t) # Null /\ Drawn(t).terms = TermsOf(draft)
    BY <2>1, <2>2, NullAssumption DEF Drawn, Mandate
  <2>4. TermsOf(draft) = agreed[t]
    BY <1>2, <1>3 DEF Settled
  <2> DEFINE q == [run[t] EXCEPT !.step = "mission", !.mandate = Drawn(t)]
  <2>5. q \in Run /\ q.tier = run[t].tier /\ q.mandate = Drawn(t) /\ q.step = "mission"
        /\ run' = [run EXCEPT ![t] = q]
    BY <1>1, <1>3, <2>3 DEF Run, Step, TypeOK
  <2> HIDE DEF q
  <2>6. PICK r \in Run : r = q
    BY <2>5
  <2> QED
    BY <1>1, <1>2, <1>3, <2>3, <2>4, <2>5, <2>6, StepKeepsWaited
<1>4. CASE Ended(t) /\ (run[t].tier # "PREMIUM" \/ draft.prixMini = Null)
  <2>1. ~(kills = 0 /\ run[t].tier = "PREMIUM")
    BY <1>2, <1>4 DEF Settled
  <2> QED
    BY <1>1, <1>4, <2>1, EndedKeepsWaited
<1> QED
  BY <1>3, <1>4 DEF Validated

LEMMA NextWaited ==
    ASSUME TypeOK, FloorIsSet, hurries = 0 => Waited, [Next]_vars
    PROVE  hurries' = 0 => Waited'
<1> SUFFICES ASSUME hurries' = 0
             PROVE  Waited'
  OBVIOUS
<1>1. CASE Next
  <2>1. hurries = 0 /\ Waited
    <3>1. hurries \in Nat
      BY DEF TypeOK
    <3>2. hurries' \in {hurries, hurries + 1}
      BY <1>1 DEF Next, OpenCard, Fail, Created, Prepared, Debited, Validated, CreateMission,
         MissionCreated, Reopen, Leave, Press, Back, ConfirmRecap, Confirmed, Publish, Kill,
         ContinuePosture, OpenCustomize, ContinueCustomize, EditPrice, ContinuePrice, SetTier,
         SetPosture, SetObjectif, SetOptions, Hurries
    <3> QED
      BY <3>1, <3>2
  <2>2. ASSUME NEW t \in Thing, Debited(t)
        PROVE  Waited'
    <3>1. UNCHANGED <<draft, owner, cards, form, screen, pending, run, mission, published,
                      agreed, kills>>
      BY <2>2 DEF Debited, history
    <3> QED
      BY <2>1, <3>1 DEF Waited, RunIsShown, AlertIsFresh, WizardIsFirst, ConfirmedIsSettled,
         PendingIsSettled, FormIsTaken, MissionIsKept, PremiumIsKept, OnWizard, Quiet, Running,
         Settled, TermsOf
  <2>3. ASSUME NEW t \in Thing, MissionCreated(t)
        PROVE  Waited'
    <3>1. /\ Running(t) /\ run[t].step # "create" /\ Ended(t) /\ mission[t] # Null
          /\ UNCHANGED <<cards, mission, agreed, kills>>
      BY <2>3 DEF MissionCreated, Running, server
    <3> QED
      BY <2>1, <3>1, EndedKeepsWaited
  <2> QED
    BY <1>1, <2>1, <2>2, <2>3, NextByKind, OpenKeepsWaited, ReopenKeepsWaited,
       RestedKeepsWaited, PressKeepsWaited, WizardKeepsWaited, ConfirmKeepsWaited,
       ConfirmedKeepsWaited, PublishKeepsWaited, KillKeepsWaited, FailKeepsWaited,
       RecordedKeepsWaited, ValidatedKeepsWaited, MissionKeepsWaited
<1>2. CASE UNCHANGED vars
  BY <1>2 DEF vars, Waited, RunIsShown, AlertIsFresh, WizardIsFirst, ConfirmedIsSettled,
     PendingIsSettled, FormIsTaken, MissionIsKept, PremiumIsKept, OnWizard, Quiet, Running,
     Settled, TermsOf
<1> QED
  BY <1>1, <1>2

-----------------------------------------------------------------------------
(* The theorems.                                                            *)

\* MandateInv is inductive, for any things, prices, postures, options and kills.
THEOREM MandateInvariant == Spec => []MandateInv
<1>1. Init => MandateInv
  <2>1. Init => FloorIsSet
    BY ScreensAreTyped DEF Init, FloorIsSet
  <2> QED
    BY <2>1, InitTyped, InitWaited DEF MandateInv
<1>2. MandateInv /\ [Next]_vars => MandateInv'
  BY NextTyped, NextWaited DEF MandateInv
<1> QED
  BY <1>1, <1>2, PTL DEF Spec

\* The variables keep their types; the terms agreed have a floor.
THEOREM MandateTypeCorrect == Spec => []TypeOK
<1>1. MandateInv => TypeOK
  BY DEF MandateInv
<1> QED
  BY <1>1, MandateInvariant, PTL

\* publish() reads the store after all of its requests, and what it sends is still what
\* the seller confirmed for that thing on mandate-recap, if they wait for it to end.
THEOREM MissionIsAsConfirmed == Spec => []MissionIsTheMandateConfirmed
<1>1. MandateInv => MissionIsTheMandateConfirmed
  BY DEF MandateInv, Waited, MissionIsKept, MissionIsTheMandateConfirmed
<1> QED
  BY <1>1, MandateInvariant, PTL

\* A Premium publication that ends with success has created its mission, through any
\* failures and resumptions, if the app was not killed.
THEOREM PremiumGetsItsMission == Spec => []PremiumHasItsMission
<1>1. MandateInv => PremiumHasItsMission
  BY DEF MandateInv, Waited, PremiumIsKept, PremiumHasItsMission
<1> QED
  BY <1>1, MandateInvariant, PTL

\* The effect of ValidateForm at its mount: the wizard of a thing never shows what was
\* written for another one.
THEOREM NoMandateIsLeft == Spec => []NoMandateLeaks
<1>1. MandateInv => NoMandateLeaks
  BY DEF MandateInv, Waited, WizardIsFirst, FormIsTaken, NoMandateLeaks, OnWizard, TypeOK
<1> QED
  BY <1>1, MandateInvariant, PTL

-----------------------------------------------------------------------------
(* SignIn.                                                                  *)

LEMMA InitSignIn == SignIn!SignInAssumption /\ SignIn!Init => SignIn!SignInInv
<1> SUFFICES ASSUME SignIn!SignInAssumption, SignIn!Init
             PROVE  SignIn!SignInInv
  OBVIOUS
<1> USE DEF SignIn!SignInAssumption, SignIn!Init, SignIn!NotAsking, SignIn!NotChecking
<1>1. SignIn!TypeOK
  BY DEF SignIn!TypeOK, SignIn!Row, SignIn!Asking, SignIn!Checking
<1>2. SignIn!RequestsAreReal /\ SignIn!LinkIsComing
  BY DEF SignIn!RequestsAreReal, SignIn!LinkIsComing
<1>3. SignIn!OneClaim
  BY DEF SignIn!OneClaim, SignIn!Claims
<1> QED
  BY <1>1, <1>2, <1>3 DEF SignIn!SignInInv
\* The requests that ask for a link.
LEMMA AsksKeepSignIn ==
    ASSUME SignIn!SignInInv, NEW a \in Ask,
           \/ \E e \in Email : SignIn!StartAsk(a, e)
           \/ \E l \in Link : SignIn!CreateLink(a, l)
           \/ SignIn!SendLink(a)
    PROVE  SignIn!SignInInv'
<1> USE DEF SignIn!SignInInv, SignIn!TypeOK, SignIn!RequestsAreReal, SignIn!Row,
            SignIn!Asking, SignIn!NotAsking
<1>1. CASE \E e \in Email : SignIn!StartAsk(a, e)
  <2>1. PICK e \in Email : SignIn!StartAsk(a, e)
    BY <1>1
  <2>2. /\ link' = [l \in Link |-> IF l \in SignIn!Unconsumed(e)
                                   THEN [link[l] EXCEPT !.state = "deleted"] ELSE link[l]]
        /\ ask' = [ask EXCEPT ![a] = [step |-> "create", email |-> e, l |-> NoLink]]
        /\ UNCHANGED <<newest, mailed, check, account, signed, expired, token, call, crashes>>
    BY <2>1 DEF SignIn!StartAsk, SignIn!Without
  <2>3. \A l \in Link : /\ link'[l].email = link[l].email
                        /\ link'[l].state \in {link[l].state, "deleted"}
                        /\ link'[l] # link[l] => /\ l \in SignIn!Unconsumed(e)
                                                 /\ link'[l].state = "deleted"
    BY <2>2
  <2>4. SignIn!TypeOK' /\ SignIn!RequestsAreReal'
    BY <2>2, PhoneAssumption DEF SignIn!Unconsumed, SignIn!SignInAssumption
  <2>5. SignIn!OneClaim'
    BY <2>2, <2>3 DEF SignIn!OneClaim, SignIn!Claims, SignIn!Unconsumed
  <2>6. ask[a].step = "idle" /\ ask'[a].email = e /\ ask'[a].step = "create"
        /\ \A b \in Ask \ {a} : ask'[b] = ask[b]
    BY <2>1, <2>2 DEF SignIn!StartAsk
  <2>7. ASSUME NEW f \in Email \ {e}, NEW l \in Link, link[l].email = f
        PROVE  link'[l] = link[l]
    BY <2>3, <2>7 DEF SignIn!Unconsumed
  <2>8. SignIn!LinkIsComing'
    BY <2>2, <2>3, <2>6, <2>7 DEF SignIn!LinkIsComing, SignIn!NotDeleted
  <2> QED
    BY <2>4, <2>5, <2>8
<1>2. CASE \E l \in Link : SignIn!CreateLink(a, l)
  <2>1. PICK l \in Link : SignIn!CreateLink(a, l)
    BY <1>2
  <2>2. /\ ask[a].step = "create" /\ ask[a].email \in Email /\ link[l].state = "unborn"
        /\ link' = [link EXCEPT ![l] = [state |-> "active", email |-> ask[a].email]]
        /\ newest' = [newest EXCEPT ![ask[a].email] = l]
        /\ ask' = [ask EXCEPT ![a].step = "send", ![a].l = l]
        /\ UNCHANGED <<mailed, check, account, signed, expired, token, call, crashes>>
    BY <2>1 DEF SignIn!CreateLink
  <2>3. /\ link' \in [Link -> SignIn!Row] /\ ask' \in [Ask -> SignIn!Asking]
        /\ link'[l].state = "active" /\ link'[l].email = ask[a].email
        /\ \A k \in Link \ {l} : link'[k] = link[k]
        /\ ask'[a].step = "send" /\ ask'[a].l = l /\ ask'[a].email = ask[a].email
        /\ \A b \in Ask \ {a} : ask'[b] = ask[b]
    BY <2>2
  <2>4. SignIn!TypeOK' /\ SignIn!RequestsAreReal'
    BY <2>2, <2>3, PhoneAssumption DEF SignIn!SignInAssumption
  <2>5. SignIn!OneClaim'
    BY <2>2, <2>3 DEF SignIn!OneClaim, SignIn!Claims
  <2>6. SignIn!LinkIsComing'
    <3>1. ASSUME NEW f \in Email, newest'[f] # NoLink
          PROVE  /\ newest'[f] \in Link /\ link'[newest'[f]].email = f
                 /\ crashes' = 0 => \/ SignIn!NotDeleted(newest[f])'
                                    \/ \E b \in Ask : ask'[b].email = f /\ ask'[b].step = "create"
      <4>1. CASE f = ask[a].email
        BY <2>2, <2>3, <4>1 DEF SignIn!NotDeleted
      <4>2. CASE f # ask[a].email
        <5>1. newest'[f] = newest[f] /\ newest[f] \in Link /\ link[newest[f]].email = f
          BY <2>2, <3>1, <4>2 DEF SignIn!LinkIsComing
        <5>2. newest[f] # l
          BY <2>2, <5>1, PhoneAssumption DEF SignIn!SignInAssumption
        <5>3. link'[newest[f]] = link[newest[f]]
          BY <2>3, <5>1, <5>2
        <5>4. \A b \in Ask : ask[b].email = f => ask'[b] = ask[b]
          BY <2>3, <4>2
        <5>5. crashes' = crashes
          BY <2>2
        <5> QED
          BY <3>1, <5>1, <5>3, <5>4, <5>5 DEF SignIn!LinkIsComing, SignIn!NotDeleted
      <4> QED
        BY <4>1, <4>2
    <3> QED
      BY <3>1 DEF SignIn!LinkIsComing
  <2> QED
    BY <2>4, <2>5, <2>6
<1>3. CASE SignIn!SendLink(a)
  <2>1. SignIn!TypeOK' /\ SignIn!RequestsAreReal'
    BY <1>3 DEF SignIn!SendLink
  <2>2. SignIn!OneClaim' /\ SignIn!LinkIsComing'
    BY <1>3 DEF SignIn!SendLink, SignIn!OneClaim, SignIn!Claims, SignIn!LinkIsComing, SignIn!NotDeleted
  <2> QED
    BY <2>1, <2>2
<1> QED
  BY <1>1, <1>2, <1>3

\* The requests that verify one.
LEMMA ChecksKeepSignIn ==
    ASSUME SignIn!SignInInv, NEW c \in Check,
           \/ \E l \in Link : SignIn!OpenLink(c, l)
           \/ SignIn!FindLink(c) \/ SignIn!Consume(c) \/ SignIn!FindUser(c)
           \/ SignIn!CreateUser(c) \/ SignIn!SignedIn(c)
    PROVE  SignIn!SignInInv'
<1> USE DEF SignIn!Row, SignIn!Checking, SignIn!NotChecking, SignIn!Ends, SignIn!Goes
<1>0. SignIn!TypeOK /\ SignIn!RequestsAreReal /\ SignIn!OneClaim /\ SignIn!LinkIsComing
  BY DEF SignIn!SignInInv
<1>1. CASE \/ \E l \in Link : SignIn!OpenLink(c, l)
           \/ SignIn!FindLink(c) \/ SignIn!SignedIn(c)
  <2>1. /\ UNCHANGED <<link, newest, mailed, ask, account, signed, expired, call, crashes>>
        /\ token' \in {token, check[c].l} /\ (token' # token => check[c].step = "answered")
        /\ \E k \in SignIn!Checking :
             /\ check' = [check EXCEPT ![c] = k]
             /\ k.step \in {"find", "consume", "idle"} /\ (k.step # "idle" => k.l \in Link)
    BY <1>0, <1>1 DEF SignIn!OpenLink, SignIn!FindLink, SignIn!SignedIn, SignIn!TypeOK,
                      SignIn!RequestsAreReal
  <2>2. SignIn!TypeOK' /\ SignIn!RequestsAreReal'
    BY <1>0, <2>1 DEF SignIn!TypeOK, SignIn!RequestsAreReal
  <2>3. SignIn!OneClaim' /\ SignIn!LinkIsComing'
    BY <1>0, <2>1 DEF SignIn!TypeOK, SignIn!OneClaim, SignIn!Claims, SignIn!LinkIsComing, SignIn!NotDeleted
  <2> QED
    BY <2>2, <2>3 DEF SignIn!SignInInv
<1>2. CASE SignIn!Consume(c)
  <2>1. PICK l \in Link : l = check[c].l /\ check[c].step = "consume"
    BY <1>0, <1>2 DEF SignIn!Consume, SignIn!RequestsAreReal
  <2>2. UNCHANGED <<newest, mailed, ask, account, signed, expired, token, call, crashes>>
    BY <1>2 DEF SignIn!Consume
  <2>3. CASE /\ link[l].state \in {"active", "old"}
             /\ link' = [link EXCEPT ![l].state = "used"]
             /\ check' = [check EXCEPT ![c].step = "user"]
    <3>1. /\ link' \in [Link -> SignIn!Row] /\ check' \in [Check -> SignIn!Checking]
          /\ link'[l].state = "used" /\ link'[l].email = link[l].email
          /\ \A k \in Link \ {l} : link'[k] = link[k]
          /\ check'[c].step = "user" /\ check'[c].l = l
          /\ \A d \in Check \ {c} : check'[d] = check[d]
      BY <1>0, <2>1, <2>3 DEF SignIn!TypeOK
    <3>2. SignIn!TypeOK' /\ SignIn!RequestsAreReal'
      BY <1>0, <2>1, <2>2, <2>3, <3>1 DEF SignIn!TypeOK, SignIn!RequestsAreReal
    <3>3. signed[l] = 0 /\ \A d \in Check : ~SignIn!Claims(d, l)
      BY <1>0, <2>3 DEF SignIn!OneClaim, SignIn!TypeOK
    <3>4. SignIn!OneClaim'
      BY <1>0, <2>2, <3>1, <3>3 DEF SignIn!OneClaim, SignIn!Claims
    <3>5. \A k \in Link : /\ link'[k].email = link[k].email
                          /\ SignIn!NotDeleted(k) => SignIn!NotDeleted(k)'
      BY <3>1 DEF SignIn!NotDeleted
    <3>6. SignIn!LinkIsComing'
      BY <1>0, <2>2, <3>5 DEF SignIn!LinkIsComing
    <3> QED
      BY <3>2, <3>4, <3>6 DEF SignIn!SignInInv
  <2>4. CASE UNCHANGED link /\ check' = [check EXCEPT ![c] = SignIn!NotChecking]
    <3>1. SignIn!TypeOK' /\ SignIn!RequestsAreReal'
      BY <1>0, <2>2, <2>4 DEF SignIn!TypeOK, SignIn!RequestsAreReal
    <3>2. SignIn!OneClaim' /\ SignIn!LinkIsComing'
      BY <1>0, <2>2, <2>4 DEF SignIn!TypeOK, SignIn!OneClaim, SignIn!Claims, SignIn!LinkIsComing, SignIn!NotDeleted
    <3> QED
      BY <3>1, <3>2 DEF SignIn!SignInInv
  <2> QED
    BY <1>2, <2>1, <2>3, <2>4 DEF SignIn!Consume
<1>3. CASE SignIn!FindUser(c) \/ SignIn!CreateUser(c)
  <2>1. PICK l \in Link : l = check[c].l /\ SignIn!Claims(c, l)
    BY <1>0, <1>3 DEF SignIn!FindUser, SignIn!CreateUser, SignIn!RequestsAreReal, SignIn!Claims
  <2>2. /\ UNCHANGED <<link, newest, mailed, ask, expired, token, call, crashes>>
        /\ account' \subseteq account \cup {link[l].email} /\ account \subseteq account'
        /\ \/ /\ signed' = [signed EXCEPT ![l] = @ + 1]
              /\ check' = [check EXCEPT ![c].step = "answered"]
           \/ /\ UNCHANGED signed
              /\ \/ check' = [check EXCEPT ![c].step = "create"]
                 \/ check' = [check EXCEPT ![c] = SignIn!NotChecking]
    BY <1>3, <2>1 DEF SignIn!FindUser, SignIn!CreateUser, SignIn!Signs
  <2>3. /\ link[l].state = "used" /\ signed[l] = 0
        /\ \A d \in Check : SignIn!Claims(d, l) => d = c
    BY <1>0, <2>1 DEF SignIn!OneClaim
  <2>4. link[l].email \in Email
    BY <1>0, <2>3, PhoneAssumption DEF SignIn!TypeOK
  <2>5. \E k \in SignIn!Checking :
          /\ check' = [check EXCEPT ![c] = k]
          /\ k.step # "idle" => k.l = l
          /\ k.step \in {"answered", "idle", "create"}
          /\ signed' # signed => k.step = "answered"
    BY <1>0, <2>1, <2>2 DEF SignIn!TypeOK
  <2>6. /\ check' \in [Check -> SignIn!Checking]
        /\ check'[c].step # "idle" => check'[c].l = l
        /\ check'[c].step \in {"answered", "idle", "create"}
        /\ signed' # signed => check'[c].step = "answered"
        /\ \A d \in Check \ {c} : check'[d] = check[d]
    BY <1>0, <2>5 DEF SignIn!TypeOK
  <2>7. /\ signed' \in [Link -> Nat] /\ signed'[l] \in {0, 1}
        /\ signed'[l] = 1 => check'[c].step = "answered"
        /\ \A k \in Link \ {l} : signed'[k] = signed[k]
    BY <1>0, <2>2, <2>3, <2>6 DEF SignIn!TypeOK
  <2>8. SignIn!TypeOK' /\ SignIn!RequestsAreReal'
    BY <1>0, <2>2, <2>4, <2>6, <2>7 DEF SignIn!TypeOK, SignIn!RequestsAreReal
  <2>9. SignIn!OneClaim'
    <3>1. ASSUME NEW k \in Link
          PROVE  signed'[k] <= 1 /\ (signed'[k] > 0 => link'[k].state = "used")
      BY <1>0, <2>2, <2>3, <2>7 DEF SignIn!OneClaim
    <3>2. ASSUME NEW d \in Check, NEW k \in Link, SignIn!Claims(d, k)'
          PROVE  SignIn!Claims(d, k) /\ (signed'[k] = signed[k])
      BY <1>0, <2>1, <2>3, <2>6, <2>7, <3>2 DEF SignIn!Claims
    <3> QED
      BY <1>0, <2>2, <3>1, <3>2 DEF SignIn!OneClaim
  <2>10. SignIn!LinkIsComing'
    BY <1>0, <2>2 DEF SignIn!LinkIsComing, SignIn!NotDeleted
  <2> QED
    BY <2>8, <2>9, <2>10 DEF SignIn!SignInInv
<1> QED
  BY <1>1, <1>2, <1>3

\* The life of the links and of the session of the phone.
LEMMA OthersKeepSignIn ==
    ASSUME SignIn!SignInInv,
           \/ \E l \in Link : SignIn!LinkExpires(l) \/ SignIn!SessionExpires(l)
           \/ SignIn!CallApi \/ SignIn!ApiAnswers \/ SignIn!SignOut \/ SignIn!Crash
           \/ UNCHANGED signInVars
    PROVE  SignIn!SignInInv'
<1> USE DEF SignIn!SignInInv, SignIn!TypeOK, SignIn!RequestsAreReal, SignIn!Row
<1>1. CASE \E l \in Link : SignIn!LinkExpires(l)
  <2>1. PICK l \in Link : /\ link[l].state = "active"
                          /\ link' = [link EXCEPT ![l].state = "old"]
                          /\ UNCHANGED <<newest, mailed, ask, check, account, signed, expired, token,
                                         call, crashes>>
    BY <1>1 DEF SignIn!LinkExpires
  <2>2. SignIn!TypeOK' /\ SignIn!RequestsAreReal'
    BY <2>1
  <2>3. SignIn!OneClaim' /\ SignIn!LinkIsComing'
    BY <2>1 DEF SignIn!OneClaim, SignIn!Claims, SignIn!LinkIsComing, SignIn!NotDeleted
  <2> QED
    BY <2>2, <2>3
<1>2. CASE SignIn!Crash
  BY <1>2, PhoneAssumption
  DEF SignIn!Crash, SignIn!OneClaim, SignIn!Claims, SignIn!LinkIsComing, SignIn!NotDeleted, SignIn!Asking,
      SignIn!Checking, SignIn!NotAsking, SignIn!NotChecking, SignIn!SignInAssumption
<1>3. CASE \/ \E l \in Link : SignIn!SessionExpires(l)
           \/ SignIn!CallApi \/ SignIn!ApiAnswers \/ SignIn!SignOut \/ UNCHANGED signInVars
  <2>1. /\ UNCHANGED <<link, newest, mailed, ask, check, account, signed, crashes>>
        /\ expired' \subseteq Link /\ token' \in Link \cup {NoLink} /\ call' \in Link \cup {NoLink}
    BY <1>3 DEF SignIn!SessionExpires, SignIn!CallApi, SignIn!ApiAnswers, SignIn!SignOut,
                signInVars
  <2> QED
    BY <2>1 DEF SignIn!OneClaim, SignIn!Claims, SignIn!LinkIsComing, SignIn!NotDeleted
<1> QED
  BY <1>1, <1>2, <1>3

LEMMA NextSignIn ==
    ASSUME SignIn!SignInInv, SignIn!Next \/ UNCHANGED signInVars
    PROVE  SignIn!SignInInv'
  BY AsksKeepSignIn, ChecksKeepSignIn, OthersKeepSignIn DEF SignIn!Next

-----------------------------------------------------------------------------
(* ListingPhotos.                                                           *)

LEMMA InitPhotos == Photos!PhotosAssumption /\ Photos!Init => Photos!PhotosInv
<1> SUFFICES ASSUME Photos!PhotosAssumption, Photos!Init
             PROVE  Photos!PhotosInv
  OBVIOUS
<1> USE DEF Photos!PhotosAssumption, Photos!Init, Photos!Idle
<1>1. Photos!TypeOK
  BY DEF Photos!TypeOK, Photos!Handler, Photos!ListingStatus
<1>2. Photos!PhotosAreStored
  BY DEF Photos!PhotosAreStored, Photos!Known
<1>3. \A u \in Upload : Photos!HandlerIsHonest(upload[u])
  BY DEF Photos!HandlerIsHonest
<1> QED
  BY <1>1, <1>2, <1>3 DEF Photos!PhotosInv

\* A step of one handler: no row goes, and what is stored stays stored.
LEMMA OneHandler ==
    ASSUME Photos!PhotosInv, NEW u \in Upload, NEW h \in Photos!Handler,
           upload' = [upload EXCEPT ![u] = h],
           file' \in [Photo -> {"none", "torn", "whole"}], rows' \in [Photo -> Nat],
           answered' \subseteq Photo, cuts' \in 0 .. MaxCuts, UNCHANGED status,
           Photos!Known \subseteq Photos!Known',
           \A p \in Photo : Photos!Stored(p) => Photos!Stored(p)',
           answered' \subseteq Photos!Known',
           \A p \in Photos!Known' \ Photos!Known : Photos!Stored(p)',
           Photos!HandlerIsHonest(h)'
    PROVE  Photos!PhotosInv'
<1>1. Photos!TypeOK'
  BY DEF Photos!PhotosInv, Photos!TypeOK
<1>2. \A p \in Photos!Known' : Photos!Stored(p)'
  BY DEF Photos!PhotosInv, Photos!PhotosAreStored, Photos!Stored, Photos!Known
<1>3. Photos!PhotosAreStored'
  BY <1>2 DEF Photos!PhotosAreStored, Photos!Stored
<1>4. ASSUME NEW v \in Upload
      PROVE  Photos!HandlerIsHonest(upload[v])'
  <2>1. CASE v = u
    BY <2>1 DEF Photos!PhotosInv, Photos!TypeOK
  <2>2. CASE v # u
    <3>1. PICK k \in Photos!Handler : k = upload[v] /\ upload'[v] = k
      BY <2>2 DEF Photos!PhotosInv, Photos!TypeOK
    <3>2. Photos!HandlerIsHonest(k)
      BY <3>1 DEF Photos!PhotosInv
    <3>3. Photos!HandlerIsHonest(k)'
      BY <3>2 DEF Photos!HandlerIsHonest, Photos!Handler
    <3> QED
      BY <3>1, <3>3
  <2> QED
    BY <2>1, <2>2
<1> QED
  BY <1>1, <1>3, <1>4 DEF Photos!PhotosInv

\* What is written stays written, unless the step stops writing it.
LEMMA StoredLasts ==
    ASSUME Photos!PhotosInv, NEW u \in Upload, NEW h \in Photos!Handler,
           upload' = [upload EXCEPT ![u] = h], NEW p \in Photo, Photos!Stored(p),
           \/ cuts' # 0 /\ file'[p] = file[p]
           \/ file'[p] = "whole"
           \/ file'[p] # "none" /\ p \in h.open
           \/ UNCHANGED cuts /\ file'[p] = file[p] /\ p \notin upload[u].open
    PROVE  Photos!Stored(p)'
<1>1. upload'[u] = h /\ \A v \in Upload \ {u} : upload'[v] = upload[v]
  BY DEF Photos!PhotosInv, Photos!TypeOK
<1> QED
  BY <1>1 DEF Photos!Stored, Photos!Writing

\* A request is received, measured, or cut: nothing is written.
LEMMA RequestKeepsPhotos ==
    ASSUME Photos!PhotosInv, NEW u \in Upload,
           \/ \E batch \in Batch : Photos!Receive(u, batch)
           \/ Photos!CheckQuota(u) \/ Photos!Cut(u)
    PROVE  Photos!PhotosInv'
<1>1. /\ upload[u] \in Photos!Handler /\ Photos!HandlerIsHonest(upload[u])
      /\ file \in [Photo -> {"none", "torn", "whole"}] /\ rows \in [Photo -> Nat]
      /\ answered \subseteq Photo /\ cuts \in 0 .. MaxCuts /\ answered \subseteq Photos!Known
  BY DEF Photos!PhotosInv, Photos!TypeOK, Photos!PhotosAreStored
<1>2. UNCHANGED <<status, file, rows, answered>> /\ cuts' \in 0 .. MaxCuts
      /\ (cuts' # 0 \/ (UNCHANGED cuts /\ upload[u].open = {}))
  <2>1. CASE Photos!Cut(u)
    BY <1>1, <2>1, PhoneAssumption DEF Photos!Cut, Photos!PhotosAssumption
  <2>2. CASE (\E batch \in Batch : Photos!Receive(u, batch)) \/ Photos!CheckQuota(u)
    <3>1. upload[u].step # "write" /\ UNCHANGED <<status, file, rows, answered, cuts>>
      BY <2>2 DEF Photos!Receive, Photos!CheckQuota
    <3> QED
      BY <1>1, <3>1 DEF Photos!HandlerIsHonest
  <2> QED
    BY <2>1, <2>2
<1>3. \E h \in Photos!Handler :
        /\ upload' = [upload EXCEPT ![u] = h]
        /\ h.open = {} /\ h.todo = h.fresh /\ (h.step # "write" => h.fresh = {})
        /\ h.step = "write" => h.batch \ h.fresh \subseteq Photos!Known
  <2>1. CASE \E batch \in Batch : Photos!Receive(u, batch)
    <3>1. PICK batch \in Batch : Photos!Receive(u, batch)
      BY <2>1
    <3>2. batch \subseteq Photo
      BY PhoneAssumption DEF Photos!PhotosAssumption
    <3>3. PICK k \in Photos!Handler : k = Photos!Idle
      BY DEF Photos!Idle, Photos!Handler
    <3>4. k.fresh = {} /\ k.todo = {} /\ k.open = {}
      BY <3>3 DEF Photos!Idle
    <3> DEFINE h == [k EXCEPT !.step = "quota", !.batch = batch]
    <3>5. h \in Photos!Handler /\ h.step = "quota" /\ h.fresh = {} /\ h.todo = {} /\ h.open = {}
      BY <3>2, <3>4 DEF Photos!Handler
    <3>6. upload' = [upload EXCEPT ![u] = h]
      BY <3>1, <3>3 DEF Photos!Receive
    <3> HIDE DEF h
    <3> QED
      BY <3>5, <3>6
  <2>2. CASE upload' = [upload EXCEPT ![u] = Photos!Idle]
    <3>1. Photos!Idle \in Photos!Handler
      BY DEF Photos!Idle, Photos!Handler
    <3> QED
      BY <2>2, <3>1 DEF Photos!Idle
  <2>3. CASE Photos!CheckQuota(u) /\ upload' # [upload EXCEPT ![u] = Photos!Idle]
    <3> DEFINE fresh == upload[u].batch \ Photos!Known
               h == [upload[u] EXCEPT !.step = "write", !.fresh = fresh, !.todo = fresh]
    <3>1. upload' = [upload EXCEPT ![u] = h] /\ upload[u].step = "quota"
      BY <2>3 DEF Photos!CheckQuota
    <3>2. h \in Photos!Handler /\ upload[u].open = {}
      BY <1>1, <3>1 DEF Photos!Handler, Photos!HandlerIsHonest
    <3>3. h.open = {} /\ h.todo = fresh /\ h.fresh = fresh /\ h.batch = upload[u].batch
          /\ h.step = "write"
      BY <1>1, <3>2 DEF Photos!Handler
    <3> HIDE DEF h
    <3> QED
      BY <3>1, <3>2, <3>3
  <2> QED
    BY <2>1, <2>2, <2>3 DEF Photos!Cut
<1>4. PICK h \in Photos!Handler :
        /\ upload' = [upload EXCEPT ![u] = h]
        /\ h.open = {} /\ h.todo = h.fresh /\ (h.step # "write" => h.fresh = {})
        /\ h.step = "write" => h.batch \ h.fresh \subseteq Photos!Known
  BY <1>3
<1>5. \A p \in Photo : Photos!Stored(p) => Photos!Stored(p)'
  BY <1>2, <1>4, StoredLasts
<1>6. Photos!Known' = Photos!Known
  BY <1>2 DEF Photos!Known
<1>7. Photos!HandlerIsHonest(h)'
  BY <1>4, <1>6 DEF Photos!HandlerIsHonest
<1> QED
  BY <1>1, <1>2, <1>4, <1>5, <1>6, <1>7, OneHandler

\* A file is opened or filled.
LEMMA FileKeepsPhotos ==
    ASSUME Photos!PhotosInv, NEW u \in Upload, NEW p \in Photo,
           Photos!OpenFile(u, p) \/ Photos!FillFile(u, p)
    PROVE  Photos!PhotosInv'
<1>1. PICK k \in Photos!Handler : k = upload[u] /\ Photos!HandlerIsHonest(k)
  BY DEF Photos!PhotosInv, Photos!TypeOK
<1>2. /\ file \in [Photo -> {"none", "torn", "whole"}] /\ rows \in [Photo -> Nat]
      /\ answered \subseteq Photo /\ cuts \in 0 .. MaxCuts /\ answered \subseteq Photos!Known
  BY DEF Photos!PhotosInv, Photos!TypeOK, Photos!PhotosAreStored
<1>3. UNCHANGED <<status, rows, answered, cuts>>
  BY DEF Photos!OpenFile, Photos!FillFile
<1>4. \A q \in k.open : q = p
  BY <1>1 DEF Photos!HandlerIsHonest, Photos!OpenFile, Photos!FillFile
<1>5. PICK h \in Photos!Handler :
        /\ upload' = [upload EXCEPT ![u] = h]
        /\ h.step = k.step /\ h.batch = k.batch /\ h.fresh = k.fresh
        /\ \/ /\ h.open = {p} /\ h.todo = k.todo /\ p \in k.todo
              /\ file' = [file EXCEPT ![p] = "torn"]
           \/ /\ h.open = {} /\ h.todo = k.todo \ {p}
              /\ file' = [file EXCEPT ![p] = "whole"]
  <2>1. CASE Photos!OpenFile(u, p)
    <3> DEFINE h == [k EXCEPT !.open = {p}]
    <3>1. h \in Photos!Handler /\ h.step = k.step /\ h.batch = k.batch /\ h.fresh = k.fresh
          /\ h.open = {p} /\ h.todo = k.todo
      BY DEF Photos!Handler
    <3>2. upload' = [upload EXCEPT ![u] = h] /\ p \in k.todo
          /\ file' = [file EXCEPT ![p] = "torn"]
      BY <1>1, <2>1 DEF Photos!OpenFile, Photos!PhotosInv, Photos!TypeOK
    <3> HIDE DEF h
    <3> QED
      BY <3>1, <3>2
  <2>2. CASE Photos!FillFile(u, p)
    <3> DEFINE h == [k EXCEPT !.todo = @ \ {p}, !.open = {}]
    <3>1. h \in Photos!Handler /\ h.step = k.step /\ h.batch = k.batch /\ h.fresh = k.fresh
          /\ h.open = {} /\ h.todo = k.todo \ {p}
      BY DEF Photos!Handler
    <3>2. upload' = [upload EXCEPT ![u] = h] /\ file' = [file EXCEPT ![p] = "whole"]
      BY <1>1, <2>2 DEF Photos!FillFile, Photos!PhotosInv, Photos!TypeOK
    <3> HIDE DEF h
    <3> QED
      BY <3>1, <3>2
  <2> QED
    BY <2>1, <2>2
<1>6. /\ file' \in [Photo -> {"none", "torn", "whole"}]
      /\ \A q \in Photo \ {p} : file'[q] = file[q]
      /\ file'[p] = "whole" \/ (file'[p] = "torn" /\ p \in h.open)
  BY <1>2, <1>5
<1>7. \A q \in Photo : Photos!Stored(q) => Photos!Stored(q)'
  BY <1>1, <1>3, <1>4, <1>5, <1>6, StoredLasts
<1>8. Photos!Known' = Photos!Known
  BY <1>3 DEF Photos!Known
<1>9. Photos!HandlerIsHonest(h)'
  <2>1. h.step # "write" => h.fresh = {}
    BY <1>1, <1>5 DEF Photos!HandlerIsHonest
  <2>2. h.open \subseteq h.todo /\ h.todo \subseteq h.fresh /\ \A q, r \in h.open : q = r
    BY <1>1, <1>4, <1>5 DEF Photos!HandlerIsHonest
  <2>3. h.step = "write" => h.batch \ h.fresh \subseteq Photos!Known'
    BY <1>1, <1>5, <1>8 DEF Photos!HandlerIsHonest
  <2>4. ASSUME NEW q \in h.fresh \ h.todo
        PROVE  Photos!Stored(q)'
    <3>1. CASE q = p
      BY <1>5, <1>6, <2>2, <2>4, <3>1 DEF Photos!Stored
    <3>2. CASE q # p
      <4>1. q \in Photo /\ Photos!Stored(q)
        BY <1>1, <1>5, <2>4, <3>2 DEF Photos!HandlerIsHonest, Photos!Handler
      <4> QED
        BY <1>7, <4>1
    <3> QED
      BY <3>1, <3>2
  <2> QED
    BY <2>1, <2>2, <2>3, <2>4 DEF Photos!HandlerIsHonest
<1> QED
  BY <1>2, <1>3, <1>5, <1>6, <1>7, <1>8, <1>9, OneHandler

\* The rows are inserted, for what is written.
LEMMA InsertKeepsPhotos ==
    ASSUME Photos!PhotosInv, NEW u \in Upload, Photos!InsertRows(u)
    PROVE  Photos!PhotosInv'
<1>1. PICK k \in Photos!Handler : k = upload[u] /\ Photos!HandlerIsHonest(k)
  BY DEF Photos!PhotosInv, Photos!TypeOK
<1>2. /\ file \in [Photo -> {"none", "torn", "whole"}] /\ rows \in [Photo -> Nat]
      /\ answered \subseteq Photo /\ cuts \in 0 .. MaxCuts /\ answered \subseteq Photos!Known
  BY DEF Photos!PhotosInv, Photos!TypeOK, Photos!PhotosAreStored
<1>3. /\ k.step = "write" /\ k.todo = {} /\ k.open = {} /\ k.batch \subseteq Photo
      /\ k.fresh \subseteq Photo
      /\ rows' = [p \in Photo |-> rows[p] + IF p \in k.fresh THEN 1 ELSE 0]
      /\ answered' = answered \cup k.batch
      /\ upload' = [upload EXCEPT ![u] = Photos!Idle]
      /\ UNCHANGED <<status, file, cuts>>
  BY <1>1 DEF Photos!InsertRows, Photos!HandlerIsHonest, Photos!Handler
<1>4. rows' \in [Photo -> Nat]
  BY <1>2, <1>3
<1>5. Photos!Known' = Photos!Known \cup k.fresh
  BY <1>2, <1>3 DEF Photos!Known
<1>6. PICK h \in Photos!Handler : h = Photos!Idle
  BY DEF Photos!Idle, Photos!Handler
<1>7. \A p \in Photo : Photos!Stored(p) => Photos!Stored(p)'
  BY <1>1, <1>3, <1>6, StoredLasts
<1>8. answered' \subseteq Photos!Known'
  BY <1>1, <1>2, <1>3, <1>5 DEF Photos!HandlerIsHonest
<1>9. \A p \in Photos!Known' \ Photos!Known : Photos!Stored(p)'
  BY <1>1, <1>3, <1>5, <1>7 DEF Photos!HandlerIsHonest
<1>10. Photos!HandlerIsHonest(h)'
  BY <1>6 DEF Photos!HandlerIsHonest, Photos!Idle
<1> QED
  BY <1>2, <1>3, <1>4, <1>5, <1>6, <1>7, <1>8, <1>9, <1>10, OneHandler

LEMMA NextPhotos ==
    ASSUME Photos!PhotosInv, Photos!Next \/ UNCHANGED photosVars
    PROVE  Photos!PhotosInv'
<1>1. CASE (\E to \in Photos!ListingStatus : Photos!Moves(to)) \/ UNCHANGED photosVars
  <2>1. UNCHANGED <<file, rows, upload, answered, cuts>> /\ status' \in Photos!ListingStatus
    BY <1>1 DEF Photos!Moves, photosVars, Photos!PhotosInv, Photos!TypeOK
  <2>2. Photos!TypeOK' /\ Photos!PhotosAreStored'
    BY <2>1 DEF Photos!PhotosInv, Photos!TypeOK, Photos!PhotosAreStored, Photos!Known,
                Photos!Writing
  <2>3. \A u \in Upload : Photos!HandlerIsHonest(upload[u])'
    BY <2>1 DEF Photos!PhotosInv, Photos!HandlerIsHonest, Photos!Known, Photos!Stored,
                Photos!Writing
  <2> QED
    BY <2>2, <2>3 DEF Photos!PhotosInv
<1> QED
  BY <1>1, RequestKeepsPhotos, FileKeepsPhotos, InsertKeepsPhotos DEF Photos!Next

-----------------------------------------------------------------------------
(* ListingScreens.                                                          *)

LEMMA InitScreens == Screens!ScreensAssumption /\ Screens!Init => Screens!ScreensInv
<1> SUFFICES ASSUME Screens!ScreensAssumption, Screens!Init
             PROVE  Screens!ScreensInv
  OBVIOUS
<1>1. PICK t \in Titre, p \in Asked :
         /\ row = [status |-> "QUEUED", titre |-> t, prix |-> p,
                   flagged |-> Screens!IsPriceFlagged(p), hidden |-> FALSE]
         /\ sent = {[titre |-> t, prix |-> p]}
  BY DEF Screens!Init
<1>2. Screens!IsPriceFlagged(p) \in BOOLEAN
  BY DEF Screens!IsPriceFlagged
<1>3. Screens!Idle \in Screens!Request
  BY DEF Screens!Idle, Screens!Request, Screens!NoPatch, Screens!Content, Screens!Seen
<1>4. Screens!TypeOK
  BY <1>1, <1>2, <1>3 DEF Screens!TypeOK, Screens!Init, Screens!ScreensAssumption, Screens!NoView,
     Screens!NoForm, Screens!Seen, Screens!ListingStatus
<1>5. Screens!EditsAreWhole
  BY DEF Screens!EditsAreWhole, Screens!Init, Screens!Idle
<1>6. Screens!ContentIsOneForm
  BY <1>1 DEF Screens!ContentIsOneForm
<1> QED
  BY <1>4, <1>5, <1>6 DEF Screens!ScreensInv

\* A call that is replaced by one that is not an edit, or that goes on with its
\* patch, leaves the edits whole.
LEMMA CallsStayWhole ==
    ASSUME Screens!EditsAreWhole, UNCHANGED sent,
           \A c \in Call : calls'[c].kind = "edit" =>
              calls[c].kind = "edit" /\ calls'[c].patch = calls[c].patch
    PROVE  Screens!EditsAreWhole'
BY DEF Screens!EditsAreWhole

\* The messages of a call stay in their type.
LEMMA SendIsRequest ==
    ASSUME NEW kind \in {"list", "view", "form", "edit", "cancel"}, NEW all \in BOOLEAN,
           NEW patch \in Screens!Content
    PROVE  /\ Screens!Send(kind, all, patch) \in Screens!Request
           /\ Screens!Send(kind, all, patch).kind = kind
           /\ Screens!Send(kind, all, patch).patch = patch
           /\ Screens!Idle \in Screens!Request
           /\ Screens!Idle.kind = "idle"
           /\ Screens!NoPatch \in Screens!Content
BY DEF Screens!Send, Screens!Idle, Screens!Request, Screens!NoPatch, Screens!Content, Screens!Seen

LEMMA ReadsKeepScreens ==
    ASSUME Screens!ScreensAssumption, Screens!ScreensInv, NEW c \in Call,
           Screens!ServeRead(c) \/ Screens!EditReads(c)
    PROVE  Screens!ScreensInv'
<1>1. /\ calls \in [Call -> Screens!Request] /\ calls[c] \in Screens!Request
      /\ row.status \in Screens!ListingStatus /\ row.prix \in Asked
  BY DEF Screens!ScreensInv, Screens!TypeOK
<1>2. /\ UNCHANGED <<row, filter, list, view, top, edited, sent>>
      /\ calls' \in [Call -> Screens!Request]
      /\ \A d \in Call : \/ calls'[d].kind = calls[d].kind /\ calls'[d].patch = calls[d].patch
                         \/ calls'[d].kind = "idle"
  <2>1. CASE Screens!ServeRead(c)
    <3>1. Screens!ReadBy(calls[c]) \in Screens!Seen
      BY <1>1 DEF Screens!ReadBy, Screens!Seen
    <3>2. [calls[c] EXCEPT !.step = "ok", !.seen = Screens!ReadBy(calls[c])] \in Screens!Request
      BY <1>1, <3>1 DEF Screens!Request
    <3> QED
      BY <1>1, <2>1, <3>2 DEF Screens!ServeRead, Screens!screenVars, Screens!Request
  <2>2. CASE Screens!EditReads(c)
    <3>1. CASE row.status \in Screens!Editable
      <4>1. calls' = [calls EXCEPT ![c].step = "read",
                    ![c].prix = IF calls[c].patch.prix = Null THEN row.prix ELSE Null]
        BY <2>2, <3>1 DEF Screens!EditReads
      <4>2. [calls[c] EXCEPT !.step = "read",
                !.prix = IF calls[c].patch.prix = Null THEN row.prix ELSE Null]
            \in Screens!Request
        BY <1>1 DEF Screens!Request
      <4> QED
        BY <1>1, <2>2, <4>1, <4>2 DEF Screens!EditReads, Screens!screenVars, Screens!Request
    <3>2. CASE row.status \notin Screens!Editable
      <4>1. calls' = [calls EXCEPT ![c] = IF @.waited THEN [@ EXCEPT !.step = "refused"]
                                                      ELSE Screens!Idle]
        BY <2>2, <3>2 DEF Screens!EditReads, Screens!Answered
      <4>2. [calls[c] EXCEPT !.step = "refused"] \in Screens!Request
        BY <1>1 DEF Screens!Request
      <4>3. Screens!Idle \in Screens!Request /\ Screens!Idle.kind = "idle"
        BY DEF Screens!Idle, Screens!Request, Screens!NoPatch, Screens!Content,
           Screens!Seen
      <4> QED
        BY <1>1, <2>2, <4>1, <4>2, <4>3 DEF Screens!EditReads, Screens!screenVars,
           Screens!Request
    <3> QED
      BY <3>1, <3>2
  <2> QED
    BY <2>1, <2>2
<1>3. Screens!TypeOK' /\ Screens!ContentIsOneForm'
  BY <1>2 DEF Screens!ScreensInv, Screens!TypeOK, Screens!ContentIsOneForm
<1>4. Screens!EditsAreWhole'
  BY <1>2, CallsStayWhole DEF Screens!ScreensInv
<1> QED
  BY <1>3, <1>4 DEF Screens!ScreensInv

LEMMA AnsweredIsTyped ==
    ASSUME calls \in [Call -> Screens!Request], NEW c \in Call,
           NEW answer \in {"ok", "refused"}, Screens!Answered(c, answer)
    PROVE  /\ calls' \in [Call -> Screens!Request]
           /\ \A d \in Call : calls'[d].kind = "edit" =>
                 calls[d].kind = "edit" /\ calls'[d].patch = calls[d].patch
<1>1. [calls[c] EXCEPT !.step = answer] \in Screens!Request
  BY DEF Screens!Request
<1>2. Screens!Idle \in Screens!Request /\ Screens!Idle.kind = "idle"
  BY DEF Screens!Idle, Screens!Request, Screens!NoPatch, Screens!Content, Screens!Seen
<1> QED
  BY <1>1, <1>2 DEF Screens!Answered, Screens!Request

\* An edit writes both fields of the form it came from, whatever it has read.
LEMMA WritesKeepScreens ==
    ASSUME Screens!ScreensAssumption, Screens!ScreensInv, NEW c \in Call,
           Screens!EditWrites(c) \/ Screens!ServeCancel(c)
    PROVE  Screens!ScreensInv'
<1>1. /\ calls \in [Call -> Screens!Request]
      /\ row \in [status : Screens!ListingStatus, titre : Titre, prix : Asked,
                  flagged : BOOLEAN, hidden : BOOLEAN]
      /\ sent \subseteq [titre : Titre, prix : Asked]
  BY DEF Screens!ScreensInv, Screens!TypeOK
<1>2. UNCHANGED <<filter, list, view, top, edited, sent>>
  BY DEF Screens!EditWrites, Screens!ServeCancel, Screens!screenVars
<1>3. /\ row' \in [status : Screens!ListingStatus, titre : Titre, prix : Asked,
                   flagged : BOOLEAN, hidden : BOOLEAN]
      /\ [titre |-> row'.titre, prix |-> row'.prix] \in sent
      /\ row'.flagged = Screens!IsPriceFlagged(row'.prix)
      /\ \E answer \in {"ok", "refused"} : Screens!Answered(c, answer)
  <2>1. CASE Screens!EditWrites(c)
    <3> DEFINE patch == calls[c].patch
    <3>1. patch \in sent /\ patch.titre \in Titre /\ patch.prix \in Asked
          /\ patch = [titre |-> patch.titre, prix |-> patch.prix]
      BY <1>1, <2>1 DEF Screens!EditWrites, Screens!ScreensInv, Screens!EditsAreWhole
    <3>2. patch.titre # Null /\ patch.prix # Null
      BY <3>1 DEF Screens!ScreensAssumption
    <3>3. row' = [row EXCEPT !.titre = patch.titre, !.prix = patch.prix,
                             !.flagged = Screens!IsPriceFlagged(patch.prix), !.hidden = FALSE]
          /\ Screens!Answered(c, "ok")
      BY <2>1, <3>2 DEF Screens!EditWrites
    <3>4. Screens!IsPriceFlagged(patch.prix) \in BOOLEAN
      BY DEF Screens!IsPriceFlagged
    <3> HIDE DEF patch
    <3> QED
      BY <1>1, <3>1, <3>3, <3>4
  <2>2. CASE Screens!ServeCancel(c)
    <3>1. \/ row' = [row EXCEPT !.status = "USER_CANCELLED"] /\ Screens!Answered(c, "ok")
          \/ UNCHANGED row /\ Screens!Answered(c, "refused")
      BY <2>2 DEF Screens!ServeCancel
    <3>2. "USER_CANCELLED" \in Screens!ListingStatus
      BY DEF Screens!ListingStatus
    <3>3. Screens!ContentIsOneForm
      BY DEF Screens!ScreensInv
    <3> QED
      BY <1>1, <3>1, <3>2, <3>3 DEF Screens!ContentIsOneForm
  <2> QED
    BY <2>1, <2>2
<1>4. PICK answer \in {"ok", "refused"} : Screens!Answered(c, answer)
  BY <1>3
<1>5. /\ calls' \in [Call -> Screens!Request]
      /\ \A d \in Call : calls'[d].kind = "edit" =>
            calls[d].kind = "edit" /\ calls'[d].patch = calls[d].patch
  BY <1>1, <1>4, AnsweredIsTyped
<1>6. Screens!EditsAreWhole'
  BY <1>2, <1>5, CallsStayWhole DEF Screens!ScreensInv
<1>7. Screens!TypeOK' /\ Screens!ContentIsOneForm'
  BY <1>2, <1>3, <1>5 DEF Screens!ScreensInv, Screens!TypeOK, Screens!ContentIsOneForm
<1> QED
  BY <1>6, <1>7 DEF Screens!ScreensInv

\* What a tap and an answer keep: they write neither the annonce nor an edit.
LEMMA TapsKeepScreens ==
    ASSUME Screens!ScreensInv, UNCHANGED <<row, sent>>,
           filter' \in Filter, list' \in [all : BOOLEAN, seen : Screens!Seen, error : BOOLEAN],
           view' \in [seen : Screens!Seen, error : BOOLEAN],
           top' \in {"home", "view", "edit"},
           edited' \in [shown : BOOLEAN, call : Call \cup {Null}],
           calls' \in [Call -> Screens!Request],
           \A c \in Call : calls'[c].kind = "edit" =>
              calls[c].kind = "edit" /\ calls'[c].patch = calls[c].patch
    PROVE  Screens!ScreensInv'
<1>1. Screens!EditsAreWhole'
  BY CallsStayWhole DEF Screens!ScreensInv
<1> QED
  BY <1>1 DEF Screens!ScreensInv, Screens!TypeOK, Screens!ContentIsOneForm

LEMMA HomeLoadsIsTyped ==
    ASSUME calls \in [Call -> Screens!Request], NEW c \in Call, NEW chip \in Filter,
           Screens!HomeLoads(c, chip)
    PROVE  /\ calls' \in [Call -> Screens!Request]
           /\ \A d \in Call : calls'[d].kind = "edit" =>
                 calls[d].kind = "edit" /\ calls'[d].patch = calls[d].patch
<1> DEFINE q == Screens!Send("list", chip = "ANNULEES", Screens!NoPatch)
<1>1. q \in Screens!Request /\ q.kind = "list"
  BY DEF Screens!Send, Screens!Idle, Screens!Request, Screens!NoPatch, Screens!Content,
    Screens!Seen
<1>2. calls' = calls \/ calls' = [calls EXCEPT ![c] = q]
  BY DEF Screens!HomeLoads
<1> HIDE DEF q
<1> QED
  BY <1>1, <1>2

LEMMA PopIsTyped ==
    ASSUME Screens!TypeOK, NEW c \in Call, NEW cs \in [Call -> Screens!Request],
           top # "home", Screens!Pop(c, cs)
    PROVE  /\ calls' \in [Call -> Screens!Request]
           /\ top' \in {"home", "view", "edit"}
           /\ view' \in [seen : Screens!Seen, error : BOOLEAN]
           /\ edited' \in [shown : BOOLEAN, call : Call \cup {Null}]
           /\ \A d \in Call : calls'[d].kind = "edit" => calls'[d] = cs[d]
<1> DEFINE left == [d \in Call |-> IF cs[d].kind = Screens!Unmounts[top]
                                   THEN Screens!Idle ELSE cs[d]]
           q == IF top = "edit" THEN Screens!Send("view", FALSE, Screens!NoPatch)
                ELSE Screens!Send("list", filter = "ANNULEES", Screens!NoPatch)
<1>1. top \in {"view", "edit"}
  BY DEF Screens!TypeOK
<1>2. Screens!NoPatch \in Screens!Content /\ Screens!Idle \in Screens!Request
      /\ Screens!Idle.kind = "idle"
  BY DEF Screens!NoPatch, Screens!Content, Screens!Idle, Screens!Request, Screens!Seen
<1>3. q \in Screens!Request /\ q.kind \in {"list", "view"}
  BY DEF Screens!Send, Screens!Idle, Screens!Request, Screens!NoPatch, Screens!Content,
    Screens!Seen
<1>4. left \in [Call -> Screens!Request] /\ \A d \in Call : left[d] \in {cs[d], Screens!Idle}
  BY <1>2
<1>5. calls' = left \/ calls' = [left EXCEPT ![c] = q]
  BY DEF Screens!Pop
<1> HIDE DEF left, q
<1>6. /\ calls' \in [Call -> Screens!Request]
      /\ \A d \in Call : calls'[d].kind = "edit" => calls'[d] = cs[d]
  BY <1>2, <1>3, <1>4, <1>5
<1>7. /\ top' \in {"home", "view", "edit"}
      /\ edited' \in [shown : BOOLEAN, call : Call \cup {Null}]
  BY <1>1 DEF Screens!Pop, Screens!Below, Screens!NoForm
<1>8. view' \in [seen : Screens!Seen, error : BOOLEAN]
  BY DEF Screens!Pop, Screens!NoView, Screens!Seen, Screens!TypeOK
<1> QED
  BY <1>6, <1>7, <1>8

LEMMA HomeKeepsScreens ==
    ASSUME Screens!ScreensInv, NEW c \in Call,
           \/ Screens!LoadHome(c) \/ Screens!OpenView(c) \/ Screens!OpenForm(c)
           \/ Screens!Retry(c) \/ Screens!Back(c)
           \/ \E chip \in Filter : Screens!ChooseFilter(c, chip)
    PROVE  Screens!ScreensInv'
<1>1. Screens!TypeOK /\ calls \in [Call -> Screens!Request]
  BY DEF Screens!ScreensInv, Screens!TypeOK
<1>2. Screens!NoPatch \in Screens!Content
  BY DEF Screens!NoPatch, Screens!Content
<1>3. ASSUME NEW kind \in {"list", "view", "form", "cancel"},
             calls' = [calls EXCEPT ![c] = Screens!Send(kind, FALSE, Screens!NoPatch)]
      PROVE  /\ calls' \in [Call -> Screens!Request]
             /\ \A d \in Call : calls'[d].kind = "edit" =>
                   calls[d].kind = "edit" /\ calls'[d].patch = calls[d].patch
  <2> DEFINE q == Screens!Send(kind, FALSE, Screens!NoPatch)
  <2>1. q \in Screens!Request /\ q.kind = kind
    BY DEF Screens!Send, Screens!Idle, Screens!Request, Screens!NoPatch, Screens!Content,
       Screens!Seen
  <2>2. calls' = [calls EXCEPT ![c] = q]
    BY <1>3
  <2> HIDE DEF q
  <2> QED
    BY <1>1, <2>1, <2>2
<1>4. CASE Screens!LoadHome(c)
  <2>1. UNCHANGED <<row, filter, list, view, top, edited, sent>> /\ filter \in Filter
        /\ Screens!HomeLoads(c, filter)
    BY <1>1, <1>4 DEF Screens!LoadHome, Screens!screenVars, Screens!TypeOK
  <2> QED
    BY <1>1, <2>1, HomeLoadsIsTyped, TapsKeepScreens DEF Screens!TypeOK
<1>5. CASE \E chip \in Filter : Screens!ChooseFilter(c, chip)
  <2>1. PICK chip \in Filter : Screens!ChooseFilter(c, chip)
    BY <1>5
  <2>2. UNCHANGED <<row, list, view, top, edited, sent>> /\ filter' \in Filter
        /\ Screens!HomeLoads(c, chip)
    BY <2>1 DEF Screens!ChooseFilter
  <2> QED
    BY <1>1, <2>2, HomeLoadsIsTyped, TapsKeepScreens DEF Screens!TypeOK
<1>6. CASE Screens!OpenView(c)
  <2>1. UNCHANGED <<row, filter, list, view, edited, sent>> /\ top' = "view"
        /\ calls' = [calls EXCEPT ![c] = Screens!Send("view", FALSE, Screens!NoPatch)]
    BY <1>6 DEF Screens!OpenView
  <2> QED
    BY <1>1, <1>3, <2>1, TapsKeepScreens DEF Screens!TypeOK
<1>7. CASE Screens!OpenForm(c)
  <2>1. UNCHANGED <<row, filter, list, view, sent>> /\ top' = "edit"
        /\ edited' = [shown |-> FALSE, call |-> Null]
        /\ calls' = [calls EXCEPT ![c] = Screens!Send("form", FALSE, Screens!NoPatch)]
    BY <1>7 DEF Screens!OpenForm, Screens!NoForm
  <2> QED
    BY <1>1, <1>3, <2>1, TapsKeepScreens DEF Screens!TypeOK
<1>8. CASE Screens!Retry(c)
  <2>1. UNCHANGED <<row, filter, list, top, edited, sent>>
        /\ view' \in {view, [view EXCEPT !.error = FALSE]}
        /\ \/ calls' = [calls EXCEPT ![c] = Screens!Send("view", FALSE, Screens!NoPatch)]
           \/ calls' = [calls EXCEPT ![c] = Screens!Send("form", FALSE, Screens!NoPatch)]
    BY <1>8 DEF Screens!Retry
  <2>2. view' \in [seen : Screens!Seen, error : BOOLEAN]
    BY <1>1, <2>1 DEF Screens!TypeOK
  <2> QED
    BY <1>1, <1>3, <2>1, <2>2, TapsKeepScreens DEF Screens!TypeOK
<1>9. CASE Screens!Back(c)
  <2>1. UNCHANGED <<row, filter, list, sent>> /\ top # "home" /\ Screens!Pop(c, calls)
    BY <1>9 DEF Screens!Back
  <2> QED
    BY <1>1, <2>1, PopIsTyped, TapsKeepScreens DEF Screens!TypeOK
<1> QED
  BY <1>4, <1>5, <1>6, <1>7, <1>8, <1>9

LEMMA FormKeepsScreens ==
    ASSUME Screens!ScreensInv, NEW c \in Call,
           Screens!Cancel(c) \/ \E t \in Titre, p \in Asked : Screens!Save(c, t, p)
    PROVE  Screens!ScreensInv'
<1>1. Screens!TypeOK /\ calls \in [Call -> Screens!Request]
  BY DEF Screens!ScreensInv, Screens!TypeOK
<1>2. CASE Screens!Cancel(c)
  <2> DEFINE q == Screens!Send("cancel", FALSE, Screens!NoPatch)
  <2>1. UNCHANGED <<row, filter, list, view, top, sent>>
        /\ edited' = [edited EXCEPT !.call = c] /\ calls' = [calls EXCEPT ![c] = q]
    BY <1>2 DEF Screens!Cancel
  <2>2. q \in Screens!Request /\ q.kind = "cancel"
    BY DEF Screens!Send, Screens!Idle, Screens!Request, Screens!NoPatch, Screens!Content,
       Screens!Seen
  <2>3. edited' \in [shown : BOOLEAN, call : Call \cup {Null}]
    BY <1>1, <2>1 DEF Screens!TypeOK
  <2> HIDE DEF q
  <2>4. /\ calls' \in [Call -> Screens!Request]
        /\ \A d \in Call : calls'[d].kind = "edit" =>
              calls[d].kind = "edit" /\ calls'[d].patch = calls[d].patch
    BY <1>1, <2>1, <2>2
  <2> QED
    BY <1>1, <2>1, <2>3, <2>4, TapsKeepScreens DEF Screens!TypeOK
<1>3. CASE \E t \in Titre, p \in Asked : Screens!Save(c, t, p)
  <2>1. PICK t \in Titre, p \in Asked : Screens!Save(c, t, p)
    BY <1>3
  <2> DEFINE content == [titre |-> t, prix |-> p]
             q == Screens!Send("edit", FALSE, content)
  <2>2. UNCHANGED <<row, filter, list, view, top>> /\ sent' = sent \cup {content}
        /\ edited' = [edited EXCEPT !.call = c] /\ calls' = [calls EXCEPT ![c] = q]
    BY <2>1 DEF Screens!Save, Screens!Patch
  <2>3. content \in Screens!Content /\ content \in [titre : Titre, prix : Asked]
    BY DEF Screens!Content
  <2>4. q \in Screens!Request /\ q.patch = content
    BY <2>3, SendIsRequest
  <2> HIDE DEF content, q
  <2>5. calls' \in [Call -> Screens!Request]
        /\ \A d \in Call : calls'[d] = calls[d] \/ calls'[d].patch = content
    BY <1>1, <2>2, <2>4
  <2>6. Screens!EditsAreWhole'
    BY <2>2, <2>5 DEF Screens!EditsAreWhole, Screens!ScreensInv
  <2>7. Screens!TypeOK' /\ Screens!ContentIsOneForm'
    BY <1>1, <2>2, <2>3, <2>5 DEF Screens!TypeOK, Screens!ContentIsOneForm, Screens!ScreensInv
  <2> QED
    BY <2>6, <2>7 DEF Screens!ScreensInv
<1> QED
  BY <1>2, <1>3

LEMMA AnswersKeepScreens ==
    ASSUME Screens!ScreensInv, NEW c \in Call,
           \/ Screens!ReadArrives(c) \/ Screens!WriteArrives(c)
           \/ Screens!Refused(c) \/ Screens!GiveUp(c)
    PROVE  Screens!ScreensInv'
<1>1. Screens!TypeOK /\ calls \in [Call -> Screens!Request] /\ calls[c] \in Screens!Request
  BY DEF Screens!ScreensInv, Screens!TypeOK
<1>2. Screens!Idle \in Screens!Request /\ Screens!Idle.kind = "idle"
  BY DEF Screens!NoPatch, Screens!Content, Screens!Idle, Screens!Request, Screens!Seen
<1> DEFINE over == [calls EXCEPT ![c] = Screens!Idle]
<1>3. /\ over \in [Call -> Screens!Request]
      /\ \A d \in Call : over[d].kind = "edit" => over[d] = calls[d]
  BY <1>1, <1>2
<1>4. CASE Screens!ReadArrives(c)
  <2>1. /\ calls' = over /\ UNCHANGED <<row, filter, top, sent>>
        /\ list' \in {list, [all |-> calls[c].all, seen |-> calls[c].seen, error |-> FALSE]}
        /\ view' \in {view, [view EXCEPT !.seen = calls[c].seen]}
        /\ edited' \in {edited, [edited EXCEPT !.shown = TRUE]}
    BY <1>4 DEF Screens!ReadArrives
  <2>2. calls[c].all \in BOOLEAN /\ calls[c].seen \in Screens!Seen
    BY <1>1 DEF Screens!Request
  <2>3. list' \in [all : BOOLEAN, seen : Screens!Seen, error : BOOLEAN]
    <3>1. list \in [all : BOOLEAN, seen : Screens!Seen, error : BOOLEAN]
      BY <1>1 DEF Screens!TypeOK
    <3>2. [all |-> calls[c].all, seen |-> calls[c].seen, error |-> FALSE]
            \in [all : BOOLEAN, seen : Screens!Seen, error : BOOLEAN]
      BY <2>2
    <3> QED
      BY <2>1, <3>1, <3>2
  <2>4. view' \in [seen : Screens!Seen, error : BOOLEAN]
    BY <1>1, <2>1, <2>2 DEF Screens!TypeOK
  <2>5. edited' \in [shown : BOOLEAN, call : Call \cup {Null}]
    BY <1>1, <2>1 DEF Screens!TypeOK
  <2> HIDE DEF over
  <2> QED
    BY <1>1, <1>3, <2>1, <2>3, <2>4, <2>5, TapsKeepScreens DEF Screens!TypeOK
<1>5. CASE Screens!WriteArrives(c)
  <2>1. UNCHANGED <<row, filter, list, sent>>
        /\ \/ calls' = over /\ UNCHANGED <<top, edited, view>>
           \/ top # "home" /\ Screens!Pop(c, over)
    BY <1>5 DEF Screens!WriteArrives
  <2> HIDE DEF over
  <2>2. CASE calls' = over /\ UNCHANGED <<top, edited, view>>
    BY <1>1, <1>3, <2>1, <2>2, TapsKeepScreens DEF Screens!TypeOK
  <2>3. CASE top # "home" /\ Screens!Pop(c, over)
    <3>1. /\ calls' \in [Call -> Screens!Request]
          /\ top' \in {"home", "view", "edit"}
          /\ view' \in [seen : Screens!Seen, error : BOOLEAN]
          /\ edited' \in [shown : BOOLEAN, call : Call \cup {Null}]
          /\ \A d \in Call : calls'[d].kind = "edit" => calls'[d] = over[d]
      BY <1>1, <1>3, <2>3, PopIsTyped
    <3>2. \A d \in Call : calls'[d].kind = "edit" =>
             calls[d].kind = "edit" /\ calls'[d].patch = calls[d].patch
      BY <1>3, <3>1
    <3> QED
      BY <1>1, <2>1, <3>1, <3>2, TapsKeepScreens DEF Screens!TypeOK
  <2> QED
    BY <2>1, <2>2, <2>3
<1>6. edited' = Screens!Released(c) => edited' \in [shown : BOOLEAN, call : Call \cup {Null}]
  BY <1>1 DEF Screens!Released, Screens!TypeOK
<1>7. CASE Screens!Refused(c)
  <2>1. /\ calls' = over /\ UNCHANGED <<row, filter, list, view, top, sent>>
        /\ edited' = Screens!Released(c)
    BY <1>7 DEF Screens!Refused
  <2> HIDE DEF over
  <2> QED
    BY <1>1, <1>3, <1>6, <2>1, TapsKeepScreens DEF Screens!TypeOK
<1>8. CASE Screens!GiveUp(c)
  <2>1. /\ UNCHANGED <<row, filter, top, sent>>
        /\ edited' = Screens!Released(c)
        /\ list' = [list EXCEPT !.error = @ \/ calls[c].kind = "list"]
        /\ view' = [view EXCEPT !.error = @ \/ calls[c].kind = "view"]
        /\ calls' = over \/ calls' = [calls EXCEPT ![c].waited = FALSE]
    BY <1>8 DEF Screens!GiveUp
  <2>2. /\ list' \in [all : BOOLEAN, seen : Screens!Seen, error : BOOLEAN]
        /\ view' \in [seen : Screens!Seen, error : BOOLEAN]
    BY <1>1, <2>1 DEF Screens!TypeOK
  <2>3. [calls[c] EXCEPT !.waited = FALSE] \in Screens!Request
    BY <1>1 DEF Screens!Request
  <2> HIDE DEF over
  <2>4. /\ calls' \in [Call -> Screens!Request]
        /\ \A d \in Call : calls'[d].kind = "edit" =>
              calls[d].kind = "edit" /\ calls'[d].patch = calls[d].patch
    <3>1. CASE calls' = over
      BY <1>3, <3>1
    <3>2. CASE calls' = [calls EXCEPT ![c].waited = FALSE]
      <4>1. \A d \in Call : calls'[d].kind = calls[d].kind /\ calls'[d].patch = calls[d].patch
        BY <1>1, <3>2 DEF Screens!Request
      <4>2. calls' \in [Call -> Screens!Request]
        BY <1>1, <2>3, <3>2
      <4> QED
        BY <4>1, <4>2
    <3> QED
      BY <2>1, <3>1, <3>2
  <2> QED
    BY <1>1, <1>6, <2>1, <2>2, <2>4, TapsKeepScreens DEF Screens!TypeOK
<1> QED
  BY <1>4, <1>5, <1>7, <1>8

LEMMA NextScreens ==
    ASSUME Screens!ScreensAssumption, Screens!ScreensInv, Screens!Next \/ UNCHANGED screensVars
    PROVE  Screens!ScreensInv'
<1>1. CASE \E c \in Call :
             \/ Screens!ServeRead(c) \/ Screens!EditReads(c)
             \/ Screens!EditWrites(c) \/ Screens!ServeCancel(c)
             \/ Screens!LoadHome(c) \/ Screens!OpenView(c) \/ Screens!OpenForm(c)
             \/ Screens!Retry(c) \/ Screens!Back(c) \/ Screens!Cancel(c)
             \/ \E chip \in Filter : Screens!ChooseFilter(c, chip)
             \/ \E t \in Titre, p \in Asked : Screens!Save(c, t, p)
             \/ Screens!ReadArrives(c) \/ Screens!WriteArrives(c)
             \/ Screens!Refused(c) \/ Screens!GiveUp(c)
  BY <1>1, ReadsKeepScreens, WritesKeepScreens, HomeKeepsScreens, FormKeepsScreens,
     AnswersKeepScreens
<1>2. CASE \E to \in Screens!ListingStatus : Screens!Publication(to)
  <2>1. PICK to \in Screens!ListingStatus : row' = [row EXCEPT !.status = to]
    BY <1>2 DEF Screens!Publication
  <2>2. UNCHANGED <<filter, list, view, top, edited, calls, sent>>
    BY <1>2 DEF Screens!Publication, Screens!screenVars
  <2> QED
    BY <2>1, <2>2 DEF Screens!ScreensInv, Screens!TypeOK, Screens!EditsAreWhole,
       Screens!ContentIsOneForm
<1>3. CASE Screens!DayPasses
  BY <1>3 DEF Screens!DayPasses, Screens!screenVars, Screens!ScreensInv, Screens!TypeOK,
     Screens!EditsAreWhole, Screens!ContentIsOneForm
<1>4. CASE UNCHANGED screensVars
  BY <1>4 DEF screensVars, Screens!ScreensInv, Screens!TypeOK, Screens!EditsAreWhole,
     Screens!ContentIsOneForm
<1> QED
  BY <1>1, <1>2, <1>3, <1>4 DEF Screens!Next

-----------------------------------------------------------------------------
(* DevSessions.                                                             *)

\* The operators of FiniteSets that an instance brings are those of its theorems.
LEMMA SameCardinality ==
    ASSUME NEW S
    PROVE  /\ Recorder!Cardinality(S) = Cardinality(S)
           /\ Recorder!IsFiniteSet(S) <=> IsFiniteSet(S)
<1>1. Recorder!Cardinality(S) = Cardinality(S)
  BY DEF Recorder!Cardinality, Cardinality
<1>2. Recorder!IsFiniteSet(S) <=> IsFiniteSet(S)
  BY DEF Recorder!IsFiniteSet, IsFiniteSet
<1> QED
  BY <1>1, <1>2

LEMMA EventsFit ==
    ASSUME Recorder!DevAssumption, Recorder!RecorderInv
    PROVE  /\ Recorder!Starting \subseteq Task /\ IsFiniteSet(Recorder!Starting)
           /\ Cardinality(Recorder!Starting) \in Nat
           /\ 1 .. pushed \subseteq Recorder!Event
           /\ starts \in Nat /\ pushed \in Nat /\ MaxEvents \in Nat /\ MaxSessions \in Nat
<1>1. Recorder!Starting \subseteq Task /\ IsFiniteSet(Recorder!Starting)
  BY SameCardinality, FS_Subset DEF Recorder!Starting, Recorder!DevAssumption
<1>2. Cardinality(Recorder!Starting) \in Nat
  BY <1>1, FS_CardinalityType
<1>3. starts \in 1 .. MaxSessions /\ pushed \in Nat /\ MaxEvents \in Nat /\ MaxSessions \in Nat
  BY DEF Recorder!RecorderInv, Recorder!TypeOK, Recorder!DevAssumption
<1>4. pushed + Cardinality(Recorder!Starting) <= MaxEvents + starts
  BY SameCardinality DEF Recorder!RecorderInv, Recorder!EveryEventFits
<1> QED
  BY <1>1, <1>2, <1>3, <1>4 DEF Recorder!Event

\* The count of the sessions being started, as one call changes its kind.
LEMMA StartingChanges ==
    ASSUME Recorder!DevAssumption, Recorder!RecorderInv, NEW t \in Task,
           \A u \in Task \ {t} : task'[u].kind = task[u].kind
    PROVE  /\ IsFiniteSet(Recorder!Starting') /\ Cardinality(Recorder!Starting') \in Nat
           /\ task'[t].kind = task[t].kind =>
                 Cardinality(Recorder!Starting') = Cardinality(Recorder!Starting)
           /\ task'[t].kind # "start" =>
                 Cardinality(Recorder!Starting') <= Cardinality(Recorder!Starting)
           /\ task'[t].kind # "start" /\ task[t].kind = "start" =>
                 Cardinality(Recorder!Starting') + 1 = Cardinality(Recorder!Starting)
           /\ Cardinality(Recorder!Starting') <= Cardinality(Recorder!Starting) + 1
<1>1. /\ IsFiniteSet(Recorder!Starting) /\ Cardinality(Recorder!Starting) \in Nat
      /\ Recorder!Starting \subseteq Task
  BY EventsFit
<1>2. CASE task'[t].kind = "start"
  <2>1. Recorder!Starting' = Recorder!Starting \cup {t}
    BY <1>2 DEF Recorder!Starting
  <2>2. task[t].kind = "start" => Recorder!Starting' = Recorder!Starting
    BY <2>1 DEF Recorder!Starting
  <2>3. CASE t \in Recorder!Starting
    <3>1. task[t].kind = "start" /\ Recorder!Starting' = Recorder!Starting
      BY <2>2, <2>3 DEF Recorder!Starting
    <3>2. Cardinality(Recorder!Starting') = Cardinality(Recorder!Starting)
      BY <3>1
    <3> QED
      BY <1>1, <1>2, <3>1, <3>2
  <2>4. CASE t \notin Recorder!Starting
    <3>1. IsFiniteSet(Recorder!Starting')
          /\ Cardinality(Recorder!Starting') = Cardinality(Recorder!Starting) + 1
      BY <1>1, <2>1, <2>4, FS_AddElement
    <3>2. task[t].kind # "start"
      BY <2>4 DEF Recorder!Starting
    <3> QED
      BY <1>1, <1>2, <3>1, <3>2
  <2> QED
    BY <2>3, <2>4
<1>3. CASE task'[t].kind # "start"
  <2>1. Recorder!Starting' = Recorder!Starting \ {t}
    BY <1>3 DEF Recorder!Starting
  <2>2. task[t].kind = "start" <=> t \in Recorder!Starting
    BY DEF Recorder!Starting
  <2>3. t \notin Recorder!Starting => Recorder!Starting' = Recorder!Starting
    BY <2>1
  <2>4. CASE t \in Recorder!Starting
    <3>1. IsFiniteSet(Recorder!Starting')
          /\ Cardinality(Recorder!Starting') = Cardinality(Recorder!Starting) - 1
      BY <1>1, <2>1, <2>4, FS_RemoveElement
    <3>2. Cardinality(Recorder!Starting') \in Nat
      BY <3>1, FS_CardinalityType
    <3> QED
      BY <1>1, <1>3, <2>2, <2>4, <3>1, <3>2
  <2>5. CASE t \notin Recorder!Starting
    <3>1. Recorder!Starting' = Recorder!Starting
      BY <2>3, <2>5
    <3> QED
      BY <1>1, <1>3, <2>2, <2>5, <3>1
  <2> QED
    BY <2>4, <2>5
<1> QED
  BY <1>2, <1>3

LEMMA InitRecorder == Recorder!DevAssumption /\ Recorder!Init => Recorder!RecorderInv
<1> SUFFICES ASSUME Recorder!DevAssumption, Recorder!Init
             PROVE  Recorder!RecorderInv
  OBVIOUS
<1>1. PICK t \in Task :
         task = [x \in Task |-> IF x = t THEN Recorder!Sent("start", Null, {}) ELSE Recorder!NoTask]
  BY DEF Recorder!Init
<1>2. \A x \in Task : /\ task[x] \in Recorder!Tasks /\ task[x].events = {}
                      /\ task[x].kind = "start" <=> x = t
  BY <1>1 DEF Recorder!Sent, Recorder!NoTask, Recorder!Tasks
<1>3. Recorder!TypeOK
  <2>1. task \in [Task -> Recorder!Tasks]
    BY <1>1, <1>2
  <2>2. ended = <<>> /\ starts = 1 /\ pushed = 0 /\ changes = 0
    BY DEF Recorder!Init
  <2>3. copies \in [Recorder!Event -> Nat] /\ ended \in Seq(BOOLEAN)
    BY <2>2 DEF Recorder!Init
  <2>4. starts \in 1 .. MaxSessions /\ changes \in 0 .. MaxChanges
    BY <2>2 DEF Recorder!DevAssumption
  <2>5. /\ appState = "active" /\ sessionId = Null /\ buffer = {} /\ lost = {}
        /\ failed = FALSE
    BY DEF Recorder!Init
  <2> QED
    BY <2>1, <2>2, <2>3, <2>4, <2>5 DEF Recorder!TypeOK
<1>4. Recorder!OnlyBatchesCarry
  BY <1>2 DEF Recorder!OnlyBatchesCarry
<1>5. Recorder!EveryEventFits
  <2>1. Recorder!Starting = {t}
    BY <1>2 DEF Recorder!Starting
  <2>2. Recorder!Cardinality(Recorder!Starting) = 1
    BY <2>1, FS_Singleton, SameCardinality
  <2> QED
    BY <2>2 DEF Recorder!EveryEventFits, Recorder!Init, Recorder!DevAssumption
<1>6. /\ \A e \in 1 .. pushed : Recorder!InOnePlace(e)
      /\ \A e \in Recorder!Event \ (1 .. pushed) : copies[e] = 0
  BY DEF Recorder!Init
<1> QED
  BY <1>3, <1>4, <1>5, <1>6 DEF Recorder!RecorderInv

\* What waits, goes away or has just been pushed was nowhere else.
LEMMA PushedIsKnown ==
    ASSUME Recorder!RecorderInv, NEW e \in Recorder!Event, e \notin 1 .. pushed
    PROVE  /\ e \notin buffer /\ e \notin lost /\ copies[e] = 0
           /\ \A t \in Task : ~Recorder!Carries(t, e)
<1>1. \A t \in Task : task[t].events \subseteq 1 .. pushed
  BY DEF Recorder!RecorderInv, Recorder!TypeOK, Recorder!Tasks
<1> QED
  BY <1>1 DEF Recorder!RecorderInv, Recorder!TypeOK, Recorder!Carries

LEMMA WhatWaits ==
    ASSUME Recorder!RecorderInv, NEW n \in {pushed, pushed + 1}, pushed' = n,
           1 .. n \subseteq Recorder!Event,
           buffer' = buffer \cup ((pushed + 1) .. n), UNCHANGED <<copies, lost>>,
           \A u \in Task, e \in Recorder!Event :
              Recorder!Carries(u, e)' <=> Recorder!Carries(u, e)
    PROVE  /\ \A e \in 1 .. pushed' : Recorder!InOnePlace(e)'
           /\ \A e \in Recorder!Event \ (1 .. pushed') : copies'[e] = 0
<1>1. pushed \in Nat
  BY DEF Recorder!RecorderInv, Recorder!TypeOK
<1>2. ASSUME NEW e \in 1 .. n
      PROVE  Recorder!InOnePlace(e)'
  <2>1. e \in Recorder!Event
    OBVIOUS
  <2>2. CASE e \in 1 .. pushed
    <3>1. e \in buffer' <=> e \in buffer
      BY <1>1, <2>2
    <3>2. Recorder!InOnePlace(e)
      BY <2>2 DEF Recorder!RecorderInv
    <3> QED
      BY <2>1, <3>1, <3>2 DEF Recorder!InOnePlace
  <2>3. CASE e \notin 1 .. pushed
    <3>1. e \in buffer'
      BY <1>1, <2>3
    <3> QED
      BY <2>1, <2>3, <3>1, PushedIsKnown DEF Recorder!InOnePlace
  <2> QED
    BY <2>2, <2>3
<1>3. \A e \in Recorder!Event \ (1 .. n) : copies[e] = 0
  BY <1>1 DEF Recorder!RecorderInv
<1> QED
  BY <1>2, <1>3

LEMMA WhatLeaves ==
    ASSUME Recorder!RecorderInv, NEW n \in {pushed, pushed + 1}, pushed' = n,
           1 .. n \subseteq Recorder!Event, NEW t \in Task,
           buffer' = {}, UNCHANGED <<copies, lost>>,
           \A u \in Task \ {t}, e \in Recorder!Event :
              Recorder!Carries(u, e)' <=> Recorder!Carries(u, e),
           \A e \in Recorder!Event :
              /\ ~Recorder!Carries(t, e)
              /\ Recorder!Carries(t, e)' <=> e \in buffer \cup ((pushed + 1) .. n)
    PROVE  /\ \A e \in 1 .. pushed' : Recorder!InOnePlace(e)'
           /\ \A e \in Recorder!Event \ (1 .. pushed') : copies'[e] = 0
<1>1. pushed \in Nat
  BY DEF Recorder!RecorderInv, Recorder!TypeOK
<1>2. ASSUME NEW e \in 1 .. n
      PROVE  Recorder!InOnePlace(e)'
  <2>1. e \in Recorder!Event
    OBVIOUS
  <2>2. CASE e \in 1 .. pushed
    <3>1. Recorder!Carries(t, e)' <=> e \in buffer
      BY <1>1, <2>1, <2>2
    <3>2. Recorder!InOnePlace(e)
      BY <2>2 DEF Recorder!RecorderInv
    <3>3. CASE e \in buffer
      <4>1. \A u \in Task : Recorder!Carries(u, e)' <=> u = t
        BY <2>1, <3>1, <3>2, <3>3 DEF Recorder!InOnePlace
      <4> QED
        BY <3>2, <3>3, <4>1 DEF Recorder!InOnePlace
    <3>4. CASE e \notin buffer
      <4>1. \A u \in Task : Recorder!Carries(u, e)' <=> Recorder!Carries(u, e)
        BY <2>1, <3>1, <3>4
      <4> QED
        BY <3>2, <3>4, <4>1 DEF Recorder!InOnePlace
    <3> QED
      BY <3>3, <3>4
  <2>3. CASE e \notin 1 .. pushed
    <3>1. Recorder!Carries(t, e)'
      BY <1>1, <2>1, <2>3
    <3>2. \A u \in Task : Recorder!Carries(u, e)' <=> u = t
      BY <2>1, <2>3, <3>1, PushedIsKnown
    <3> QED
      BY <2>1, <2>3, <3>2, PushedIsKnown DEF Recorder!InOnePlace
  <2> QED
    BY <2>2, <2>3
<1>3. \A e \in Recorder!Event \ (1 .. n) : copies[e] = 0
  BY <1>1 DEF Recorder!RecorderInv
<1> QED
  BY <1>2, <1>3

\* The types of a call and of what is around it, as more events are known.
LEMMA TasksGrow ==
    ASSUME Recorder!RecorderInv, NEW n \in Nat, pushed <= n, pushed' = n
    PROVE  /\ \A t \in Task : task[t] \in Recorder!Tasks'
           /\ buffer \subseteq 1 .. n /\ lost \subseteq 1 .. n
<1>1. pushed \in Nat /\ buffer \subseteq 1 .. pushed /\ lost \subseteq 1 .. pushed
      /\ \A t \in Task : task[t] \in Recorder!Tasks
  BY DEF Recorder!RecorderInv, Recorder!TypeOK
<1>2. 1 .. pushed \subseteq 1 .. n
  BY <1>1
<1> QED
  BY <1>1, <1>2 DEF Recorder!Tasks

LEMMA FlushKeepsRecorder ==
    ASSUME Recorder!DevAssumption, Recorder!RecorderInv,
           NEW n \in {pushed, pushed + 1}, pushed' = n, NEW t \in Task,
           n = pushed \/ n <= MaxEvents \/ task[t].kind = "start",
           task[t].kind \notin {"batch", "last"},
           NEW kind \in {"batch", "last"}, NEW session \in Nat \cup {Null},
           task' = [task EXCEPT ![t] =
                      Recorder!Sent(kind, session, buffer \cup ((pushed + 1) .. n))],
           buffer' = {},
           UNCHANGED <<copies, lost, ended, starts>>,
           appState' \in {"active", "inactive", "background"}, sessionId' \in Nat \cup {Null},
           changes' \in 0 .. MaxChanges, failed' \in BOOLEAN
    PROVE  Recorder!RecorderInv'
<1> DEFINE q == Recorder!Sent(kind, session, buffer \cup ((pushed + 1) .. n))
<1>1. /\ task \in [Task -> Recorder!Tasks] /\ pushed \in Nat /\ buffer \subseteq 1 .. pushed
      /\ lost \subseteq 1 .. pushed
      /\ n \in Nat /\ pushed <= n
  BY DEF Recorder!RecorderInv, Recorder!TypeOK
<1>2. q.events \subseteq 1 .. n /\ q.events = buffer \cup ((pushed + 1) .. n) /\ ~q.served
         /\ q.kind \in {"batch", "last"} /\ q.kind # "start"
  BY <1>1 DEF Recorder!Sent
<1>3. task'[t] = q /\ \A u \in Task \ {t} : task'[u] = task[u]
  BY <1>1
<1>4. task' \in [Task -> Recorder!Tasks']
  <2>1. q \in Recorder!Tasks'
    BY <1>2 DEF Recorder!Tasks, Recorder!Sent
  <2>2. \A u \in Task : task[u] \in Recorder!Tasks'
    BY <1>1, TasksGrow
  <2>3. task' = [task EXCEPT ![t] = q]
    OBVIOUS
  <2> HIDE DEF q
  <2> QED
    BY <1>1, <2>1, <2>2, <2>3
<1>5. task[t].events = {}
  BY DEF Recorder!RecorderInv, Recorder!OnlyBatchesCarry
<1>6. Recorder!OnlyBatchesCarry'
  BY <1>2, <1>3 DEF Recorder!RecorderInv, Recorder!OnlyBatchesCarry
<1>7. /\ Cardinality(Recorder!Starting') \in Nat /\ Cardinality(Recorder!Starting) \in Nat
      /\ Cardinality(Recorder!Starting') <= Cardinality(Recorder!Starting)
      /\ task[t].kind = "start" =>
            Cardinality(Recorder!Starting') + 1 = Cardinality(Recorder!Starting)
  BY <1>2, <1>3, StartingChanges, EventsFit
<1>8. Cardinality(Recorder!Starting') <= starts
      /\ n + Cardinality(Recorder!Starting') <= MaxEvents + starts
  <2>1. Cardinality(Recorder!Starting) <= starts
        /\ pushed + Cardinality(Recorder!Starting) <= MaxEvents + starts
    BY SameCardinality DEF Recorder!RecorderInv, Recorder!EveryEventFits
  <2>2. starts \in Nat /\ MaxEvents \in Nat
    BY EventsFit
  <2> QED
    BY <1>1, <1>7, <2>1, <2>2
<1>9. Recorder!EveryEventFits'
  <2>1. Recorder!Cardinality(Recorder!Starting') = Cardinality(Recorder!Starting')
    BY SameCardinality
  <2> QED
    BY <1>8, <2>1 DEF Recorder!EveryEventFits
<1>10. 1 .. n \subseteq Recorder!Event
  <2>1. starts \in 1 .. MaxSessions /\ MaxSessions \in Nat /\ MaxEvents \in Nat
    BY DEF Recorder!RecorderInv, Recorder!TypeOK, Recorder!DevAssumption
  <2> QED
    BY <1>1, <1>7, <1>8, <2>1 DEF Recorder!Event
<1>11. /\ \A e \in 1 .. pushed' : Recorder!InOnePlace(e)'
       /\ \A e \in Recorder!Event \ (1 .. pushed') : copies'[e] = 0
  <2>1. \A u \in Task \ {t}, e \in Recorder!Event :
           Recorder!Carries(u, e)' <=> Recorder!Carries(u, e)
    BY <1>3 DEF Recorder!Carries
  <2>2. \A e \in Recorder!Event :
           /\ ~Recorder!Carries(t, e)
           /\ Recorder!Carries(t, e)' <=> e \in buffer \cup ((pushed + 1) .. n)
    BY <1>2, <1>3, <1>5 DEF Recorder!Carries
  <2> QED
    BY <1>10, <2>1, <2>2, WhatLeaves
<1>12. Recorder!TypeOK'
  <2>1. lost \subseteq 1 .. n
    BY <1>1
  <2>2. /\ ended \in Seq(BOOLEAN) /\ copies \in [Recorder!Event -> Nat]
        /\ starts \in 1 .. MaxSessions
    BY DEF Recorder!RecorderInv, Recorder!TypeOK
  <2> QED
    BY <1>1, <1>4, <2>1, <2>2 DEF Recorder!TypeOK
<1> QED
  BY <1>6, <1>9, <1>11, <1>12 DEF Recorder!RecorderInv

\* An event waits for the next flush; t is a call, if one is concerned.
LEMMA WaitKeepsRecorder ==
    ASSUME Recorder!DevAssumption, Recorder!RecorderInv,
           NEW n \in {pushed, pushed + 1}, pushed' = n,
           buffer' = buffer \cup ((pushed + 1) .. n),
           UNCHANGED <<copies, lost, starts>>, ended' \in Seq(BOOLEAN),
           sessionId' \in Nat \cup {Null},
           UNCHANGED appState, UNCHANGED changes, failed' \in BOOLEAN,
           task' \in [Task -> Recorder!Tasks'],
           \A t \in Task : \/ /\ task'[t].events = task[t].events
                              /\ task'[t].served <=> task[t].served
                           \/ task'[t].events = {} /\ task[t].events = {},
           Recorder!OnlyBatchesCarry', Recorder!EveryEventFits'
    PROVE  Recorder!RecorderInv'
<1>1. /\ pushed \in Nat /\ buffer \subseteq 1 .. pushed /\ lost \subseteq 1 .. pushed
      /\ starts \in 1 .. MaxSessions /\ changes \in 0 .. MaxChanges
      /\ appState \in {"active", "inactive", "background"}
      /\ copies \in [Recorder!Event -> Nat]
  BY DEF Recorder!RecorderInv, Recorder!TypeOK
<1>2. n \in Nat /\ pushed <= n /\ buffer' \subseteq 1 .. n /\ lost \subseteq 1 .. n
  <2>1. n \in Nat /\ pushed <= n
    BY <1>1
  <2>2. 1 .. pushed \subseteq 1 .. n /\ (pushed + 1) .. n \subseteq 1 .. n
    BY <1>1, <2>1
  <2> QED
    BY <1>1, <2>1, <2>2
<1>3. Recorder!TypeOK'
  BY <1>1, <1>2 DEF Recorder!TypeOK
<1>4. 1 .. n \subseteq Recorder!Event
  <2>1. n + Cardinality(Recorder!Starting') <= MaxEvents + starts
    <3>1. Recorder!Cardinality(Recorder!Starting') = Cardinality(Recorder!Starting')
      BY SameCardinality
    <3> QED
      BY <3>1 DEF Recorder!EveryEventFits
  <2>2. MaxEvents \in Nat /\ MaxSessions \in Nat
    BY DEF Recorder!DevAssumption
  <2>3. Cardinality(Recorder!Starting') \in Nat
    <3>1. Recorder!Starting' \subseteq Task
      BY DEF Recorder!Starting
    <3>2. IsFiniteSet(Task)
      BY SameCardinality DEF Recorder!DevAssumption
    <3> QED
      BY <3>1, <3>2, FS_Subset, FS_CardinalityType
  <2> QED
    BY <1>1, <1>2, <2>1, <2>2, <2>3 DEF Recorder!Event
<1>5. \A u \in Task, e \in Recorder!Event :
         Recorder!Carries(u, e)' <=> Recorder!Carries(u, e)
  BY DEF Recorder!Carries
<1>6. /\ \A e \in 1 .. pushed' : Recorder!InOnePlace(e)'
      /\ \A e \in Recorder!Event \ (1 .. pushed') : copies'[e] = 0
  BY <1>4, <1>5, WhatWaits
<1> QED
  BY <1>3, <1>6 DEF Recorder!RecorderInv

LEMMA PushKeepsRecorder ==
    ASSUME Recorder!DevAssumption, Recorder!RecorderInv, Recorder!Push
    PROVE  Recorder!RecorderInv'
<1>1. /\ task \in [Task -> Recorder!Tasks] /\ pushed \in Nat /\ ended \in Seq(BOOLEAN)
      /\ appState \in {"active", "inactive", "background"} /\ sessionId \in Nat \cup {Null}
      /\ changes \in 0 .. MaxChanges /\ failed \in BOOLEAN /\ MaxEvents \in Nat
  BY DEF Recorder!RecorderInv, Recorder!TypeOK, Recorder!DevAssumption
<1>2. /\ pushed < MaxEvents /\ pushed' = pushed + 1
      /\ UNCHANGED <<appState, sessionId, ended, copies, lost, starts, changes, failed>>
  BY DEF Recorder!Push, Recorder!rows
<1>3. PICK n \in {pushed, pushed + 1} : n = pushed + 1
  OBVIOUS
<1>4. (pushed + 1) .. n = {pushed + 1} /\ n <= MaxEvents
  BY <1>1, <1>2, <1>3
<1>5. CASE buffer' = buffer \cup {pushed + 1} /\ UNCHANGED task
  <2>1. task' \in [Task -> Recorder!Tasks']
    BY <1>1, <1>2, <1>3, <1>5, TasksGrow
  <2>2. Recorder!OnlyBatchesCarry'
    BY <1>5 DEF Recorder!RecorderInv, Recorder!OnlyBatchesCarry
  <2>3. Recorder!EveryEventFits'
    <3>1. Recorder!Starting' = Recorder!Starting
      BY <1>5 DEF Recorder!Starting
    <3>2. Recorder!Cardinality(Recorder!Starting') = Recorder!Cardinality(Recorder!Starting)
      BY <3>1
    <3>3. Cardinality(Recorder!Starting) \in Nat /\ starts \in Nat
      BY EventsFit
    <3>4. Recorder!Cardinality(Recorder!Starting) <= starts
      BY DEF Recorder!RecorderInv, Recorder!EveryEventFits
    <3> QED
      BY <1>1, <1>2, <3>2, <3>3, <3>4, SameCardinality DEF Recorder!EveryEventFits
  <2> QED
    BY <1>1, <1>2, <1>3, <1>4, <1>5, <2>1, <2>2, <2>3, WaitKeepsRecorder
<1>6. CASE \E t \in Task : /\ sessionId # Null /\ task[t] = Recorder!NoTask
                           /\ Recorder!Flushed(t, "batch", sessionId, buffer \cup {pushed + 1})
  <2>1. PICK t \in Task :
           /\ sessionId # Null /\ task[t] = Recorder!NoTask
           /\ Recorder!Flushed(t, "batch", sessionId, buffer \cup {pushed + 1})
    BY <1>6
  <2>2. PICK session \in Nat \cup {Null} : session = sessionId
    BY <1>1
  <2>3. /\ task' = [task EXCEPT ![t] =
                     Recorder!Sent("batch", session, buffer \cup ((pushed + 1) .. n))]
        /\ buffer' = {}
    BY <1>4, <2>1, <2>2 DEF Recorder!Flushed, Recorder!Taken
  <2>4. task[t].kind = "none"
    BY <2>1 DEF Recorder!NoTask
  <2> QED
    BY <1>1, <1>2, <1>3, <1>4, <2>3, <2>4, FlushKeepsRecorder
<1> QED
  BY <1>5, <1>6 DEF Recorder!Push

LEMMA TimerKeepsRecorder ==
    ASSUME Recorder!DevAssumption, Recorder!RecorderInv, Recorder!FlushTimer
    PROVE  Recorder!RecorderInv'
<1>1. /\ pushed \in Nat /\ changes \in 0 .. MaxChanges /\ failed \in BOOLEAN
      /\ appState \in {"active", "inactive", "background"} /\ sessionId \in Nat \cup {Null}
  BY DEF Recorder!RecorderInv, Recorder!TypeOK
<1>2. PICK t \in Task : /\ task[t] = Recorder!NoTask
                        /\ Recorder!Flushed(t, "batch", sessionId, buffer)
  BY DEF Recorder!FlushTimer
<1>3. UNCHANGED <<appState, sessionId, pushed, ended, copies, lost, starts, changes, failed>>
  BY DEF Recorder!FlushTimer, Recorder!rows
<1>4. PICK n \in {pushed, pushed + 1} : n = pushed
  OBVIOUS
<1>5. PICK session \in Nat \cup {Null} : session = sessionId
  BY <1>1
<1>6. buffer \cup ((pushed + 1) .. n) = buffer
  BY <1>1, <1>4
<1>7. /\ task' = [task EXCEPT ![t] =
                   Recorder!Sent("batch", session, buffer \cup ((pushed + 1) .. n))]
      /\ buffer' = {}
  BY <1>2, <1>5, <1>6 DEF Recorder!Flushed, Recorder!Taken
<1>8. task[t].kind = "none"
  BY <1>2 DEF Recorder!NoTask
<1> QED
  BY <1>1, <1>3, <1>4, <1>7, <1>8, FlushKeepsRecorder

\* A call gives way to one that carries nothing.
LEMMA EmptyKeepsRecorder ==
    ASSUME Recorder!DevAssumption, Recorder!RecorderInv, NEW t \in Task,
           task[t].events = {} \/ task[t].served,
           NEW kind \in {"none", "start", "stop"}, NEW session \in Nat \cup {Null},
           NEW served \in BOOLEAN,
           task' = [task EXCEPT ![t] = [kind |-> kind, session |-> session, events |-> {},
                                        served |-> served]],
           \/ starts' = starts /\ kind # "start"
           \/ starts' = starts + 1 /\ starts < MaxSessions,
           UNCHANGED <<pushed, ended, buffer, copies, lost>>,
           appState' \in {"active", "inactive", "background"}, sessionId' \in Nat \cup {Null},
           changes' \in 0 .. MaxChanges, failed' \in BOOLEAN
    PROVE  Recorder!RecorderInv'
<1> DEFINE q == [kind |-> kind, session |-> session, events |-> {}, served |-> served]
<1>1. /\ task \in [Task -> Recorder!Tasks] /\ pushed \in Nat /\ starts \in 1 .. MaxSessions
      /\ MaxSessions \in Nat /\ MaxEvents \in Nat
  BY DEF Recorder!RecorderInv, Recorder!TypeOK, Recorder!DevAssumption
<1>2. q.events = {} /\ q.kind = kind /\ task' = [task EXCEPT ![t] = q]
  OBVIOUS
<1>3. q \in Recorder!Tasks /\ Recorder!Tasks' = Recorder!Tasks
  BY DEF Recorder!Tasks
<1> HIDE DEF q
<1>4. task' \in [Task -> Recorder!Tasks'] /\ task'[t] = q
      /\ \A u \in Task \ {t} : task'[u] = task[u]
  BY <1>1, <1>2, <1>3
<1>5. starts' \in 1 .. MaxSessions
  BY <1>1
<1>6. Recorder!TypeOK'
  BY <1>4, <1>5 DEF Recorder!RecorderInv, Recorder!TypeOK
<1>7. Recorder!OnlyBatchesCarry'
  BY <1>2, <1>4 DEF Recorder!RecorderInv, Recorder!OnlyBatchesCarry
<1>8. Recorder!EveryEventFits'
  <2>1. /\ Cardinality(Recorder!Starting') \in Nat /\ Cardinality(Recorder!Starting) \in Nat
        /\ kind # "start" =>
              Cardinality(Recorder!Starting') <= Cardinality(Recorder!Starting)
        /\ Cardinality(Recorder!Starting') <= Cardinality(Recorder!Starting) + 1
    BY <1>2, <1>4, StartingChanges, EventsFit
  <2>2. Cardinality(Recorder!Starting) <= starts
        /\ pushed + Cardinality(Recorder!Starting) <= MaxEvents + starts
    BY SameCardinality DEF Recorder!RecorderInv, Recorder!EveryEventFits
  <2>3. Cardinality(Recorder!Starting') <= starts'
        /\ pushed + Cardinality(Recorder!Starting') <= MaxEvents + starts'
    BY <1>1, <2>1, <2>2
  <2> QED
    BY <2>3, SameCardinality DEF Recorder!EveryEventFits
<1>9. \A u \in Task, e \in Recorder!Event :
         Recorder!Carries(u, e)' <=> Recorder!Carries(u, e)
  BY <1>2, <1>4 DEF Recorder!Carries
<1>10. PICK n \in {pushed, pushed + 1} : n = pushed
  OBVIOUS
<1>11. 1 .. n \subseteq Recorder!Event /\ buffer' = buffer \cup ((pushed + 1) .. n)
  BY <1>1, <1>10, EventsFit
<1>12. /\ \A e \in 1 .. pushed' : Recorder!InOnePlace(e)'
       /\ \A e \in Recorder!Event \ (1 .. pushed') : copies'[e] = 0
  BY <1>9, <1>10, <1>11, WhatWaits
<1> QED
  BY <1>6, <1>7, <1>8, <1>12 DEF Recorder!RecorderInv

LEMMA ChangeKeepsRecorder ==
    ASSUME Recorder!DevAssumption, Recorder!RecorderInv,
           NEW to \in {"active", "inactive", "background"}, Recorder!Change(to)
    PROVE  Recorder!RecorderInv'
<1>1. /\ pushed \in Nat /\ changes \in 0 .. MaxChanges /\ failed \in BOOLEAN
      /\ appState \in {"active", "inactive", "background"} /\ sessionId \in Nat \cup {Null}
      /\ MaxChanges \in Nat
  BY DEF Recorder!RecorderInv, Recorder!TypeOK, Recorder!DevAssumption
<1>2. /\ changes < MaxChanges /\ appState' = to /\ changes' = changes + 1
      /\ UNCHANGED <<pushed, ended, copies, lost, failed>>
  BY DEF Recorder!Change, Recorder!rows
<1>3. changes' \in 0 .. MaxChanges
  BY <1>1, <1>2
<1>4. \A t \in Task : task[t] = Recorder!NoTask => task[t].events = {} /\ task[t].kind = "none"
  BY DEF Recorder!NoTask
<1>5. PICK session \in Nat \cup {Null} : session = sessionId
  BY <1>1
<1>6. CASE to = "active" /\ sessionId = Null
  <2>1. /\ starts < MaxSessions /\ starts' = starts + 1 /\ UNCHANGED <<sessionId, buffer>>
        /\ \E t \in Task : /\ task[t] = Recorder!NoTask
                           /\ task' = [task EXCEPT ![t] = Recorder!Sent("start", Null, {})]
    BY <1>6 DEF Recorder!Change
  <2>2. PICK t \in Task : /\ task[t] = Recorder!NoTask
                          /\ task' = [task EXCEPT ![t] = Recorder!Sent("start", Null, {})]
    BY <2>1
  <2> QED
    BY <1>1, <1>2, <1>3, <1>4, <2>1, <2>2, EmptyKeepsRecorder DEF Recorder!Sent
<1>7. CASE ~(to = "active" /\ sessionId = Null)
  <2>1. CASE to # "active" /\ sessionId # Null
    <3>1. PICK t \in Task :
             /\ task[t] = Recorder!NoTask
             /\ IF buffer # {}
                THEN Recorder!Flushed(t, "last", sessionId, buffer) /\ UNCHANGED sessionId
                ELSE Recorder!TakeAndStop(t) /\ UNCHANGED buffer
      BY <1>7, <2>1 DEF Recorder!Change
    <3>2. UNCHANGED starts
      BY <1>7 DEF Recorder!Change
    <3>3. CASE buffer # {}
      <4>1. PICK n \in {pushed, pushed + 1} : n = pushed
        OBVIOUS
      <4>2. buffer \cup ((pushed + 1) .. n) = buffer
        BY <1>1, <4>1
      <4>3. /\ task' = [task EXCEPT ![t] =
                         Recorder!Sent("last", session, buffer \cup ((pushed + 1) .. n))]
            /\ buffer' = {} /\ UNCHANGED sessionId
        BY <1>5, <3>1, <3>3, <4>2 DEF Recorder!Flushed, Recorder!Taken
      <4>4. task[t].kind = "none"
        BY <1>4, <3>1
      <4> QED
        BY <1>1, <1>2, <1>3, <3>2, <4>1, <4>3, <4>4, FlushKeepsRecorder
    <3>4. CASE buffer = {}
      <4>1. /\ task' = [task EXCEPT ![t] = Recorder!Sent("stop", session, {})]
            /\ sessionId' = Null /\ UNCHANGED buffer
        BY <1>5, <3>1, <3>4 DEF Recorder!TakeAndStop, Recorder!Released
      <4> QED
        BY <1>1, <1>2, <1>3, <1>4, <3>1, <3>2, <4>1, EmptyKeepsRecorder DEF Recorder!Sent
    <3> QED
      BY <3>3, <3>4
  <2>2. CASE ~(to # "active" /\ sessionId # Null)
    <3>1. UNCHANGED <<task, sessionId, buffer, starts, pushed, ended, copies, lost, failed>>
      BY <1>2, <1>7, <2>2 DEF Recorder!Change
    <3> QED
      BY <1>2, <1>3, <3>1 DEF Recorder!RecorderInv, Recorder!TypeOK, Recorder!Tasks,
         Recorder!OnlyBatchesCarry, Recorder!EveryEventFits, Recorder!Starting,
         Recorder!InOnePlace, Recorder!Carries
  <2> QED
    BY <2>1, <2>2
<1> QED
  BY <1>6, <1>7

LEMMA ServeKeepsRecorder ==
    ASSUME Recorder!DevAssumption, Recorder!RecorderInv, NEW t \in Task, Recorder!Serve(t)
    PROVE  Recorder!RecorderInv'
<1>1. /\ task \in [Task -> Recorder!Tasks] /\ task[t] \in Recorder!Tasks /\ pushed \in Nat
      /\ ended \in Seq(BOOLEAN) /\ copies \in [Recorder!Event -> Nat]
      /\ lost \subseteq 1 .. pushed /\ buffer \subseteq 1 .. pushed
      /\ failed \in BOOLEAN /\ sessionId \in Nat \cup {Null}
  BY DEF Recorder!RecorderInv, Recorder!TypeOK
<1>2. /\ task[t].kind # "none" /\ ~task[t].served
      /\ UNCHANGED <<appState, sessionId, buffer, pushed, lost, starts, changes, failed>>
  BY DEF Recorder!Serve
<1>3. PICK q \in Recorder!Tasks :
         /\ task' = [task EXCEPT ![t] = q] /\ q.served /\ q.kind = task[t].kind
         /\ q.events = task[t].events
         /\ ended' \in Seq(BOOLEAN)
         /\ \/ task[t].kind \notin {"batch", "last"} /\ UNCHANGED copies
            \/ /\ task[t].kind \in {"batch", "last"}
               /\ copies' = [e \in Recorder!Event |->
                               copies[e] + IF e \in task[t].events THEN 1 ELSE 0]
  <2>1. CASE /\ task[t].kind = "start" /\ ended' = Append(ended, FALSE) /\ UNCHANGED copies
             /\ task' = [task EXCEPT ![t].served = TRUE, ![t].session = Len(ended')]
    <3>1. ended' \in Seq(BOOLEAN) /\ Len(ended') \in Nat
      BY <1>1, <2>1
    <3>2. [task[t] EXCEPT !.served = TRUE, !.session = Len(ended')] \in Recorder!Tasks
      BY <1>1, <3>1 DEF Recorder!Tasks
    <3>3. task' = [task EXCEPT ![t] = [task[t] EXCEPT !.served = TRUE, !.session = Len(ended')]]
      BY <1>1, <2>1
    <3>4. PICK q \in Recorder!Tasks :
             q = [task[t] EXCEPT !.served = TRUE, !.session = Len(ended')]
      BY <3>2
    <3>5. q.served /\ q.kind = task[t].kind /\ q.events = task[t].events
      BY <1>1, <3>4 DEF Recorder!Tasks
    <3> QED
      BY <2>1, <3>1, <3>3, <3>4, <3>5
  <2>2. CASE /\ task[t].kind \in {"batch", "last"}
             /\ copies' = [e \in Recorder!Event |->
                              copies[e] + IF e \in task[t].events THEN 1 ELSE 0]
             /\ task' = [task EXCEPT ![t].served = TRUE] /\ UNCHANGED ended
    <3>1. PICK q \in Recorder!Tasks : q = [task[t] EXCEPT !.served = TRUE]
      BY <1>1 DEF Recorder!Tasks
    <3>2. q.served /\ q.kind = task[t].kind /\ q.events = task[t].events
          /\ task' = [task EXCEPT ![t] = q]
      BY <1>1, <2>2, <3>1 DEF Recorder!Tasks
    <3> QED
      BY <1>1, <2>2, <3>2
  <2>3. CASE /\ task[t].kind = "stop" /\ UNCHANGED copies
             /\ ended' = [s \in Recorder!Session |-> ended[s] \/ s = task[t].session]
             /\ task' = [task EXCEPT ![t].served = TRUE]
    <3>1. ended' \in Seq(BOOLEAN)
      <4>1. PICK n \in Nat : n = Len(ended) /\ DOMAIN ended = 1 .. n
        BY <1>1
      <4>2. ended' \in [1 .. n -> BOOLEAN]
        BY <1>1, <2>3, <4>1 DEF Recorder!Session
      <4> QED
        BY <4>2
    <3>2. PICK q \in Recorder!Tasks : q = [task[t] EXCEPT !.served = TRUE]
      BY <1>1 DEF Recorder!Tasks
    <3>3. q.served /\ q.kind = task[t].kind /\ q.events = task[t].events
          /\ task' = [task EXCEPT ![t] = q]
      BY <1>1, <2>3, <3>2 DEF Recorder!Tasks
    <3> QED
      BY <2>3, <3>1, <3>3
  <2> QED
    BY <2>1, <2>2, <2>3 DEF Recorder!Serve
<1>4. task'[t] = q /\ \A u \in Task \ {t} : task'[u] = task[u]
  BY <1>1, <1>3
<1>5. task' \in [Task -> Recorder!Tasks'] /\ copies' \in [Recorder!Event -> Nat]
  <2>1. Recorder!Tasks' = Recorder!Tasks
    BY <1>2 DEF Recorder!Tasks
  <2>2. task' \in [Task -> Recorder!Tasks]
    BY <1>1, <1>3
  <2>3. \A e \in Recorder!Event : copies[e] \in Nat /\ copies[e] + 1 \in Nat
    BY <1>1
  <2>4. \A e \in Recorder!Event : copies[e] + (IF e \in task[t].events THEN 1 ELSE 0) \in Nat
    BY <2>3
  <2>5. copies' \in [Recorder!Event -> Nat]
    <3>1. CASE UNCHANGED copies
      BY <1>1, <3>1
    <3>2. CASE copies' = [e \in Recorder!Event |->
                            copies[e] + IF e \in task[t].events THEN 1 ELSE 0]
      BY <2>4, <3>2
    <3> QED
      BY <1>3, <3>1, <3>2
  <2> QED
    BY <2>1, <2>2, <2>5
<1>6. Recorder!TypeOK'
  BY <1>2, <1>3, <1>5 DEF Recorder!RecorderInv, Recorder!TypeOK
<1>7. Recorder!OnlyBatchesCarry'
  BY <1>3, <1>4 DEF Recorder!RecorderInv, Recorder!OnlyBatchesCarry
<1>8. Recorder!EveryEventFits'
  <2>1. Cardinality(Recorder!Starting') = Cardinality(Recorder!Starting)
    BY <1>3, <1>4, StartingChanges
  <2> QED
    BY <1>2, <2>1, SameCardinality DEF Recorder!RecorderInv, Recorder!EveryEventFits
<1>9. 1 .. pushed \subseteq Recorder!Event
  BY EventsFit
<1>10. \A u \in Task, e \in Recorder!Event :
          Recorder!Carries(u, e)' <=> u # t /\ Recorder!Carries(u, e)
  BY <1>3, <1>4 DEF Recorder!Carries
<1>11. ASSUME NEW e \in Recorder!Event
       PROVE  copies'[e] = IF Recorder!Carries(t, e) THEN copies[e] + 1 ELSE copies[e]
  <2>1. copies[e] \in Nat
    BY <1>1
  <2>2. task[t].kind \notin {"batch", "last"} => task[t].events = {}
    BY DEF Recorder!RecorderInv, Recorder!OnlyBatchesCarry
  <2> QED
    BY <1>2, <1>3, <2>1, <2>2 DEF Recorder!Carries
<1>12. ASSUME NEW e \in 1 .. pushed
       PROVE  Recorder!InOnePlace(e)'
  <2>1. e \in Recorder!Event /\ Recorder!InOnePlace(e)
    BY <1>9 DEF Recorder!RecorderInv
  <2>2. CASE Recorder!Carries(t, e)
    <3>1. e \notin buffer /\ e \notin lost /\ copies[e] = 0
          /\ \A u \in Task : Recorder!Carries(u, e) => u = t
      BY <2>1, <2>2 DEF Recorder!InOnePlace
    <3> QED
      BY <1>2, <1>10, <1>11, <2>1, <2>2, <3>1 DEF Recorder!InOnePlace
  <2>3. CASE ~Recorder!Carries(t, e)
    <3>1. \A u \in Task : Recorder!Carries(u, e)' <=> Recorder!Carries(u, e)
      BY <1>10, <2>1, <2>3
    <3> QED
      BY <1>2, <1>11, <2>1, <2>3, <3>1 DEF Recorder!InOnePlace
  <2> QED
    BY <2>2, <2>3
<1>13. \A e \in Recorder!Event \ (1 .. pushed) : copies'[e] = 0
  BY <1>11, PushedIsKnown
<1> QED
  BY <1>2, <1>6, <1>7, <1>8, <1>12, <1>13 DEF Recorder!RecorderInv

LEMMA StartedKeepsRecorder ==
    ASSUME Recorder!DevAssumption, Recorder!RecorderInv, NEW t \in Task, Recorder!Started(t)
    PROVE  Recorder!RecorderInv'
<1>1. /\ task \in [Task -> Recorder!Tasks] /\ task[t] \in Recorder!Tasks /\ pushed \in Nat
      /\ ended \in Seq(BOOLEAN) /\ failed \in BOOLEAN /\ changes \in 0 .. MaxChanges
      /\ appState \in {"active", "inactive", "background"} /\ starts \in Nat /\ MaxEvents \in Nat
  BY EventsFit DEF Recorder!RecorderInv, Recorder!TypeOK
<1>2. /\ task[t].kind = "start" /\ pushed' = pushed + 1 /\ sessionId' = task[t].session
      /\ UNCHANGED <<appState, ended, copies, lost, starts, changes, failed>>
  BY DEF Recorder!Started, Recorder!rows
<1>3. task[t].session \in Nat \cup {Null} /\ task[t].events = {}
  BY <1>1, <1>2 DEF Recorder!Tasks, Recorder!RecorderInv, Recorder!OnlyBatchesCarry
<1>4. PICK n \in {pushed, pushed + 1} : n = pushed + 1
  OBVIOUS
<1>5. (pushed + 1) .. n = {pushed + 1}
  BY <1>1, <1>4
<1>6. CASE Recorder!Flushed(t, "batch", task[t].session, buffer \cup {pushed + 1})
  <2>1. PICK session \in Nat \cup {Null} : session = task[t].session
    BY <1>3
  <2>2. /\ task' = [task EXCEPT ![t] =
                     Recorder!Sent("batch", session, buffer \cup ((pushed + 1) .. n))]
        /\ buffer' = {}
    BY <1>5, <1>6, <2>1 DEF Recorder!Flushed, Recorder!Taken
  <2> QED
    BY <1>1, <1>2, <1>3, <1>4, <2>2, FlushKeepsRecorder
<1>7. CASE buffer' = buffer \cup {pushed + 1} /\ task' = [task EXCEPT ![t] = Recorder!NoTask]
  <2>1. Recorder!NoTask \in Recorder!Tasks' /\ Recorder!NoTask.events = {}
        /\ Recorder!NoTask.kind = "none"
    BY DEF Recorder!NoTask, Recorder!Tasks
  <2>2. \A u \in Task : task[u] \in Recorder!Tasks'
    BY <1>1, <1>2, <1>4, TasksGrow
  <2>3. task' \in [Task -> Recorder!Tasks'] /\ task'[t] = Recorder!NoTask
        /\ \A u \in Task \ {t} : task'[u] = task[u]
    BY <1>1, <1>7, <2>1, <2>2
  <2>4. Recorder!OnlyBatchesCarry'
    BY <2>1, <2>3 DEF Recorder!RecorderInv, Recorder!OnlyBatchesCarry
  <2>5. Recorder!EveryEventFits'
    <3>1. /\ Cardinality(Recorder!Starting') \in Nat /\ Cardinality(Recorder!Starting) \in Nat
          /\ Cardinality(Recorder!Starting') + 1 = Cardinality(Recorder!Starting)
      BY <1>2, <2>1, <2>3, StartingChanges, EventsFit
    <3>2. Cardinality(Recorder!Starting) <= starts
          /\ pushed + Cardinality(Recorder!Starting) <= MaxEvents + starts
      BY SameCardinality DEF Recorder!RecorderInv, Recorder!EveryEventFits
    <3>3. Cardinality(Recorder!Starting') <= starts
          /\ pushed + 1 + Cardinality(Recorder!Starting') <= MaxEvents + starts
      BY <1>1, <3>1, <3>2
    <3> QED
      BY <1>2, <3>3, SameCardinality DEF Recorder!EveryEventFits
  <2> QED
    BY <1>1, <1>2, <1>3, <1>4, <1>5, <1>7, <2>1, <2>3, <2>4, <2>5, WaitKeepsRecorder
<1> QED
  BY <1>6, <1>7 DEF Recorder!Started

\* What is left of a call that is over.
LEMMA OverIsEmpty ==
    ASSUME Recorder!RecorderInv, NEW t \in Task, Recorder!Over(t)
    PROVE  /\ sessionId' \in Nat \cup {Null}
           /\ \E kind \in {"none", "stop"}, session \in Nat \cup {Null} :
                 task' = [task EXCEPT ![t] = [kind |-> kind, session |-> session, events |-> {},
                                              served |-> FALSE]]
<1>1. sessionId \in Nat \cup {Null}
  BY DEF Recorder!RecorderInv, Recorder!TypeOK
<1> QED
  BY <1>1 DEF Recorder!Over, Recorder!TakeAndStop, Recorder!Released, Recorder!Sent,
     Recorder!NoTask

LEMMA DoneKeepsRecorder ==
    ASSUME Recorder!DevAssumption, Recorder!RecorderInv, NEW t \in Task, Recorder!Done(t)
    PROVE  Recorder!RecorderInv'
<1>1. /\ task[t].served /\ Recorder!Over(t)
      /\ UNCHANGED <<appState, buffer, pushed, ended, copies, lost, starts, changes, failed>>
  BY DEF Recorder!Done, Recorder!rows
<1>2. /\ appState \in {"active", "inactive", "background"} /\ changes \in 0 .. MaxChanges
      /\ failed \in BOOLEAN
  BY DEF Recorder!RecorderInv, Recorder!TypeOK
<1>3. PICK kind \in {"none", "stop"}, session \in Nat \cup {Null} :
         task' = [task EXCEPT ![t] = [kind |-> kind, session |-> session, events |-> {},
                                      served |-> FALSE]]
  BY <1>1, OverIsEmpty
<1>4. sessionId' \in Nat \cup {Null}
  BY <1>1, OverIsEmpty
<1> QED
  BY <1>1, <1>2, <1>3, <1>4, EmptyKeepsRecorder

LEMMA FailsKeepsRecorder ==
    ASSUME Recorder!DevAssumption, Recorder!RecorderInv, NEW t \in Task, Recorder!Fails(t)
    PROVE  Recorder!RecorderInv'
<1>1. /\ Recorder!Over(t) /\ failed' = TRUE
      /\ lost' = IF task[t].served THEN lost ELSE lost \cup task[t].events
      /\ UNCHANGED <<appState, buffer, pushed, ended, copies, starts, changes>>
  BY DEF Recorder!Fails, Recorder!rows
<1>2. /\ appState \in {"active", "inactive", "background"} /\ changes \in 0 .. MaxChanges
      /\ task \in [Task -> Recorder!Tasks] /\ pushed \in Nat /\ lost \subseteq 1 .. pushed
      /\ task[t].events \subseteq 1 .. pushed
  BY DEF Recorder!RecorderInv, Recorder!TypeOK, Recorder!Tasks
<1>3. PICK kind \in {"none", "stop"}, session \in Nat \cup {Null} :
         task' = [task EXCEPT ![t] = [kind |-> kind, session |-> session, events |-> {},
                                      served |-> FALSE]]
  BY <1>1, OverIsEmpty
<1>4. sessionId' \in Nat \cup {Null}
  BY <1>1, OverIsEmpty
<1>5. CASE task[t].served \/ task[t].events = {}
  <2>1. UNCHANGED lost
    BY <1>1, <1>5
  <2> QED
    BY <1>1, <1>2, <1>3, <1>4, <1>5, <2>1, EmptyKeepsRecorder
<1>6. CASE ~task[t].served /\ task[t].events # {}
  <2> DEFINE q == [kind |-> kind, session |-> session, events |-> {}, served |-> FALSE]
  <2>1. q.events = {} /\ q.kind = kind /\ q \in Recorder!Tasks /\ Recorder!Tasks' = Recorder!Tasks
        /\ task' = [task EXCEPT ![t] = q]
    BY <1>1, <1>3 DEF Recorder!Tasks
  <2> HIDE DEF q
  <2>2. task' \in [Task -> Recorder!Tasks'] /\ task'[t] = q
        /\ \A u \in Task \ {t} : task'[u] = task[u]
    BY <1>2, <2>1
  <2>3. lost' = lost \cup task[t].events /\ lost' \subseteq 1 .. pushed
    BY <1>1, <1>2, <1>6
  <2>4. Recorder!TypeOK'
    BY <1>1, <1>4, <2>2, <2>3 DEF Recorder!RecorderInv, Recorder!TypeOK
  <2>5. Recorder!OnlyBatchesCarry'
    BY <2>1, <2>2 DEF Recorder!RecorderInv, Recorder!OnlyBatchesCarry
  <2>6. Recorder!EveryEventFits'
    <3>1. /\ Cardinality(Recorder!Starting') \in Nat /\ Cardinality(Recorder!Starting) \in Nat
          /\ Cardinality(Recorder!Starting') <= Cardinality(Recorder!Starting)
      BY <2>1, <2>2, StartingChanges, EventsFit
    <3>2. Cardinality(Recorder!Starting) <= starts
          /\ pushed + Cardinality(Recorder!Starting) <= MaxEvents + starts
      BY SameCardinality DEF Recorder!RecorderInv, Recorder!EveryEventFits
    <3>3. starts \in Nat /\ MaxEvents \in Nat
      BY EventsFit
    <3>4. Cardinality(Recorder!Starting') <= starts
          /\ pushed + Cardinality(Recorder!Starting') <= MaxEvents + starts
      BY <1>2, <3>1, <3>2, <3>3
    <3> QED
      BY <1>1, <3>4, SameCardinality DEF Recorder!EveryEventFits
  <2>7. ASSUME NEW e \in 1 .. pushed
        PROVE  Recorder!InOnePlace(e)'
    <3>1. Recorder!InOnePlace(e)
      BY DEF Recorder!RecorderInv
    <3>2. \A u \in Task : Recorder!Carries(u, e)' <=> u # t /\ Recorder!Carries(u, e)
      BY <2>1, <2>2 DEF Recorder!Carries
    <3>3. e \in lost' <=> e \in lost \/ Recorder!Carries(t, e)
      BY <1>6, <2>3 DEF Recorder!Carries
    <3> QED
      BY <1>1, <3>1, <3>2, <3>3 DEF Recorder!InOnePlace
  <2> QED
    BY <1>1, <2>4, <2>5, <2>6, <2>7 DEF Recorder!RecorderInv
<1> QED
  BY <1>5, <1>6

LEMMA NextRecorder ==
    ASSUME Recorder!DevAssumption, Recorder!RecorderInv, Recorder!Next \/ UNCHANGED recorderVars
    PROVE  Recorder!RecorderInv'
<1>1. CASE Recorder!Next
  BY <1>1, PushKeepsRecorder, TimerKeepsRecorder, ChangeKeepsRecorder, ServeKeepsRecorder,
     StartedKeepsRecorder, DoneKeepsRecorder, FailsKeepsRecorder DEF Recorder!Next
<1>2. CASE UNCHANGED recorderVars
  BY <1>2 DEF recorderVars, Recorder!RecorderInv, Recorder!TypeOK, Recorder!Tasks,
     Recorder!OnlyBatchesCarry, Recorder!EveryEventFits, Recorder!Starting,
     Recorder!InOnePlace, Recorder!Carries
<1> QED
  BY <1>1, <1>2

\* A batch is one call at a time, so that the three counts and the carriers add up.
LEMMA PlacesAreCounted ==
    ASSUME Recorder!DevAssumption, Recorder!RecorderInv
    PROVE  Recorder!EventsAreConserved
<1> DEFINE Carriers(e) == {t \in Task : e \in task[t].events /\ ~task[t].served}
<1> SUFFICES ASSUME NEW e \in 1 .. pushed
             PROVE  (IF e \in buffer THEN 1 ELSE 0) + Recorder!Cardinality(Carriers(e))
                       + copies[e] + (IF e \in lost THEN 1 ELSE 0) = 1
  BY DEF Recorder!EventsAreConserved
<1>1. Recorder!InOnePlace(e)
  BY DEF Recorder!RecorderInv
<1>2. CASE Carriers(e) = {}
  <2>1. Recorder!Cardinality(Carriers(e)) = 0
    BY <1>2, FS_EmptySet, SameCardinality
  <2>2. \A t \in Task : ~Recorder!Carries(t, e)
    BY <1>2 DEF Recorder!Carries
  <2> HIDE DEF Carriers
  <2> QED
    BY <1>1, <2>1, <2>2 DEF Recorder!InOnePlace
<1>3. CASE Carriers(e) # {}
  <2>1. PICK t \in Task : Recorder!Carries(t, e)
    BY <1>3 DEF Recorder!Carries
  <2>2. e \notin buffer /\ e \notin lost /\ copies[e] = 0
        /\ \A u \in Task : Recorder!Carries(u, e) <=> u = t
    BY <1>1, <2>1 DEF Recorder!InOnePlace
  <2>3. Carriers(e) = {t}
    BY <2>2 DEF Recorder!Carries
  <2>4. Recorder!Cardinality(Carriers(e)) = 1
    BY <2>3, FS_Singleton, SameCardinality
  <2> HIDE DEF Carriers
  <2> QED
    BY <2>2, <2>4
<1> QED
  BY <1>2, <1>3

-----------------------------------------------------------------------------
(* The theorems.                                                            *)

LEMMA InitPhone == PhoneInit => PhoneInv
<1> SUFFICES ASSUME PhoneInit
             PROVE  PhoneInv
  OBVIOUS
<1>1. SignIn!Init /\ Recorder!Init /\ Photos!Init /\ Screens!Init
  BY DEF PhoneInit
<1> QED
  BY <1>1, PhoneAssumption, InitSignIn, InitRecorder, InitPhotos, InitScreens DEF PhoneInv

LEMMA NextPhone == PhoneInv /\ [PhoneNext]_phoneVars => PhoneInv'
<1> SUFFICES ASSUME PhoneInv, [PhoneNext]_phoneVars
             PROVE  PhoneInv'
  OBVIOUS
<1>1. SignIn!Next \/ UNCHANGED signInVars
  BY DEF PhoneNext, phoneVars
<1>2. Recorder!Next \/ UNCHANGED recorderVars
  BY DEF PhoneNext, phoneVars
<1>3. Photos!Next \/ UNCHANGED photosVars
  BY DEF PhoneNext, phoneVars
<1>4. Screens!Next \/ UNCHANGED screensVars
  BY DEF PhoneNext, phoneVars
<1>5. SignIn!SignInInv /\ Recorder!RecorderInv /\ Photos!PhotosInv /\ Screens!ScreensInv
  BY DEF PhoneInv
<1>6. SignIn!SignInInv'
  BY <1>1, <1>5, NextSignIn
<1>7. Recorder!RecorderInv'
  BY <1>2, <1>5, NextRecorder, PhoneAssumption
<1>8. Photos!PhotosInv'
  BY <1>3, <1>5, NextPhotos
<1>9. Screens!ScreensInv'
  BY <1>4, <1>5, NextScreens, PhoneAssumption
<1> QED
  BY <1>6, <1>7, <1>8, <1>9 DEF PhoneInv

\* The four inductive invariants hold whichever system of the phone runs, for any
\* emails, links, requests, tasks, photos, forms and bounds.
THEOREM PhoneInvariant == PhoneSpec => []PhoneInv
<1> QED
  BY InitPhone, NextPhone, PTL DEF PhoneSpec

\* MagicLinkService.verify: the update that consumes a link is guarded, so however
\* many requests and restarts there are, a link gives at most one token.
THEOREM LinkSignsInOnce == PhoneSpec => []SignsInOnce
<1>1. PhoneInv => SignsInOnce
  BY DEF PhoneInv, SignIn!SignInInv, SignIn!OneClaim, SignsInOnce, SignIn!SignsInOnce
<1> QED
  BY <1>1, PhoneInvariant, PTL

\* MagicLinkService.request: each request deletes the links it finds before it creates
\* its own.  However requests overlap, the link created last is not among the deleted
\* ones, unless a request is about to create another or a restart has stopped one.
THEOREM TheNewestLinkIsLeft == PhoneSpec => []NewestLinkIsLeft
<1>1. PhoneInv => NewestLinkIsLeft
  BY DEF PhoneInv, SignIn!SignInInv, SignIn!LinkIsComing, NewestLinkIsLeft,
     SignIn!NewestLinkIsLeft
<1> QED
  BY <1>1, PhoneInvariant, PTL

\* flush() of the recorder: an event pushed waits, is on its way, was recorded once or
\* was lost with its batch, whatever calls overlap, fail or are served unanswered.
THEOREM EventsAreKept == PhoneSpec => []EventsAreConserved
<1>1. PhoneInv => EventsAreConserved
  BY PhoneAssumption, PlacesAreCounted DEF PhoneInv, EventsAreConserved
<1> QED
  BY <1>1, PhoneInvariant, PTL

\* POST /listing/:id/photos: what was answered has its rows and a row has its file, whole
\* unless the server was cut, for any batches and any number of requests.
THEOREM PhotosAreKept == PhoneSpec => []PhotosAreStored
<1>1. PhoneInv => PhotosAreStored
  BY DEF PhoneInv, Photos!PhotosInv, PhotosAreStored
<1> QED
  BY <1>1, PhoneInvariant, PTL

\* editContent and the form that calls it: title, price and price warning of an annonce
\* come from one form, whatever edits overlap, are given up on or arrive late.
THEOREM OneFormIsKept == PhoneSpec => []ContentIsOneForm
<1>1. PhoneInv => ContentIsOneForm
  BY DEF PhoneInv, Screens!ScreensInv, ContentIsOneForm
<1> QED
  BY <1>1, PhoneInvariant, PTL

=============================================================================
