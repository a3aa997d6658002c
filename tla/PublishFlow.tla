----------------------------- MODULE PublishFlow -----------------------------
(***************************************************************************)
(* The publication of one thing from the phone: validate.tsx, the card     *)
(* that opens it (processing.tsx), the banner of an interrupted one        *)
(* (PendingPublishBanner.tsx) and its persisted record (listing.store.ts), *)
(* over the /listing routes.                                               *)
(*                                                                         *)
(* publish() awaits five requests in a row and records each step passed.   *)
(* It goes on when the user leaves its screen, and a request it has given  *)
(* up on (10 s) may still be executed: each run of publish() is a Flow,    *)
(* and "late" holds the requests nobody waits for any more.                *)
(***************************************************************************)
EXTENDS ListingTransitions, Integers, FiniteSets

CONSTANTS
    Thing,      \* what the seller sells: its draft and its photos
    Listing,
    Flow,       \* runs of publish() that may be going on together
    MaxKills,   \* bound: how often the app is killed
    MaxLate,    \* bound: requests given up on that may still be executed
    NoThing, NoListing, NoPending, NoForm, NoFlow, NoCancel

ASSUME FlowAssumption == MaxKills \in Nat /\ MaxLate \in Nat

ASSUME NothingAssumption == NoThing \notin Thing /\ NoListing \notin Listing

VARIABLES
    row,      \* the listings, on the server
    late,     \* requests given up on and not executed yet
    cards,    \* ready cards of the queue (MMKV)
    pending,  \* usePendingPublish (MMKV)
    session,  \* useListingSession
    form,     \* the validation screen, when it is shown
    flow,     \* the runs of publish()
    cancel,   \* abandon() of the banner
    hurried,  \* the user has once not waited for a publication or an abandon
    kills

phoneVars == <<cards, pending, session, form, flow, cancel, hurried, kills>>
vars == <<row, late, phoneVars>>

PublishStep == {"created", "photos", "ai", "draft"}
Kind == {"create", "photos", "ai", "draft", "validate"}
Answer == {"none", "ok", "invalid", "refused"}

\* "photos" is the set of the things shown by photos: empty, or of one thing.
Row == [status : ListingStatus \cup {"NO_ROW"}, photos : SUBSET Thing,
        text : Thing \cup {NoThing}]
Request == [kind : Kind \cup {"cancel"}, l : Listing \cup {NoListing},
            text : Thing \cup {NoThing}, photos : SUBSET Thing]
Pending == [l : Listing, text : Thing, done : PublishStep]
Form == [text : Thing, flow : Flow \cup {NoFlow}]
Run == [kind : Kind \cup {"idle"}, l : Listing \cup {NoListing},
        text : Thing \cup {NoThing}, photos : SUBSET Thing, answer : Answer]

ASSUME NoneAssumption ==
    NoPending \notin Pending /\ NoForm \notin Form /\ NoFlow \notin Flow

Idle == [kind |-> "idle", l |-> NoListing, text |-> NoThing, photos |-> {},
         answer |-> "none"]

TypeOK ==
    /\ row \in [Listing -> Row]
    /\ late \subseteq Request
    /\ cards \subseteq Thing
    /\ pending \in Pending \cup {NoPending}
    /\ session \in Thing \cup {NoThing}
    /\ form \in Form \cup {NoForm}
    /\ flow \in [Flow -> Run]
    /\ cancel \in [l : Listing, answer : Answer] \cup {NoCancel}
    /\ hurried \in BOOLEAN
    /\ kills \in 0 .. MaxKills

Init ==
    /\ row = [l \in Listing |-> [status |-> "NO_ROW", photos |-> {}, text |-> NoThing]]
    /\ late = {}
    /\ cards = Thing
    /\ pending = NoPending /\ session = NoThing /\ form = NoForm
    /\ flow = [f \in Flow |-> Idle]
    /\ cancel = NoCancel
    /\ hurried = FALSE
    /\ kills = 0

Running(f) == flow[f].kind # "idle"

\* A request without an answer is lost, or it is executed later.
GiveUp(requests) ==
    \E some \in SUBSET requests :
        /\ late' = late \cup some
        /\ Cardinality(late') <= MaxLate

CancelRequest(l) == [kind |-> "cancel", l |-> l, text |-> NoThing, photos |-> {}]

\* The requests of publish() the server has not executed.
Unserved(f) ==
    IF Running(f) /\ flow[f].answer = "none"
    THEN {[kind |-> flow[f].kind, l |-> flow[f].l, text |-> flow[f].text,
           photos |-> flow[f].photos]}
    ELSE {}

-----------------------------------------------------------------------------
(* The server: what a request does to the listings, and its answer.         *)

\* move(): the row takes the status and the data, or INVALID_TRANSITION.
Moves(l, to, final, text, answer) ==
    \/ /\ CanTransition(row[l].status, to)
       /\ row' = [row EXCEPT ![l].status = final, ![l].text = text]
       /\ answer = "ok"
    \/ /\ ~CanTransition(row[l].status, to)
       /\ answer = "invalid" /\ UNCHANGED row

PhotoUploadStatuses == {"PENDING_AUTH", "AUTHORIZED", "AI_PROCESSING", "DRAFT_READY"}

\* The row is created whether or not the wallet covers it.
Create(l, answer) ==
    /\ row[l].status = "NO_ROW"
    /\ \/ row' = [row EXCEPT ![l].status = "AUTHORIZED"] /\ answer = "ok"
       \/ row' = [row EXCEPT ![l].status = "PENDING_AUTH"] /\ answer = "refused"

AddPhotos(l, photos, answer) ==
    \/ /\ row[l].status \in PhotoUploadStatuses
       /\ row' = [row EXCEPT ![l].photos = @ \cup photos]
       /\ answer = "ok"
    \/ /\ row[l].status \notin PhotoUploadStatuses
       /\ answer = "refused" /\ UNCHANGED row

\* "refused" when the wallet does not cover the debit: nothing is changed.
Validate(l, answer) ==
    \/ Moves(l, "USER_VALIDATED", "QUEUED", row[l].text, answer)
    \/ /\ CanTransition(row[l].status, "USER_VALIDATED")
       /\ answer = "refused" /\ UNCHANGED row

Handle(q, l, answer) ==
    \/ q.kind = "create" /\ Create(l, answer)
    \/ q.kind = "photos" /\ AddPhotos(l, q.photos, answer)
    \/ q.kind = "ai" /\ Moves(l, "AI_PROCESSING", "AI_PROCESSING", row[l].text, answer)
    \/ q.kind = "draft" /\ Moves(l, "DRAFT_READY", "DRAFT_READY", q.text, answer)
    \/ q.kind = "validate" /\ Validate(l, answer)
    \/ q.kind = "cancel" /\ Moves(l, "USER_CANCELLED", "USER_CANCELLED", row[l].text, answer)

Target(q) == IF q.kind = "create" THEN Listing ELSE {q.l}

Serve(f) ==
    /\ Running(f) /\ flow[f].answer = "none"
    /\ \E l \in Target(flow[f]), answer \in Answer \ {"none"} :
        /\ Handle(flow[f], l, answer)
        /\ flow' = [flow EXCEPT ![f].l = l, ![f].answer = answer]
    /\ UNCHANGED <<late, cards, pending, session, form, cancel, hurried, kills>>

ServeAbandon ==
    /\ cancel # NoCancel /\ cancel.answer = "none"
    /\ \E answer \in Answer \ {"none"} :
        /\ Handle(CancelRequest(cancel.l), cancel.l, answer)
        /\ cancel' = [cancel EXCEPT !.answer = answer]
    /\ UNCHANGED <<late, cards, pending, session, form, flow, hurried, kills>>

ServeLate ==
    /\ \E q \in late :
        /\ \E l \in Target(q), answer \in Answer : Handle(q, l, answer)
        /\ late' = late \ {q}
    /\ UNCHANGED phoneVars

\* From the other screens: a listing is cancelled (listing-edit) or put
\* online (diffuser), and the server checks its status.
CancelListing(l) ==
    /\ row[l].status = "QUEUED"
    /\ row' = [row EXCEPT ![l].status = "USER_CANCELLED"]
    /\ UNCHANGED <<late, phoneVars>>

Diffuse(l) ==
    /\ row[l].status = "QUEUED"
    /\ \E s \in {"PUBLISHED", "PUBLISH_FAILED"} : row' = [row EXCEPT ![l].status = s]
    /\ UNCHANGED <<late, phoneVars>>

-----------------------------------------------------------------------------
(* Opening and leaving the validation screen.                               *)

Shown(text) == [text |-> text, flow |-> NoFlow]

\* Mutant: the interrupted publication of another thing is kept.
OpenCard_KeepsPending(t) ==
    /\ form = NoForm /\ t \in cards
    /\ session' = t
    /\ cards' = cards \ {t}
    /\ form' = Shown(t)
    /\ hurried' = (hurried \/ cancel # NoCancel)
    /\ UNCHANGED <<row, late, pending, flow, cancel, kills>>

\* An interrupted publication is dropped, and cancelled without waiting.
OpenCard(t) ==
    /\ form = NoForm /\ t \in cards
    /\ GiveUp(IF pending = NoPending THEN {} ELSE {CancelRequest(pending.l)})
    /\ pending' = NoPending
    /\ session' = t
    /\ cards' = cards \ {t}
    /\ form' = Shown(t)
    /\ hurried' = (hurried \/ cancel # NoCancel)
    /\ UNCHANGED <<row, flow, cancel, kills>>

\* "Reprendre": the draft of the session, else that of the record.
Resume ==
    /\ form = NoForm /\ pending # NoPending
    /\ form' = Shown(IF session # NoThing THEN session ELSE pending.text)
    /\ hurried' = (hurried \/ cancel # NoCancel)
    /\ UNCHANGED <<row, late, cards, pending, session, flow, cancel, kills>>

Leave ==
    /\ form # NoForm
    /\ form' = NoForm
    /\ hurried' = (hurried \/ form.flow # NoFlow)
    /\ UNCHANGED <<row, late, cards, pending, session, flow, cancel, kills>>

-----------------------------------------------------------------------------
(* publish().                                                               *)

\* The first step above the recorded one; no photos, no upload.
StepAfter(done, photos) ==
    CASE done = "created" /\ photos # {} -> "photos"
      [] done = "created" /\ photos = {} -> "ai"
      [] done = "photos" -> "ai"
      [] done = "ai" -> "draft"
      [] done = "draft" -> "validate"

Confirm(f) ==
    /\ form # NoForm /\ form.flow = NoFlow /\ ~Running(f)
    /\ LET photos == {session} \ {NoThing} IN
       flow' = [flow EXCEPT ![f] =
                  [kind |-> IF pending = NoPending THEN "create"
                                                   ELSE StepAfter(pending.done, photos),
                   l |-> IF pending = NoPending THEN NoListing ELSE pending.l,
                   text |-> form.text, photos |-> photos, answer |-> "none"]]
    /\ form' = [form EXCEPT !.flow = f]
    /\ UNCHANGED <<row, late, cards, pending, session, cancel, hurried, kills>>

\* Mutant: the step recorded is the next one.
StepOf_Next == [create |-> "photos", photos |-> "ai", ai |-> "draft", draft |-> "draft"]

\* The step each request completes.
StepOf == [create |-> "created", photos |-> "photos", ai |-> "ai", draft |-> "draft"]

\* INVALID_TRANSITION: the answer to an earlier try was lost, the step is passed.
AlreadyDone == {"ai", "draft", "validate"}

\* Mutant: any error of a step counts as a step passed.
Accepted_AnyAnswer(f) == flow[f].answer # "none"

Accepted(f) ==
    \/ flow[f].answer = "ok"
    \/ flow[f].answer = "invalid" /\ flow[f].kind \in AlreadyDone

Checkpoint(f) ==
    /\ Running(f) /\ flow[f].kind # "validate" /\ Accepted(f)
    /\ LET done == StepOf[flow[f].kind] IN
       /\ pending' = [l |-> flow[f].l, text |-> flow[f].text, done |-> done]
       /\ flow' = [flow EXCEPT ![f].kind = StepAfter(done, flow[f].photos),
                               ![f].answer = "none"]
    /\ UNCHANGED <<row, late, cards, session, form, cancel, hurried, kills>>

\* Whatever is shown and recorded by then is cleared and replaced by the home.
Published(f) ==
    /\ Running(f) /\ flow[f].kind = "validate" /\ Accepted(f)
    /\ pending' = NoPending /\ session' = NoThing /\ form' = NoForm
    /\ flow' = [flow EXCEPT ![f] = Idle]
    /\ UNCHANGED <<row, late, cards, cancel, hurried, kills>>

\* An error answer, or none: the request may be executed later, or never.
Fails(f) ==
    /\ Running(f)
    /\ GiveUp(Unserved(f))
    /\ flow' = [flow EXCEPT ![f] = Idle]
    /\ form' = IF form # NoForm /\ form.flow = f THEN Shown(form.text) ELSE form
    /\ UNCHANGED <<row, cards, pending, session, cancel, hurried, kills>>

-----------------------------------------------------------------------------
(* The banner, and the end of the app.                                      *)

Abandon ==
    /\ form = NoForm /\ pending # NoPending /\ cancel = NoCancel
    /\ cancel' = [l |-> pending.l, answer |-> "none"]
    /\ UNCHANGED <<row, late, cards, pending, session, form, flow, hurried, kills>>

\* Cancelled, or dealt with already: the record is forgotten.
Abandoned ==
    /\ cancel # NoCancel /\ cancel.answer \in {"ok", "invalid"}
    /\ pending' = NoPending
    /\ cancel' = NoCancel
    /\ UNCHANGED <<row, late, cards, session, form, flow, hurried, kills>>

\* A network error: the banner stays.
AbandonFails ==
    /\ cancel # NoCancel
    /\ GiveUp(IF cancel.answer = "none" THEN {CancelRequest(cancel.l)} ELSE {})
    /\ cancel' = NoCancel
    /\ UNCHANGED <<row, cards, pending, session, form, flow, hurried, kills>>

\* The app stops: what is persisted stays, what was sent may still arrive.
Kill ==
    /\ kills < MaxKills
    /\ kills' = kills + 1
    /\ GiveUp((UNION {Unserved(f) : f \in Flow}) \cup
              (IF cancel # NoCancel /\ cancel.answer = "none" THEN {CancelRequest(cancel.l)}
                                                             ELSE {}))
    /\ session' = NoThing /\ form' = NoForm /\ cancel' = NoCancel
    /\ flow' = [f \in Flow |-> Idle]
    /\ UNCHANGED <<row, cards, pending, hurried>>

Next ==
    \/ \E t \in Thing : OpenCard(t)
    \/ Resume \/ Leave \/ Abandon \/ ServeAbandon \/ Abandoned \/ AbandonFails
    \/ \E f \in Flow : Confirm(f) \/ Serve(f) \/ Checkpoint(f) \/ Published(f) \/ Fails(f)
    \/ \E l \in Listing : CancelListing(l) \/ Diffuse(l)
    \/ ServeLate
    \/ Kill

Spec == Init /\ [][Next]_vars

-----------------------------------------------------------------------------
(* What is expected of it.                                                  *)

Passed ==
    [created |-> ListingStatus \ {"PENDING_AUTH"},
     photos  |-> ListingStatus \ {"PENDING_AUTH"},
     ai      |-> ListingStatus \ {"PENDING_AUTH", "AUTHORIZED"},
     draft   |-> ListingStatus \ {"PENDING_AUTH", "AUTHORIZED", "AI_PROCESSING"}]

\* A step recorded on the phone has been passed by its listing, whatever was
\* lost, late, killed or done twice in between: resuming skips nothing.
CheckpointIsReached ==
    pending # NoPending =>
        /\ row[pending.l].status \in Passed[pending.done]
        /\ pending.done = "photos" => row[pending.l].photos # {}

Paid == {l \in Listing : row[l].status \in {"QUEUED", "PUBLISHED"}}

\* Every listing that is paid for has the text and the photos of one thing.
NewThingIsNotMixed ==
    \A l \in Paid : row[l].photos \subseteq {row[l].text}

\* As long as the user waits for a publication, or for an abandon, to end, a
\* thing is paid for in one listing at most, nothing of another thing is in it,
\* and its photos are missing only if the app was killed.
OneThingOneListing ==
    ~hurried =>
        /\ NewThingIsNotMixed
        /\ \A l, k \in Paid : row[l].text = row[k].text => l = k
        /\ kills = 0 => \A l \in Paid : row[l].photos # {}

\* The record of an interrupted publication is dropped only once its listing is
\* paid for or closed, or when another card is opened (listing.store.ts).
ClearedOnlyWhenOver ==
    [][ pending # NoPending /\ pending' = NoPending /\ ~hurried' /\ cards' = cards
        => row[pending.l].status \in {"QUEUED", "PUBLISHED", "PUBLISH_FAILED",
                                      "USER_CANCELLED"} ]_vars
-----------------------------------------------------------------------------
(* Why it holds: the inductive invariant.                                   *)

\* Paid for, or closed.
Over == {"QUEUED", "PUBLISHED", "PUBLISH_FAILED", "USER_CANCELLED"}

\* No listing goes back, so that a request finds its listing where the step
\* before has left it, and an answer that counts leaves it where it says.
Before ==
    [photos |-> Passed.created, ai |-> Passed.created, draft |-> Passed.ai,
     validate |-> Passed.draft, cancel |-> Passed.created]
After ==
    [create |-> Passed.created, photos |-> Passed.created, ai |-> Passed.ai,
     draft |-> Passed.draft, validate |-> Over]

StatusesAreThese ==
    \A l \in Listing : row[l].status \notin {"USER_VALIDATED", "AI_FAILED", "EXPIRED"}

StepsAreReached ==
    \A f \in Flow : Running(f) =>
        /\ flow[f].kind = "create" /\ flow[f].answer = "none" => flow[f].l = NoListing
        /\ flow[f].kind = "create" /\ flow[f].answer # "none" => flow[f].l \in Listing
        /\ flow[f].kind # "create" =>
              flow[f].l \in Listing /\ row[flow[f].l].status \in Before[flow[f].kind]
        /\ flow[f].kind = "photos" => flow[f].photos # {}
        /\ Accepted(f) => row[flow[f].l].status \in After[flow[f].kind]
        /\ Accepted(f) /\ flow[f].kind = "photos" => row[flow[f].l].photos # {}

LateIsReached ==
    \A q \in late : q.kind # "create" =>
        q.l \in Listing /\ row[q.l].status \in Before[q.kind]

CancelIsReached ==
    cancel # NoCancel =>
        /\ row[cancel.l].status \in Before.cancel
        /\ cancel.answer \in {"ok", "invalid"} => row[cancel.l].status \in Over

\* What is published is a thing, and so is what a listing shows.
TextIsThere ==
    /\ \A f \in Flow : Running(f) => flow[f].text \in Thing
    /\ \A q \in late : q.kind # "cancel" => q.text \in Thing
    /\ \A l \in Listing : row[l].status \in {"DRAFT_READY", "QUEUED", "PUBLISHED"}
                             => row[l].text \in Thing

\* A listing shows the thing, will, or is recorded for it.
Holds(t, l) ==
    \/ row[l].text = t
    \/ t \in row[l].photos
    \/ \E q \in late : q.l = l /\ q.text = t
    \/ pending # NoPending /\ pending.l = l /\ pending.text = t

\* The photos of a request are those of its text.
PhotosAreItsOwn ==
    /\ \A f \in Flow : Running(f) => flow[f].photos \subseteq {flow[f].text}
    /\ \A q \in late : q.photos \subseteq {q.text}

\* The only run is that of the form that is shown, and of its record. What it
\* has just created is still blank.
OneRun ==
    \A f \in Flow : Running(f) =>
        /\ form # NoForm /\ form.flow = f /\ form.text = flow[f].text
        /\ flow[f].kind = "create" => pending = NoPending
        /\ flow[f].kind = "create" /\ flow[f].answer # "none" =>
              \A l \in Listing, t \in Thing : flow[f].l = l => ~Holds(t, l)
        /\ flow[f].kind # "create" => pending # NoPending /\ pending.l = flow[f].l

\* The form is about the thing of the record. Without a record, it is about a
\* thing of no listing.
OneForm ==
    /\ form # NoForm =>
        /\ session \in {NoThing, form.text} /\ form.text \notin cards /\ cancel = NoCancel
        /\ IF pending # NoPending THEN pending.text = form.text
                                  ELSE \A l \in Listing : ~Holds(form.text, l)
    /\ pending # NoPending => session \in {NoThing, pending.text}
    /\ cancel # NoCancel => pending # NoPending /\ pending.l = cancel.l

OneThing ==
    /\ \A l \in Listing, t, u \in Thing : Holds(t, l) /\ Holds(u, l) => t = u
    /\ \A l, k \in Listing, t \in Thing : Holds(t, l) /\ Holds(t, k) => l = k
    /\ \A l \in Listing, t \in Thing :
          t \in cards \/ row[l].status = "NO_ROW" => ~Holds(t, l)

\* The photos go with the session, which only a kill loses.
PhotosAreThere ==
    /\ form # NoForm => session = form.text
    /\ pending # NoPending =>
          /\ session = pending.text
          /\ pending.done # "created" => row[pending.l].photos # {}
    /\ \A f \in Flow : Running(f) =>
          /\ flow[f].photos # {}
          /\ flow[f].kind \in {"ai", "draft", "validate"} => row[flow[f].l].photos # {}
    /\ \A q \in late : q.kind = "validate" => row[q.l].photos # {}
    /\ \A l \in Paid : row[l].photos # {}

ReachedInv ==
    /\ TypeOK /\ CheckpointIsReached /\ StatusesAreThese /\ StepsAreReached
    /\ LateIsReached /\ CancelIsReached /\ TextIsThere

AloneInv == PhotosAreItsOwn /\ OneRun /\ OneForm /\ OneThing

FlowInv ==
    /\ ReachedInv
    /\ ~hurried => AloneInv /\ (kills = 0 => PhotosAreThere)
=============================================================================
