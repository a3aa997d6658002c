--------------------------- MODULE PublishFlowProofs ---------------------------
(***************************************************************************)
(* Proofs about the publication of a thing from the phone, for any things, *)
(* listings, runs of publish(), kills and late requests.                   *)
(*                                                                         *)
(* No listing goes back: what a request, an answer or the record of the    *)
(* phone says of the status of a listing stays true (Edge, RowsGrow). And  *)
(* as long as the user waits, what shows or records a thing only shrinks,  *)
(* but for the record of a listing that has just been created (HoldsLasts).*)
(***************************************************************************)
EXTENDS PublishFlow, TLAPS

-----------------------------------------------------------------------------
(* The moves of a listing.                                                  *)

LEMMA MovesOfTheTable ==
    ASSUME NEW s
    PROVE  /\ CanTransition(s, "AI_PROCESSING") <=> s = "AUTHORIZED"
           /\ CanTransition(s, "DRAFT_READY") <=> s = "AI_PROCESSING"
           /\ CanTransition(s, "USER_VALIDATED") <=> s = "DRAFT_READY"
           /\ CanTransition(s, "USER_CANCELLED") <=>
                s \in {"PENDING_AUTH", "AUTHORIZED", "AI_PROCESSING", "DRAFT_READY", "QUEUED"}
BY DEF CanTransition, Targets

Edge(s, t) ==
    \/ s = t
    \/ s = "NO_ROW" /\ t \in {"AUTHORIZED", "PENDING_AUTH"}
    \/ s = "AUTHORIZED" /\ t = "AI_PROCESSING"
    \/ s = "AI_PROCESSING" /\ t = "DRAFT_READY"
    \/ s = "DRAFT_READY" /\ t = "QUEUED"
    \/ s = "QUEUED" /\ t \in {"PUBLISHED", "PUBLISH_FAILED"}
    \/ /\ s \in {"PENDING_AUTH", "AUTHORIZED", "AI_PROCESSING", "DRAFT_READY", "QUEUED"}
       /\ t = "USER_CANCELLED"

Status == {"NO_ROW", "PENDING_AUTH", "AUTHORIZED", "AI_PROCESSING", "DRAFT_READY", "QUEUED",
           "PUBLISHED", "PUBLISH_FAILED", "USER_CANCELLED"}

LEMMA StatusIsStatus ==
    ASSUME TypeOK, StatusesAreThese, NEW l \in Listing
    PROVE  row[l].status \in Status
BY DEF TypeOK, StatusesAreThese, Row, ListingStatus, Status

\* What has been passed stays passed.
LEMMA PassedLasts ==
    ASSUME NEW s \in Status, NEW t, Edge(s, t)
    PROVE  /\ t \in Status
           /\ t = "NO_ROW" => s = "NO_ROW"
           /\ \A k \in PublishStep : s \in Passed[k] => t \in Passed[k]
           /\ s \in Over => t \in Over
<1>1. t \in Status /\ (t = "NO_ROW" => s = "NO_ROW") /\ (s \in Over => t \in Over)
  BY DEF Edge, Status, Over
<1>2. ASSUME NEW k \in PublishStep, s \in Passed[k]
      PROVE  t \in Passed[k]
  BY <1>2 DEF Edge, Status, PublishStep, Passed, ListingStatus
<1> QED
  BY <1>1, <1>2

LEMMA BeforeLasts ==
    ASSUME NEW s \in Status, NEW t, Edge(s, t),
           NEW k \in {"photos", "ai", "draft", "validate", "cancel"}, s \in Before[k]
    PROVE  t \in Before[k]
<1>1. \E p \in PublishStep : Before[k] = Passed[p]
  BY DEF Before, Passed, PublishStep
<1> QED
  BY <1>1, PassedLasts

LEMMA AfterLasts ==
    ASSUME NEW s \in Status, NEW t, Edge(s, t), NEW k \in Kind, s \in After[k]
    PROVE  t \in After[k]
<1>1. (\E p \in PublishStep : After[k] = Passed[p]) \/ After[k] = Over
  BY DEF After, Passed, PublishStep, Kind
<1> QED
  BY <1>1, PassedLasts

\* A listing that was passed exists.
LEMMA BeforeIsARow ==
    ASSUME NEW k \in {"photos", "ai", "draft", "validate", "cancel"}, NEW s \in Before[k]
    PROVE  s \in Passed.created /\ s # "NO_ROW" /\ s # "PENDING_AUTH"
BY DEF Before, Passed, ListingStatus

LEMMA PassedIsARow ==
    ASSUME NEW k \in PublishStep, NEW s \in Passed[k]
    PROVE  s \in Passed.created /\ s # "NO_ROW" /\ s \in Before.cancel
BY DEF Before, Passed, ListingStatus, PublishStep

-----------------------------------------------------------------------------
(* What a request does to its listing.                                      *)

Sent(q) ==
    /\ q.kind \in Kind \cup {"cancel"}
    /\ q.text \in Thing \cup {NoThing}
    /\ q.photos \in SUBSET Thing

\* The answers that count as the step passed.
Counts(q, answer) == answer = "ok" \/ (answer = "invalid" /\ q.kind \in AlreadyDone)

Effect(q, l, answer) ==
    /\ row' \in [Listing -> Row]
    /\ \A k \in Listing \ {l} : row'[k] = row[k]
    /\ Edge(row[l].status, row'[l].status)
    /\ \/ row'[l].photos = row[l].photos
       \/ q.kind = "photos" /\ row'[l].photos = row[l].photos \cup q.photos
    /\ row'[l].text = row[l].text \/ (q.kind = "draft" /\ row'[l].text = q.text)
    /\ q.kind = "create" => row[l].status = "NO_ROW" /\ answer # "invalid"
    /\ row'[l].status = "DRAFT_READY" /\ row[l].status # "DRAFT_READY" =>
          q.kind = "draft" /\ row'[l].text = q.text
    /\ row'[l].status = "QUEUED" /\ row[l].status # "QUEUED" =>
          q.kind = "validate" /\ row[l].status = "DRAFT_READY"
    /\ row'[l].status = "PUBLISHED" => row[l].status = "PUBLISHED"
    /\ q.kind # "cancel" /\ Counts(q, answer) => row'[l].status \in After[q.kind]
    /\ q.kind = "photos" /\ answer = "ok" => q.photos \subseteq row'[l].photos
    /\ q.kind = "photos" => answer # "invalid"
    /\ q.kind = "cancel" /\ answer \in {"ok", "invalid"} => row'[l].status \in Over

LEMMA Handled ==
    ASSUME TypeOK, StatusesAreThese, NEW q, Sent(q), NEW l \in Listing, NEW answer,
           q.kind # "create" => row[l].status \in Before[q.kind],
           Handle(q, l, answer)
    PROVE  Effect(q, l, answer)
<1> DEFINE s == row[l].status
<1>1. s \in Status /\ row \in [Listing -> Row] /\ row[l] \in Row
  BY StatusIsStatus DEF TypeOK
<1>2. CASE q.kind = "create"
  <2>1. /\ row[l].status = "NO_ROW"
        /\ \/ row' = [row EXCEPT ![l].status = "AUTHORIZED"] /\ answer = "ok"
           \/ row' = [row EXCEPT ![l].status = "PENDING_AUTH"] /\ answer = "refused"
    BY <1>2 DEF Handle, Create
  <2>2. CASE row' = [row EXCEPT ![l].status = "AUTHORIZED"] /\ answer = "ok"
    BY <1>1, <1>2, <2>1, <2>2
       DEF Effect, Edge, Row, ListingStatus, Counts, AlreadyDone, After, Passed
  <2>3. CASE row' = [row EXCEPT ![l].status = "PENDING_AUTH"] /\ answer = "refused"
    BY <1>1, <1>2, <2>1, <2>3
       DEF Effect, Edge, Row, ListingStatus, Counts, AlreadyDone
  <2> QED
    BY <2>1, <2>2, <2>3
<1>3. CASE q.kind = "photos"
  <2>1. AddPhotos(l, q.photos, answer)
    BY <1>3 DEF Handle
  <2>2. CASE row' = [row EXCEPT ![l].photos = @ \cup q.photos] /\ answer = "ok"
    <3>1. row[l].status \in After.photos
      BY <1>3 DEF Before, After
    <3> QED
      BY <1>1, <1>3, <2>2, <3>1 DEF Effect, Edge, Row, Sent
  <2>3. CASE answer = "refused" /\ UNCHANGED row
    BY <1>1, <1>3, <2>3 DEF Effect, Edge, Counts
  <2> QED
    BY <2>1, <2>2, <2>3 DEF AddPhotos
<1>4. CASE q.kind = "ai"
  <2>1. Moves(l, "AI_PROCESSING", "AI_PROCESSING", row[l].text, answer)
    BY <1>4 DEF Handle
  <2>2. CASE CanTransition(s, "AI_PROCESSING") /\ answer = "ok"
             /\ row' = [row EXCEPT ![l].status = "AI_PROCESSING", ![l].text = row[l].text]
    <3>1. s = "AUTHORIZED"
      BY <2>2, MovesOfTheTable
    <3>2. /\ row' \in [Listing -> Row]
          /\ \A k \in Listing \ {l} : row'[k] = row[k]
          /\ row'[l].status = "AI_PROCESSING" /\ row'[l].photos = row[l].photos
          /\ row'[l].text = row[l].text
      BY <1>1, <2>2 DEF Row, ListingStatus, Sent
    <3>3. "AI_PROCESSING" \in After.ai
      BY DEF After, Passed, ListingStatus
    <3> QED
      BY <1>4, <2>2, <3>1, <3>2, <3>3 DEF Effect, Edge
  <2>3. CASE ~CanTransition(s, "AI_PROCESSING") /\ answer = "invalid" /\ UNCHANGED row
    <3>1. s # "AUTHORIZED" /\ s \in Passed.created
      BY <1>4, <2>3, MovesOfTheTable DEF Before
    <3>2. s \in After.ai
      BY <3>1 DEF Passed, After
    <3> QED
      BY <1>1, <1>4, <2>3, <3>2 DEF Effect, Edge
  <2> QED
    BY <2>1, <2>2, <2>3 DEF Moves
<1>5. CASE q.kind = "draft"
  <2>1. Moves(l, "DRAFT_READY", "DRAFT_READY", q.text, answer)
    BY <1>5 DEF Handle
  <2>2. CASE CanTransition(s, "DRAFT_READY") /\ answer = "ok"
             /\ row' = [row EXCEPT ![l].status = "DRAFT_READY", ![l].text = q.text]
    <3>1. s = "AI_PROCESSING"
      BY <2>2, MovesOfTheTable
    <3>2. /\ row' \in [Listing -> Row]
          /\ \A k \in Listing \ {l} : row'[k] = row[k]
          /\ row'[l].status = "DRAFT_READY" /\ row'[l].photos = row[l].photos
          /\ row'[l].text = q.text
      BY <1>1, <2>2 DEF Row, ListingStatus, Sent
    <3>3. "DRAFT_READY" \in After.draft
      BY DEF After, Passed, ListingStatus
    <3> QED
      BY <1>5, <2>2, <3>1, <3>2, <3>3 DEF Effect, Edge
  <2>3. CASE ~CanTransition(s, "DRAFT_READY") /\ answer = "invalid" /\ UNCHANGED row
    <3>1. s # "AI_PROCESSING" /\ s \in Passed.ai
      BY <1>5, <2>3, MovesOfTheTable DEF Before
    <3>2. s \in After.draft
      BY <3>1 DEF Passed, After
    <3> QED
      BY <1>1, <1>5, <2>3, <3>2 DEF Effect, Edge
  <2> QED
    BY <2>1, <2>2, <2>3 DEF Moves
<1>6. CASE q.kind = "validate"
  <2>1. Validate(l, answer)
    BY <1>6 DEF Handle
  <2>2. CASE CanTransition(s, "USER_VALIDATED") /\ answer = "ok"
             /\ row' = [row EXCEPT ![l].status = "QUEUED", ![l].text = row[l].text]
    <3>1. s = "DRAFT_READY"
      BY <2>2, MovesOfTheTable
    <3>2. /\ row' \in [Listing -> Row]
          /\ \A k \in Listing \ {l} : row'[k] = row[k]
          /\ row'[l].status = "QUEUED" /\ row'[l].photos = row[l].photos
          /\ row'[l].text = row[l].text
      BY <1>1, <2>2 DEF Row, ListingStatus, Sent
    <3>3. "QUEUED" \in After.validate
      BY DEF After, Over
    <3> QED
      BY <1>6, <2>2, <3>1, <3>2, <3>3 DEF Effect, Edge
  <2>3. CASE ~CanTransition(s, "USER_VALIDATED") /\ answer = "invalid" /\ UNCHANGED row
    <3>1. s # "DRAFT_READY" /\ s \in Passed.draft
      BY <1>6, <2>3, MovesOfTheTable DEF Before
    <3>2. s \in Over
      BY <1>1, <3>1 DEF Passed, Over, Status, ListingStatus
    <3>3. s \in After.validate
      BY <3>2 DEF After
    <3> QED
      BY <1>1, <1>6, <2>3, <3>3 DEF Effect, Edge
  <2>4. CASE answer = "refused" /\ UNCHANGED row
    BY <1>1, <1>6, <2>4 DEF Effect, Edge, Counts
  <2> QED
    BY <2>1, <2>2, <2>3, <2>4 DEF Validate, Moves
<1>7. CASE q.kind = "cancel"
  <2>1. Moves(l, "USER_CANCELLED", "USER_CANCELLED", row[l].text, answer)
    BY <1>7 DEF Handle
  <2>2. CASE CanTransition(s, "USER_CANCELLED") /\ answer = "ok"
             /\ row' = [row EXCEPT ![l].status = "USER_CANCELLED", ![l].text = row[l].text]
    <3>1. s \in {"PENDING_AUTH", "AUTHORIZED", "AI_PROCESSING", "DRAFT_READY", "QUEUED"}
      BY <2>2, MovesOfTheTable
    <3> QED
      BY <1>1, <1>7, <2>2, <3>1 DEF Effect, Edge, Row, ListingStatus, Over
  <2>3. CASE ~CanTransition(s, "USER_CANCELLED") /\ answer = "invalid" /\ UNCHANGED row
    <3>1. s \notin {"PENDING_AUTH", "AUTHORIZED", "AI_PROCESSING", "DRAFT_READY", "QUEUED"}
      BY <2>3, MovesOfTheTable
    <3>2. s # "NO_ROW"
      BY <1>7 DEF Before, Passed, ListingStatus
    <3>3. s \in Over
      BY <1>1, <3>1, <3>2 DEF Over, Status
    <3> QED
      BY <1>1, <1>7, <2>3, <3>3 DEF Effect, Edge
  <2> QED
    BY <2>1, <2>2, <2>3 DEF Moves
<1> QED
  BY <1>2, <1>3, <1>4, <1>5, <1>6, <1>7 DEF Sent, Kind

-----------------------------------------------------------------------------
(* The steps, by what they do to the listings.                              *)

RowsGrow ==
    /\ row' \in [Listing -> Row]
    /\ \A l \in Listing : /\ Edge(row[l].status, row'[l].status)
                          /\ row[l].photos \subseteq row'[l].photos

LEMMA EffectGrows ==
    ASSUME TypeOK, NEW q, NEW l \in Listing, NEW answer, Effect(q, l, answer)
    PROVE  RowsGrow
<1>1. ASSUME NEW k \in Listing
      PROVE  Edge(row[k].status, row'[k].status) /\ row[k].photos \subseteq row'[k].photos
  <2>1. CASE k = l
    BY <2>1 DEF Effect
  <2>2. CASE k # l
    BY <2>2 DEF Effect, Edge
  <2> QED
    BY <2>1, <2>2
<1> QED
  BY <1>1 DEF Effect, RowsGrow

LEMMA RunsAreSent ==
    ASSUME TypeOK, NEW f \in Flow, Running(f)
    PROVE  Sent(flow[f]) /\ flow[f].kind \in Kind
BY DEF TypeOK, Run, Running, Sent, Kind

LEMMA Served ==
    ASSUME ReachedInv, NEW f \in Flow, Serve(f)
    PROVE  \E q : \E l \in Listing, answer \in Answer \ {"none"} :
              /\ q = flow[f] /\ Sent(q)
              /\ q.kind # "create" => l = q.l
              /\ Effect(q, l, answer)
              /\ flow' = [flow EXCEPT ![f].l = l, ![f].answer = answer]
<1>1. PICK l \in Target(flow[f]), answer \in Answer \ {"none"} :
         /\ Handle(flow[f], l, answer)
         /\ flow' = [flow EXCEPT ![f].l = l, ![f].answer = answer]
  BY DEF Serve
<1>2. PICK q : q = flow[f]
  OBVIOUS
<1>3. Sent(q) /\ TypeOK /\ StatusesAreThese
  BY <1>2, RunsAreSent DEF Serve, ReachedInv
<1>4. l \in Listing /\ (q.kind # "create" => l = q.l /\ row[l].status \in Before[q.kind])
  BY <1>1, <1>2 DEF Target, ReachedInv, StepsAreReached, Serve
<1>5. Handle(q, l, answer)
  BY <1>1, <1>2
<1>6. Effect(q, l, answer)
  BY <1>3, <1>4, <1>5, Handled
<1> QED
  BY <1>1, <1>2, <1>3, <1>4, <1>6

LEMMA LateServed ==
    ASSUME ReachedInv, ServeLate
    PROVE  \E q \in late, l \in Listing : \E answer :
              /\ Sent(q)
              /\ q.kind # "create" => l = q.l
              /\ Effect(q, l, answer)
              /\ late' = late \ {q}
<1>1. PICK q \in late : (\E l \in Target(q), answer \in Answer : Handle(q, l, answer))
                        /\ late' = late \ {q}
  BY DEF ServeLate
<1>2. PICK l \in Target(q), answer \in Answer : Handle(q, l, answer)
  BY <1>1
<1>3. TypeOK /\ StatusesAreThese /\ Sent(q)
  BY DEF ReachedInv, TypeOK, Request, Sent
<1>4. l \in Listing /\ (q.kind # "create" => l = q.l /\ row[l].status \in Before[q.kind])
  BY DEF Target, ReachedInv, LateIsReached
<1>5. Effect(q, l, answer)
  BY <1>2, <1>3, <1>4, Handled
<1> QED
  BY <1>1, <1>3, <1>4, <1>5

LEMMA CancelIsSent ==
    ASSUME NEW l
    PROVE  Sent(CancelRequest(l)) /\ CancelRequest(l).kind = "cancel" /\ CancelRequest(l).l = l
              /\ CancelRequest(l).text = NoThing /\ CancelRequest(l).photos = {}
BY DEF CancelRequest, Sent

LEMMA AbandonServed ==
    ASSUME ReachedInv, ServeAbandon
    PROVE  \E q : \E l \in Listing, answer \in Answer \ {"none"} :
              /\ q = CancelRequest(l) /\ l = cancel.l
              /\ Effect(q, l, answer)
              /\ cancel' = [cancel EXCEPT !.answer = answer]
<1>1. PICK answer \in Answer \ {"none"} :
         /\ Handle(CancelRequest(cancel.l), cancel.l, answer)
         /\ cancel' = [cancel EXCEPT !.answer = answer]
  BY DEF ServeAbandon
<1>2. TypeOK /\ StatusesAreThese /\ cancel # NoCancel
  BY DEF ReachedInv, ServeAbandon
<1>3. PICK l \in Listing : l = cancel.l
  BY <1>2 DEF TypeOK
<1>4. PICK q : q = CancelRequest(l)
  OBVIOUS
<1>5. Sent(q) /\ q.kind = "cancel"
  BY <1>4, CancelIsSent
<1>6. row[l].status \in Before[q.kind]
  BY <1>2, <1>3, <1>5 DEF ReachedInv, CancelIsReached
<1>7. Handle(q, l, answer)
  BY <1>1, <1>3, <1>4
<1>8. Effect(q, l, answer)
  BY <1>2, <1>5, <1>6, <1>7, Handled
<1> QED
  BY <1>1, <1>3, <1>4, <1>8

\* What the other screens do.
LEMMA Elsewhere ==
    ASSUME TypeOK, NEW l \in Listing, CancelListing(l) \/ Diffuse(l)
    PROVE  /\ row' \in [Listing -> Row] /\ \A k \in Listing \ {l} : row'[k] = row[k]
           /\ row[l].status = "QUEUED"
           /\ row'[l].status \in {"USER_CANCELLED", "PUBLISHED", "PUBLISH_FAILED"}
           /\ row'[l].text = row[l].text /\ row'[l].photos = row[l].photos
           /\ UNCHANGED <<late, phoneVars>>
<1>1. \E s \in {"USER_CANCELLED", "PUBLISHED", "PUBLISH_FAILED"} :
         row' = [row EXCEPT ![l].status = s]
  BY DEF CancelListing, Diffuse
<1>2. row[l].status = "QUEUED" /\ UNCHANGED <<late, phoneVars>>
  BY DEF CancelListing, Diffuse
<1> QED
  BY <1>1, <1>2 DEF TypeOK, Row, ListingStatus

LEMMA ElsewhereGrows ==
    ASSUME TypeOK, NEW l \in Listing, CancelListing(l) \/ Diffuse(l)
    PROVE  RowsGrow
<1>1. ASSUME NEW k \in Listing
      PROVE  Edge(row[k].status, row'[k].status) /\ row[k].photos \subseteq row'[k].photos
  <2>1. CASE k = l
    BY <2>1, Elsewhere DEF Edge
  <2>2. CASE k # l
    BY <2>2, Elsewhere DEF Edge
  <2> QED
    BY <2>1, <2>2
<1> QED
  BY <1>1, Elsewhere DEF RowsGrow

\* What the phone does by itself.
PhoneStep ==
    \/ \E t \in Thing : OpenCard(t)
    \/ Resume \/ Leave \/ Abandon \/ Abandoned \/ AbandonFails
    \/ \E f \in Flow : Confirm(f) \/ Checkpoint(f) \/ Published(f) \/ Fails(f)
    \/ Kill
    \/ UNCHANGED vars

LEMMA PhoneKeepsRows ==
    ASSUME PhoneStep
    PROVE  UNCHANGED row
BY DEF PhoneStep, OpenCard, Resume, Leave, Abandon, Abandoned, AbandonFails, Confirm, Checkpoint,
       Published, Fails, Kill, vars

LEMMA StepCases ==
    ASSUME [Next]_vars
    PROVE  \/ PhoneStep
           \/ \E f \in Flow : Serve(f)
           \/ ServeAbandon
           \/ ServeLate
           \/ \E l \in Listing : CancelListing(l) \/ Diffuse(l)
BY DEF Next, PhoneStep

LEMMA RowsMove ==
    ASSUME ReachedInv, [Next]_vars
    PROVE  RowsGrow
<1>0. TypeOK
  BY DEF ReachedInv
<1>1. CASE PhoneStep
  BY <1>0, <1>1, PhoneKeepsRows DEF RowsGrow, Edge, TypeOK
<1>2. ASSUME NEW f \in Flow, Serve(f)
      PROVE  RowsGrow
  BY <1>0, <1>2, Served, EffectGrows
<1>3. CASE ServeAbandon
  BY <1>0, <1>3, AbandonServed, EffectGrows
<1>4. CASE ServeLate
  BY <1>0, <1>4, LateServed, EffectGrows
<1>5. ASSUME NEW l \in Listing, CancelListing(l) \/ Diffuse(l)
      PROVE  RowsGrow
  BY <1>0, <1>5, ElsewhereGrows
<1> QED
  BY <1>1, <1>2, <1>3, <1>4, <1>5, StepCases

-----------------------------------------------------------------------------
(* The types.                                                               *)

LEMMA StepsAfter ==
    ASSUME NEW done \in PublishStep, NEW photos
    PROVE  /\ StepAfter(done, photos) \in {"photos", "ai", "draft", "validate"}
           /\ StepAfter(done, photos) = "photos" => done = "created" /\ photos # {}
           /\ StepAfter(done, photos) = "ai" => done \in {"created", "photos"}
           /\ StepAfter(done, photos) = "draft" => done = "ai"
           /\ StepAfter(done, photos) = "validate" => done = "draft"
           /\ photos # {} /\ done = "created" => StepAfter(done, photos) = "photos"
<1>1. CASE done = "created"
  BY <1>1 DEF StepAfter
<1>2. CASE done = "photos"
  BY <1>2 DEF StepAfter
<1>3. CASE done = "ai"
  BY <1>3 DEF StepAfter
<1>4. CASE done = "draft"
  BY <1>4 DEF StepAfter
<1> QED
  BY <1>1, <1>2, <1>3, <1>4 DEF PublishStep

LEMMA UnservedIsTheRun ==
    ASSUME TypeOK, NEW f \in Flow, NEW q \in Unserved(f)
    PROVE  /\ q \in Request /\ Running(f) /\ flow[f].answer = "none"
           /\ q.kind = flow[f].kind /\ q.l = flow[f].l /\ q.text = flow[f].text
           /\ q.photos = flow[f].photos
<1>1. Running(f) /\ flow[f].answer = "none"
  BY DEF Unserved
<1>2. q = [kind |-> flow[f].kind, l |-> flow[f].l, text |-> flow[f].text,
           photos |-> flow[f].photos]
  BY <1>1 DEF Unserved
<1>3. flow[f] \in Run
  BY DEF TypeOK
<1> QED
  BY <1>1, <1>2, <1>3 DEF Run, Request, Running

LEMMA CancelIsRequest == \A l \in Listing : CancelRequest(l) \in Request
BY DEF CancelRequest, Request

\* Where a request that may be executed late comes from.
Given(q) ==
    \/ q \in late
    \/ \E f \in Flow : q \in Unserved(f)
    \/ pending # NoPending /\ q = CancelRequest(pending.l)
    \/ cancel # NoCancel /\ q = CancelRequest(cancel.l)

LEMMA LateComes ==
    ASSUME [Next]_vars, NEW q \in late'
    PROVE  Given(q)
<1>1. ASSUME NEW t \in Thing, OpenCard(t)
      PROVE  Given(q)
  BY <1>1 DEF OpenCard, GiveUp, Given
<1>2. ASSUME NEW f \in Flow, Fails(f)
      PROVE  Given(q)
  BY <1>2 DEF Fails, GiveUp, Given
<1>3. CASE AbandonFails
  BY <1>3 DEF AbandonFails, GiveUp, Given
<1>4. CASE Kill
  <2>1. q \in late \/ q \in UNION {Unserved(f) : f \in Flow}
           \/ (cancel # NoCancel /\ q = CancelRequest(cancel.l))
    <3>1. PICK some \in SUBSET ((UNION {Unserved(f) : f \in Flow}) \cup
               (IF cancel # NoCancel /\ cancel.answer = "none" THEN {CancelRequest(cancel.l)}
                                                              ELSE {})) :
             late' = late \cup some
      BY <1>4 DEF Kill, GiveUp
    <3>2. q \in late \/ q \in some
      BY <3>1
    <3> QED
      BY <3>1, <3>2
  <2> QED
    BY <2>1 DEF Given
<1>5. CASE Resume \/ Leave \/ Abandon \/ Abandoned \/ UNCHANGED vars
           \/ (\E f \in Flow : Confirm(f) \/ Checkpoint(f) \/ Published(f))
  BY <1>5 DEF Resume, Leave, Abandon, Abandoned, vars, Confirm, Checkpoint, Published, Given
<1>6. ASSUME NEW f \in Flow, Serve(f)
      PROVE  Given(q)
  BY <1>6 DEF Serve, Given
<1>7. CASE ServeAbandon
  BY <1>7 DEF ServeAbandon, Given
<1>8. CASE ServeLate
  BY <1>8 DEF ServeLate, Given
<1>9. ASSUME NEW l \in Listing, CancelListing(l) \/ Diffuse(l)
      PROVE  Given(q)
  BY <1>9 DEF CancelListing, Diffuse, Given
<1> QED
  BY <1>1, <1>2, <1>3, <1>4, <1>5, <1>6, <1>7, <1>8, <1>9 DEF Next

LEMMA GivenIsRequest ==
    ASSUME TypeOK, NEW q, Given(q)
    PROVE  q \in Request
<1>1. pending # NoPending => pending.l \in Listing
  BY DEF TypeOK, Pending
<1>2. cancel # NoCancel => cancel.l \in Listing
  BY DEF TypeOK
<1> QED
  BY <1>1, <1>2, CancelIsRequest, UnservedIsTheRun DEF Given, TypeOK

\* Where the state of a run comes from.
LEMMA RunComes ==
    ASSUME [Next]_vars, NEW f \in Flow, TypeOK
    PROVE  flow'[f] = flow[f] \/ flow'[f] = Idle \/ Confirm(f) \/ Serve(f) \/ Checkpoint(f)
<1>1. ASSUME NEW t \in Thing, OpenCard(t)
      PROVE  flow'[f] = flow[f]
  BY <1>1 DEF OpenCard
<1>2. CASE Resume \/ Leave \/ Abandon \/ Abandoned \/ AbandonFails \/ UNCHANGED vars
           \/ ServeAbandon
  BY <1>2 DEF Resume, Leave, Abandon, Abandoned, AbandonFails, vars, phoneVars, ServeAbandon
<1>3. CASE Kill
  BY <1>3 DEF Kill
<1>4. ASSUME NEW g \in Flow, Confirm(g) \/ Serve(g) \/ Checkpoint(g), g # f
      PROVE  flow'[f] = flow[f]
  BY <1>4 DEF Confirm, Serve, Checkpoint, TypeOK
<1>5. ASSUME NEW g \in Flow, Published(g) \/ Fails(g)
      PROVE  flow'[f] = flow[f] \/ flow'[f] = Idle
  BY <1>5 DEF Published, Fails, TypeOK
<1>6. CASE ServeLate
  BY <1>6 DEF ServeLate, phoneVars
<1>7. ASSUME NEW l \in Listing, CancelListing(l) \/ Diffuse(l)
      PROVE  flow'[f] = flow[f]
  BY <1>7 DEF CancelListing, Diffuse, phoneVars
<1> QED
  BY <1>1, <1>2, <1>3, <1>4, <1>5, <1>6, <1>7 DEF Next

LEMMA PendingComes ==
    ASSUME [Next]_vars
    PROVE  pending' = pending \/ pending' = NoPending \/ \E f \in Flow : Checkpoint(f)
<1>1. ASSUME NEW t \in Thing, OpenCard(t)
      PROVE  pending' = NoPending
  BY <1>1 DEF OpenCard
<1>2. CASE Resume \/ Leave \/ Abandon \/ Abandoned \/ AbandonFails \/ UNCHANGED vars
           \/ ServeAbandon \/ Kill
  BY <1>2 DEF Resume, Leave, Abandon, Abandoned, AbandonFails, vars, phoneVars, ServeAbandon, Kill
<1>3. ASSUME NEW g \in Flow, Confirm(g) \/ Serve(g) \/ Published(g) \/ Fails(g)
      PROVE  pending' = pending \/ pending' = NoPending
  BY <1>3 DEF Confirm, Serve, Published, Fails
<1>4. CASE ServeLate
  BY <1>4 DEF ServeLate, phoneVars
<1>5. ASSUME NEW l \in Listing, CancelListing(l) \/ Diffuse(l)
      PROVE  pending' = pending
  BY <1>5 DEF CancelListing, Diffuse, phoneVars
<1> QED
  BY <1>1, <1>2, <1>3, <1>4, <1>5 DEF Next

LEMMA CancelComes ==
    ASSUME [Next]_vars
    PROVE  cancel' = cancel \/ cancel' = NoCancel \/ Abandon \/ ServeAbandon
<1>1. ASSUME NEW t \in Thing, OpenCard(t)
      PROVE  cancel' = cancel
  BY <1>1 DEF OpenCard
<1>2. CASE Resume \/ Leave \/ Abandoned \/ AbandonFails \/ UNCHANGED vars \/ Kill
  BY <1>2 DEF Resume, Leave, Abandoned, AbandonFails, vars, phoneVars, Kill
<1>3. ASSUME NEW g \in Flow,
             Confirm(g) \/ Serve(g) \/ Checkpoint(g) \/ Published(g) \/ Fails(g)
      PROVE  cancel' = cancel
  BY <1>3 DEF Confirm, Serve, Checkpoint, Published, Fails
<1>4. CASE ServeLate
  BY <1>4 DEF ServeLate, phoneVars
<1>5. ASSUME NEW l \in Listing, CancelListing(l) \/ Diffuse(l)
      PROVE  cancel' = cancel
  BY <1>5 DEF CancelListing, Diffuse, phoneVars
<1> QED
  BY <1>1, <1>2, <1>3, <1>4, <1>5 DEF Next

RunFields(r) ==
    /\ r.kind \in Kind \cup {"idle"} /\ r.l \in Listing \cup {NoListing}
    /\ r.text \in Thing \cup {NoThing} /\ r.photos \in SUBSET Thing /\ r.answer \in Answer

LEMMA IdleIsARun == Idle \in Run /\ Idle.kind = "idle"
BY DEF Idle, Run, Answer

\* A confirmation starts at the step after the recorded one.
LEMMA Confirmed ==
    ASSUME TypeOK, NEW f \in Flow, Confirm(f)
    PROVE  /\ flow'[f] \in Run /\ \A g \in Flow \ {f} : flow'[g] = flow[g]
           /\ flow' \in [Flow -> Run]
           /\ flow'[f].text = form.text /\ flow'[f].text \in Thing
           /\ flow'[f].photos = {session} \ {NoThing} /\ flow'[f].answer = "none"
           /\ pending = NoPending => flow'[f].kind = "create" /\ flow'[f].l = NoListing
           /\ pending # NoPending =>
                 /\ flow'[f].kind = StepAfter(pending.done, flow'[f].photos)
                 /\ flow'[f].l = pending.l /\ pending.l \in Listing
                 /\ pending.done \in PublishStep
           /\ form' = [form EXCEPT !.flow = f] /\ form'.text = form.text /\ form'.flow = f
           /\ form' \in Form
<1>1. form \in Form /\ form.text \in Thing
  BY DEF Confirm, TypeOK, Form
<1>2. PICK photos : photos = {session} \ {NoThing}
  OBVIOUS
<1>3. photos \in SUBSET Thing
  BY <1>2 DEF TypeOK
<1>4. PICK kind : kind = IF pending = NoPending THEN "create"
                                                ELSE StepAfter(pending.done, photos)
  OBVIOUS
<1>5. PICK l : l = IF pending = NoPending THEN NoListing ELSE pending.l
  OBVIOUS
<1>6. pending # NoPending => pending.l \in Listing /\ pending.done \in PublishStep
  BY DEF TypeOK, Pending
<1>7. kind \in Kind /\ l \in Listing \cup {NoListing}
  BY <1>4, <1>5, <1>6, StepsAfter DEF Kind
<1>8. PICK r : r = [kind |-> kind, l |-> l, text |-> form.text, photos |-> photos,
                    answer |-> "none"]
  OBVIOUS
<1>9. /\ r \in Run /\ r.kind = kind /\ r.l = l /\ r.text = form.text /\ r.photos = photos
      /\ r.answer = "none"
  BY <1>1, <1>3, <1>7, <1>8 DEF Run, Answer
<1>10. flow' = [flow EXCEPT ![f] = r]
  BY <1>2, <1>4, <1>5, <1>8 DEF Confirm
<1>11. flow'[f] = r /\ flow' \in [Flow -> Run] /\ \A g \in Flow \ {f} : flow'[g] = flow[g]
  BY <1>9, <1>10 DEF TypeOK
<1>12. form' = [form EXCEPT !.flow = f] /\ form'.text = form.text /\ form'.flow = f
          /\ form' \in Form
  BY <1>1 DEF Confirm, Form
<1> QED
  BY <1>1, <1>2, <1>4, <1>5, <1>6, <1>9, <1>11, <1>12

\* A checkpoint records the step, and goes on to the next.
LEMMA Recorded ==
    ASSUME ReachedInv, NEW f \in Flow, Checkpoint(f)
    PROVE  /\ Running(f) /\ Accepted(f) /\ flow[f].kind \in {"create", "photos", "ai", "draft"}
           /\ flow[f].l \in Listing /\ flow[f].text \in Thing
           /\ pending' \in Pending /\ pending'.l = flow[f].l /\ pending'.text = flow[f].text
           /\ pending'.done = StepOf[flow[f].kind] /\ pending'.done \in PublishStep
           /\ flow' \in [Flow -> Run] /\ \A g \in Flow \ {f} : flow'[g] = flow[g]
           /\ flow'[f].kind = StepAfter(pending'.done, flow[f].photos)
           /\ flow'[f].l = flow[f].l /\ flow'[f].text = flow[f].text
           /\ flow'[f].photos = flow[f].photos /\ flow'[f].answer = "none"
<1>1. Running(f) /\ Accepted(f) /\ flow[f].kind # "validate"
  BY DEF Checkpoint
<1>2. TypeOK /\ flow[f] \in Run /\ flow[f].kind \in {"create", "photos", "ai", "draft"}
  BY <1>1 DEF ReachedInv, TypeOK, Run, Running, Kind
<1>3. flow[f].answer # "none"
  BY <1>1 DEF Accepted
<1>4. flow[f].l \in Listing /\ flow[f].text \in Thing
  BY <1>1, <1>3 DEF ReachedInv, StepsAreReached, TextIsThere
<1>5. PICK done \in PublishStep : done = StepOf[flow[f].kind]
  BY <1>2 DEF StepOf, PublishStep
<1>6. PICK kind \in Kind : kind = StepAfter(done, flow[f].photos)
  BY StepsAfter DEF Kind
<1>7. /\ pending' = [l |-> flow[f].l, text |-> flow[f].text, done |-> done]
      /\ flow' = [flow EXCEPT ![f].kind = kind, ![f].answer = "none"]
  BY <1>5, <1>6 DEF Checkpoint
<1>8. /\ pending' \in Pending /\ pending'.l = flow[f].l /\ pending'.text = flow[f].text
      /\ pending'.done = done
  BY <1>4, <1>7 DEF Pending
<1>9. flow' \in [Flow -> Run] /\ flow'[f].kind = kind /\ flow'[f].l = flow[f].l
        /\ flow'[f].text = flow[f].text /\ flow'[f].photos = flow[f].photos
        /\ flow'[f].answer = "none" /\ \A g \in Flow \ {f} : flow'[g] = flow[g]
  BY <1>2, <1>7 DEF TypeOK, Run, Answer
<1> QED
  BY <1>1, <1>2, <1>4, <1>5, <1>6, <1>8, <1>9

\* An answer is noted by the run that waits for it.
LEMMA Noted ==
    ASSUME TypeOK, NEW f \in Flow, NEW l \in Listing, NEW answer \in Answer,
           flow' = [flow EXCEPT ![f].l = l, ![f].answer = answer]
    PROVE  /\ flow' \in [Flow -> Run] /\ \A g \in Flow \ {f} : flow'[g] = flow[g]
           /\ flow'[f].kind = flow[f].kind /\ flow'[f].text = flow[f].text
           /\ flow'[f].photos = flow[f].photos /\ flow'[f].l = l /\ flow'[f].answer = answer
<1>1. flow[f] \in Run /\ flow \in [Flow -> Run]
  BY DEF TypeOK
<1> QED
  BY <1>1 DEF Run

LEMMA ServedNotes ==
    ASSUME ReachedInv, NEW f \in Flow, Serve(f)
    PROVE  /\ \A g \in Flow \ {f} : flow'[g] = flow[g]
           /\ flow'[f].kind = flow[f].kind /\ flow'[f].text = flow[f].text
           /\ flow'[f].photos = flow[f].photos
           /\ flow'[f].l \in Listing /\ flow'[f].answer \in Answer \ {"none"}
           /\ flow[f].kind # "create" => flow'[f].l = flow[f].l
<1>0. TypeOK
  BY DEF ReachedInv
<1>1. PICK l \in Listing, answer \in Answer \ {"none"} :
         /\ flow[f].kind # "create" => l = flow[f].l
         /\ flow' = [flow EXCEPT ![f].l = l, ![f].answer = answer]
  BY Served
<1>2. flow[f] \in Run /\ flow \in [Flow -> Run]
  BY <1>0 DEF TypeOK
<1> QED
  BY <1>1, <1>2 DEF Run

LEMMA ShownIsAForm ==
    \A t \in Thing : Shown(t) \in Form /\ Shown(t).text = t /\ Shown(t).flow = NoFlow
BY DEF Shown, Form

LEMMA FormsAreForms ==
    ASSUME TypeOK, [Next]_vars
    PROVE  /\ form' \in Form \cup {NoForm}
           /\ hurried' \in BOOLEAN /\ kills' \in 0 .. MaxKills
           /\ cards' \subseteq cards /\ session' \in Thing \cup {NoThing}
<1>1. ASSUME NEW t \in Thing, OpenCard(t)
      PROVE  /\ form' \in Form \cup {NoForm} /\ hurried' \in BOOLEAN /\ kills' \in 0 .. MaxKills
             /\ cards' \subseteq cards /\ session' \in Thing \cup {NoThing}
  BY <1>1, ShownIsAForm DEF OpenCard, TypeOK
<1>2. CASE Resume
  <2>1. (IF session # NoThing THEN session ELSE pending.text) \in Thing
    BY <1>2 DEF Resume, TypeOK, Pending
  <2> QED
    BY <1>2, <2>1, ShownIsAForm DEF Resume, TypeOK
<1>3. CASE Leave \/ Abandon \/ Abandoned \/ AbandonFails \/ ServeAbandon \/ UNCHANGED vars
  BY <1>3 DEF Leave, Abandon, Abandoned, AbandonFails, ServeAbandon, vars, phoneVars, TypeOK
<1>4. CASE Kill
  BY <1>4, FlowAssumption DEF Kill, TypeOK
<1>5. ASSUME NEW f \in Flow, Confirm(f)
      PROVE  /\ form' \in Form \cup {NoForm} /\ hurried' \in BOOLEAN /\ kills' \in 0 .. MaxKills
             /\ cards' \subseteq cards /\ session' \in Thing \cup {NoThing}
  <2>1. form' \in Form
    BY <1>5, Confirmed
  <2> QED
    BY <1>5, <2>1 DEF Confirm, TypeOK
<1>6. ASSUME NEW f \in Flow, Fails(f)
      PROVE  /\ form' \in Form \cup {NoForm} /\ hurried' \in BOOLEAN /\ kills' \in 0 .. MaxKills
             /\ cards' \subseteq cards /\ session' \in Thing \cup {NoThing}
  <2>1. form # NoForm => form.text \in Thing
    BY DEF TypeOK, Form
  <2>2. form' \in Form \cup {NoForm}
    BY <1>6, <2>1, ShownIsAForm DEF Fails, TypeOK
  <2> QED
    BY <1>6, <2>2 DEF Fails, TypeOK
<1>7. ASSUME NEW f \in Flow, Serve(f) \/ Checkpoint(f) \/ Published(f)
      PROVE  /\ form' \in Form \cup {NoForm} /\ hurried' \in BOOLEAN /\ kills' \in 0 .. MaxKills
             /\ cards' \subseteq cards /\ session' \in Thing \cup {NoThing}
  BY <1>7 DEF Serve, Checkpoint, Published, TypeOK
<1>8. CASE ServeLate
  BY <1>8 DEF ServeLate, phoneVars, TypeOK
<1>9. ASSUME NEW l \in Listing, CancelListing(l) \/ Diffuse(l)
      PROVE  /\ form' \in Form \cup {NoForm} /\ hurried' \in BOOLEAN /\ kills' \in 0 .. MaxKills
             /\ cards' \subseteq cards /\ session' \in Thing \cup {NoThing}
  BY <1>9 DEF CancelListing, Diffuse, phoneVars, TypeOK
<1> QED
  BY <1>1, <1>2, <1>3, <1>4, <1>5, <1>6, <1>7, <1>8, <1>9 DEF Next

LEMMA RunsAreRuns ==
    ASSUME ReachedInv, [Next]_vars
    PROVE  flow' \in [Flow -> Run]
<1>0. TypeOK
  BY DEF ReachedInv
<1>1. ASSUME NEW t \in Thing, OpenCard(t)
      PROVE  flow' = flow
  BY <1>1 DEF OpenCard
<1>2. CASE Resume \/ Leave \/ Abandon \/ Abandoned \/ AbandonFails \/ UNCHANGED vars
           \/ ServeAbandon \/ ServeLate
  BY <1>0, <1>2 DEF Resume, Leave, Abandon, Abandoned, AbandonFails, vars, phoneVars,
                    ServeAbandon, ServeLate, TypeOK
<1>3. CASE Kill
  BY <1>3, IdleIsARun DEF Kill
<1>4. ASSUME NEW f \in Flow, Confirm(f)
      PROVE  flow' \in [Flow -> Run]
  BY <1>0, <1>4, Confirmed
<1>5. ASSUME NEW f \in Flow, Checkpoint(f)
      PROVE  flow' \in [Flow -> Run]
  BY <1>5, Recorded
<1>6. ASSUME NEW f \in Flow, Serve(f)
      PROVE  flow' \in [Flow -> Run]
  BY <1>0, <1>6, Served, Noted
<1>7. ASSUME NEW f \in Flow, Published(f) \/ Fails(f)
      PROVE  flow' \in [Flow -> Run]
  BY <1>0, <1>7, IdleIsARun DEF Published, Fails, TypeOK
<1>8. ASSUME NEW l \in Listing, CancelListing(l) \/ Diffuse(l)
      PROVE  flow' = flow
  BY <1>8 DEF CancelListing, Diffuse, phoneVars
<1> QED
  BY <1>0, <1>1, <1>2, <1>3, <1>4, <1>5, <1>6, <1>7, <1>8 DEF Next, TypeOK

LEMMA TypeStep ==
    ASSUME ReachedInv, [Next]_vars
    PROVE  TypeOK'
<1>0. TypeOK
  BY DEF ReachedInv
<1>1. row' \in [Listing -> Row]
  BY RowsMove DEF RowsGrow
<1>2. late' \subseteq Request
  BY <1>0, LateComes, GivenIsRequest
<1>3. pending' \in Pending \cup {NoPending}
  BY <1>0, PendingComes, Recorded DEF TypeOK
<1>4. cancel' \in [l : Listing, answer : Answer] \cup {NoCancel}
  <2>1. CASE Abandon
    <3>1. pending.l \in Listing
      BY <1>0, <2>1 DEF Abandon, TypeOK, Pending
    <3> QED
      BY <2>1, <3>1 DEF Abandon, Answer
  <2>2. CASE ServeAbandon
    <3>1. PICK answer \in Answer : cancel' = [cancel EXCEPT !.answer = answer]
      BY <2>2 DEF ServeAbandon
    <3>2. cancel \in [l : Listing, answer : Answer]
      BY <1>0, <2>2 DEF ServeAbandon, TypeOK
    <3> QED
      BY <3>1, <3>2
  <2> QED
    BY <1>0, <2>1, <2>2, CancelComes DEF TypeOK
<1> QED
  BY <1>0, <1>1, <1>2, <1>3, <1>4, FormsAreForms, RunsAreRuns DEF TypeOK

-----------------------------------------------------------------------------
(* What is passed stays passed.                                             *)

LEMMA RowsLast ==
    ASSUME ReachedInv, [Next]_vars, NEW l \in Listing
    PROVE  /\ row[l].status \in Status /\ row'[l].status \in Status
           /\ row'[l].status = "NO_ROW" => row[l].status = "NO_ROW"
           /\ \A k \in PublishStep : row[l].status \in Passed[k] => row'[l].status \in Passed[k]
           /\ \A k \in {"photos", "ai", "draft", "validate", "cancel"} :
                 row[l].status \in Before[k] => row'[l].status \in Before[k]
           /\ \A k \in Kind : row[l].status \in After[k] => row'[l].status \in After[k]
           /\ row[l].status \in Over => row'[l].status \in Over
           /\ row[l].photos # {} => row'[l].photos # {}
<1>1. PICK s \in Status : s = row[l].status
  BY StatusIsStatus DEF ReachedInv
<1>2. PICK t : t = row'[l].status
  OBVIOUS
<1>3. Edge(s, t) /\ row[l].photos \subseteq row'[l].photos
  BY <1>1, <1>2, RowsMove DEF RowsGrow
<1>4. \A k \in {"photos", "ai", "draft", "validate", "cancel"} : s \in Before[k] => t \in Before[k]
  BY <1>3, BeforeLasts
<1>5. \A k \in Kind : s \in After[k] => t \in After[k]
  BY <1>3, AfterLasts
<1>6. /\ t \in Status
      /\ t = "NO_ROW" => s = "NO_ROW"
      /\ \A k \in PublishStep : s \in Passed[k] => t \in Passed[k]
      /\ s \in Over => t \in Over
  BY <1>3, PassedLasts
<1>7. row[l].photos # {} => row'[l].photos # {}
  BY <1>3
<1> QED
  BY <1>1, <1>2, <1>4, <1>5, <1>6, <1>7

LEMMA StatusesStep ==
    ASSUME ReachedInv, [Next]_vars
    PROVE  StatusesAreThese'
BY RowsLast DEF StatusesAreThese, Status

\* After a step comes the one before the next.
LEMMA AfterIsBefore ==
    ASSUME NEW done \in PublishStep, NEW photos, NEW s \in Passed[done]
    PROVE  s \in Before[StepAfter(done, photos)]
<1>1. CASE StepAfter(done, photos) = "photos"
  BY <1>1, StepsAfter, PassedIsARow DEF Before
<1>2. CASE StepAfter(done, photos) = "ai"
  BY <1>2, StepsAfter, PassedIsARow DEF Before
<1>3. CASE StepAfter(done, photos) = "draft"
  BY <1>3, StepsAfter DEF Before
<1>4. CASE StepAfter(done, photos) = "validate"
  BY <1>4, StepsAfter DEF Before
<1> QED
  BY <1>1, <1>2, <1>3, <1>4, StepsAfter

LEMMA AfterIsPassed ==
    ASSUME NEW k \in {"create", "photos", "ai", "draft"}
    PROVE  After[k] = Passed[StepOf[k]] /\ StepOf[k] \in PublishStep
              /\ (StepOf[k] = "photos" <=> k = "photos")
              /\ (StepOf[k] = "created" <=> k = "create")
BY DEF After, Passed, StepOf, PublishStep

\* A checkpoint is one of a step that was passed.
LEMMA RecordedIsPassed ==
    ASSUME ReachedInv, NEW f \in Flow, Checkpoint(f)
    PROVE  /\ row[pending'.l].status \in Passed[pending'.done]
           /\ pending'.done = "photos" => row[pending'.l].photos # {}
<1>1. PICK k \in {"create", "photos", "ai", "draft"} : k = flow[f].kind
  BY Recorded
<1>2. row[flow[f].l].status \in After[k] /\ (k = "photos" => row[flow[f].l].photos # {})
  BY <1>1, Recorded DEF ReachedInv, StepsAreReached
<1>3. pending'.l = flow[f].l /\ pending'.done = StepOf[k]
  BY <1>1, Recorded
<1> QED
  BY <1>2, <1>3, AfterIsPassed

LEMMA CheckpointStep ==
    ASSUME ReachedInv, [Next]_vars
    PROVE  CheckpointIsReached'
<1> SUFFICES ASSUME pending' # NoPending
             PROVE  /\ row'[pending'.l].status \in Passed[pending'.done]
                    /\ pending'.done = "photos" => row'[pending'.l].photos # {}
  BY DEF CheckpointIsReached
<1>1. PICK l, done : l = pending'.l /\ done = pending'.done
  OBVIOUS
<1>2. /\ l \in Listing /\ done \in PublishStep /\ row[l].status \in Passed[done]
      /\ done = "photos" => row[l].photos # {}
  <2>1. CASE pending' = pending
    BY <1>1, <2>1 DEF ReachedInv, TypeOK, Pending, CheckpointIsReached
  <2>2. ASSUME NEW f \in Flow, Checkpoint(f)
        PROVE  /\ l \in Listing /\ done \in PublishStep /\ row[l].status \in Passed[done]
               /\ done = "photos" => row[l].photos # {}
    BY <1>1, <2>2, Recorded, RecordedIsPassed
  <2> QED
    BY <2>1, <2>2, PendingComes
<1> QED
  BY <1>1, <1>2, RowsLast

LEMMA LateStep ==
    ASSUME ReachedInv, [Next]_vars
    PROVE  LateIsReached'
<1> SUFFICES ASSUME NEW q \in late', q.kind # "create"
             PROVE  q.l \in Listing /\ row'[q.l].status \in Before[q.kind]
  BY DEF LateIsReached
<1>1. Given(q) /\ TypeOK /\ q \in Request
  BY LateComes, GivenIsRequest DEF ReachedInv
<1>2. q.kind \in {"photos", "ai", "draft", "validate", "cancel"}
  BY <1>1 DEF Request, Kind
<1>3. q.l \in Listing /\ row[q.l].status \in Before[q.kind]
  <2>1. CASE q \in late
    BY <2>1 DEF ReachedInv, LateIsReached
  <2>2. ASSUME NEW f \in Flow, q \in Unserved(f)
        PROVE  q.l \in Listing /\ row[q.l].status \in Before[q.kind]
    BY <1>1, <2>2, UnservedIsTheRun DEF ReachedInv, StepsAreReached
  <2>3. CASE pending # NoPending /\ q = CancelRequest(pending.l)
    <3>1. pending.l \in Listing /\ pending.done \in PublishStep
             /\ row[pending.l].status \in Passed[pending.done]
      BY <2>3 DEF ReachedInv, TypeOK, Pending, CheckpointIsReached
    <3>2. row[pending.l].status \in Before.cancel
      BY <3>1, PassedIsARow
    <3> QED
      BY <2>3, <3>1, <3>2 DEF CancelRequest
  <2>4. CASE cancel # NoCancel /\ q = CancelRequest(cancel.l)
    BY <1>1, <2>4 DEF ReachedInv, TypeOK, CancelIsReached, CancelRequest
  <2> QED
    BY <1>1, <2>1, <2>2, <2>3, <2>4 DEF Given
<1> QED
  BY <1>2, <1>3, RowsLast

LEMMA CancelStep ==
    ASSUME ReachedInv, [Next]_vars
    PROVE  CancelIsReached'
<1> SUFFICES ASSUME cancel' # NoCancel
             PROVE  /\ row'[cancel'.l].status \in Before.cancel
                    /\ cancel'.answer \in {"ok", "invalid"} => row'[cancel'.l].status \in Over
  BY DEF CancelIsReached
<1>1. CASE cancel' = cancel
  <2>1. cancel.l \in Listing
    BY <1>1 DEF ReachedInv, TypeOK
  <2>2. /\ row[cancel.l].status \in Before.cancel
        /\ cancel.answer \in {"ok", "invalid"} => row[cancel.l].status \in Over
    BY <1>1 DEF ReachedInv, CancelIsReached
  <2> QED
    BY <1>1, <2>1, <2>2, RowsLast
<1>2. CASE Abandon
  <2>1. pending.l \in Listing /\ pending.done \in PublishStep
           /\ row[pending.l].status \in Passed[pending.done]
    BY <1>2 DEF Abandon, ReachedInv, TypeOK, Pending, CheckpointIsReached
  <2>2. row[pending.l].status \in Before.cancel
    BY <2>1, PassedIsARow
  <2>3. cancel'.l = pending.l /\ cancel'.answer = "none"
    BY <1>2 DEF Abandon
  <2> QED
    BY <2>1, <2>2, <2>3, RowsLast
<1>3. CASE ServeAbandon
  <2>1. PICK q : \E l \in Listing, answer \in Answer \ {"none"} :
                   /\ q = CancelRequest(l) /\ l = cancel.l
                   /\ Effect(q, l, answer)
                   /\ cancel' = [cancel EXCEPT !.answer = answer]
    BY <1>3, AbandonServed
  <2>2. PICK l \in Listing, answer \in Answer \ {"none"} :
                   /\ q = CancelRequest(l) /\ l = cancel.l
                   /\ Effect(q, l, answer)
                   /\ cancel' = [cancel EXCEPT !.answer = answer]
    BY <2>1
  <2>3. cancel \in [l : Listing, answer : Answer]
    BY <1>3 DEF ReachedInv, TypeOK, ServeAbandon
  <2>4. cancel'.l = l /\ cancel'.answer = answer
    BY <2>2, <2>3
  <2>5. row[l].status \in Before.cancel
    BY <1>3, <2>2 DEF ReachedInv, CancelIsReached, ServeAbandon
  <2>6. answer \in {"ok", "invalid"} => row'[l].status \in Over
    BY <2>2, CancelIsSent DEF Effect
  <2> QED
    BY <2>4, <2>5, <2>6, RowsLast
<1> QED
  BY <1>1, <1>2, <1>3, CancelComes

\* What StepsAreReached says of a run r over the listings s.
Reached(r, s) ==
    r.kind # "idle" =>
        /\ r.kind = "create" /\ r.answer = "none" => r.l = NoListing
        /\ r.kind = "create" /\ r.answer # "none" => r.l \in Listing
        /\ r.kind # "create" => r.l \in Listing /\ s[r.l].status \in Before[r.kind]
        /\ r.kind = "photos" => r.photos # {}
        /\ Counts(r, r.answer) => s[r.l].status \in After[r.kind]
        /\ Counts(r, r.answer) /\ r.kind = "photos" => s[r.l].photos # {}

LEMMA ReachedIsReached ==
    /\ StepsAreReached <=> \A f \in Flow : Reached(flow[f], row)
    /\ StepsAreReached' <=> \A f \in Flow : Reached(flow'[f], row')
BY DEF StepsAreReached, Reached, Running, Accepted, Counts

LEMMA StepsStep ==
    ASSUME ReachedInv, [Next]_vars
    PROVE  StepsAreReached'
<1> SUFFICES ASSUME NEW f \in Flow, flow'[f].kind # "idle"
             PROVE  Reached(flow'[f], row')
  BY ReachedIsReached DEF Reached
<1>0. TypeOK /\ CheckpointIsReached /\ Reached(flow[f], row)
  BY ReachedIsReached DEF ReachedInv
<1>1. CASE flow'[f] = flow[f]
  <2>1. PICK r \in Run : r = flow[f]
    BY <1>0 DEF TypeOK
  <2>2. Reached(r, row) /\ r.kind \in Kind
    BY <1>0, <1>1, <2>1 DEF Run
  <2>3. r.kind # "create" => r.l \in Listing /\ row'[r.l].status \in Before[r.kind]
    <3> HAVE r.kind # "create"
    <3>1. r.kind \in {"photos", "ai", "draft", "validate", "cancel"}
      BY <2>2 DEF Kind
    <3> QED
      BY <2>2, <3>1, RowsLast DEF Reached, Kind
  <2>4. Counts(r, r.answer) => row'[r.l].status \in After[r.kind]
    <3> HAVE Counts(r, r.answer)
    <3>1. r.l \in Listing /\ row[r.l].status \in After[r.kind]
      BY <2>2 DEF Reached, Counts, Kind
    <3> QED
      BY <2>2, <3>1, RowsLast
  <2>5. Counts(r, r.answer) /\ r.kind = "photos" => row'[r.l].photos # {}
    BY <2>2, RowsLast DEF Reached
  <2>6. Reached(r, row')
    BY <2>2, <2>3, <2>4, <2>5 DEF Reached
  <2> QED
    BY <1>1, <2>1, <2>6
<1>2. CASE Confirm(f)
  <2>1. flow'[f].answer = "none"
    BY <1>0, <1>2, Confirmed
  <2>2. CASE pending = NoPending
    BY <1>0, <1>2, <2>1, <2>2, Confirmed DEF Reached, Counts
  <2>3. CASE pending # NoPending
    <3>0. PICK photos : photos = flow'[f].photos
      OBVIOUS
    <3>1. PICK done \in PublishStep :
             /\ done = pending.done /\ photos = flow'[f].photos
             /\ flow'[f].kind = StepAfter(done, photos)
             /\ flow'[f].l = pending.l /\ pending.l \in Listing
      BY <1>0, <1>2, <2>3, <3>0, Confirmed
    <3>2. row[pending.l].status \in Passed[done]
      BY <1>0, <2>3, <3>1 DEF CheckpointIsReached
    <3>3. row'[pending.l].status \in Passed[done]
      BY <3>1, <3>2, RowsLast
    <3>4. row'[pending.l].status \in Before[StepAfter(done, photos)]
      BY <3>3, AfterIsBefore
    <3>5. StepAfter(done, photos) # "create" /\ (StepAfter(done, photos) = "photos" => photos # {})
      BY StepsAfter
    <3> QED
      BY <2>1, <3>1, <3>4, <3>5 DEF Reached, Counts
  <2> QED
    BY <2>2, <2>3
<1>3. CASE Checkpoint(f)
  <2>0. PICK photos : photos = flow'[f].photos
    OBVIOUS
  <2>1. PICK done \in PublishStep, l \in Listing :
           /\ done = pending'.done /\ photos = flow'[f].photos /\ l = pending'.l
           /\ flow'[f].kind = StepAfter(done, photos)
           /\ flow'[f].l = l /\ flow'[f].answer = "none"
    <3>1. /\ pending'.done \in PublishStep /\ pending'.l \in Listing
          /\ flow'[f].kind = StepAfter(pending'.done, flow[f].photos)
          /\ flow'[f].l = pending'.l /\ flow'[f].answer = "none"
          /\ flow'[f].photos = flow[f].photos
      BY <1>3, Recorded
    <3> QED
      BY <2>0, <3>1
  <2>2. row[l].status \in Passed[done]
    BY <1>3, <2>1, RecordedIsPassed
  <2>3. row'[l].status \in Passed[done]
    BY <2>1, <2>2, RowsLast
  <2>4. row'[l].status \in Before[StepAfter(done, photos)]
    BY <2>3, AfterIsBefore
  <2>5. StepAfter(done, photos) # "create" /\ (StepAfter(done, photos) = "photos" => photos # {})
    BY StepsAfter
  <2> QED
    BY <2>1, <2>4, <2>5 DEF Reached, Counts
<1>4. CASE Serve(f)
  <2>1. PICK q : \E l \in Listing, answer \in Answer \ {"none"} :
              /\ q = flow[f] /\ Sent(q)
              /\ q.kind # "create" => l = q.l
              /\ Effect(q, l, answer)
              /\ flow' = [flow EXCEPT ![f].l = l, ![f].answer = answer]
    BY <1>4, Served
  <2>2. PICK l \in Listing, answer \in Answer \ {"none"} :
              /\ q = flow[f] /\ Sent(q)
              /\ q.kind # "create" => l = q.l
              /\ Effect(q, l, answer)
              /\ flow' = [flow EXCEPT ![f].l = l, ![f].answer = answer]
    BY <2>1
  <2>3. PICK r : r = flow'[f]
    OBVIOUS
  <2>4. r.kind = q.kind /\ r.text = q.text /\ r.photos = q.photos /\ r.l = l /\ r.answer = answer
    <3>1. flow[f] \in Run /\ flow \in [Flow -> Run]
      BY <1>0 DEF TypeOK
    <3> QED
      BY <2>2, <2>3, <3>1 DEF Run
  <2>5. q.kind \in Kind /\ Reached(q, row)
    BY <1>0, <1>4, <2>2, RunsAreSent DEF Serve
  <2>6. r.kind # "create" => row'[l].status \in Before[r.kind]
    <3> HAVE r.kind # "create"
    <3>1. r.kind \in {"photos", "ai", "draft", "validate", "cancel"}
      BY <2>4, <2>5 DEF Kind
    <3>2. row[l].status \in Before[r.kind]
      BY <2>2, <2>4, <2>5 DEF Reached, Kind
    <3> QED
      BY <3>1, <3>2, RowsLast
  <2>7. Counts(r, answer) => row'[l].status \in After[r.kind]
    BY <2>2, <2>4, <2>5 DEF Effect, Counts, Kind
  <2>8. Counts(r, answer) /\ r.kind = "photos" => row'[l].photos # {}
    BY <2>2, <2>4, <2>5 DEF Effect, Counts, Kind, Reached, AlreadyDone
  <2>9. r.kind = "photos" => r.photos # {}
    BY <2>4, <2>5 DEF Reached
  <2> QED
    BY <2>3, <2>4, <2>6, <2>7, <2>8, <2>9 DEF Reached
<1> QED
  BY <1>0, <1>1, <1>2, <1>3, <1>4, RunComes, IdleIsARun

LEMMA TextStep ==
    ASSUME ReachedInv, [Next]_vars
    PROVE  TextIsThere'
<1>0. TypeOK
  BY DEF ReachedInv
<1>1. ASSUME NEW f \in Flow, flow'[f].kind # "idle"
      PROVE  flow'[f].text \in Thing
  <2>1. CASE flow'[f] = flow[f]
    BY <1>1, <2>1 DEF ReachedInv, TextIsThere, Running
  <2>2. CASE Confirm(f)
    BY <1>0, <2>2, Confirmed
  <2>3. CASE Checkpoint(f)
    BY <2>3, Recorded
  <2>4. CASE Serve(f)
    <3>1. flow'[f].text = flow[f].text
      BY <2>4, ServedNotes
    <3> QED
      BY <2>4, <3>1 DEF ReachedInv, TextIsThere, Serve
  <2> QED
    BY <1>0, <1>1, <2>1, <2>2, <2>3, <2>4, RunComes, IdleIsARun
<1>2. ASSUME NEW q \in late', q.kind # "cancel"
      PROVE  q.text \in Thing
  <2>1. Given(q)
    BY <1>2, LateComes
  <2>2. CASE q \in late
    BY <1>2, <2>2 DEF ReachedInv, TextIsThere
  <2>3. ASSUME NEW f \in Flow, q \in Unserved(f)
        PROVE  q.text \in Thing
    BY <1>0, <2>3, UnservedIsTheRun DEF ReachedInv, TextIsThere
  <2> QED
    BY <1>2, <2>1, <2>2, <2>3, CancelIsSent DEF Given
<1>3. ASSUME NEW l \in Listing, row'[l].status \in {"DRAFT_READY", "QUEUED", "PUBLISHED"}
      PROVE  row'[l].text \in Thing
  <2>0. row[l].status \in {"DRAFT_READY", "QUEUED", "PUBLISHED"} => row[l].text \in Thing
    BY DEF ReachedInv, TextIsThere
  <2>1. ASSUME NEW q, NEW k \in Listing, NEW answer, Effect(q, k, answer), Sent(q),
               q.kind # "cancel" => q.text \in Thing
        PROVE  row'[l].text \in Thing
    <3>1. CASE k # l
      BY <1>3, <2>0, <2>1, <3>1 DEF Effect
    <3>2. CASE k = l /\ row[l].status \in {"DRAFT_READY", "QUEUED", "PUBLISHED"}
      BY <2>0, <2>1, <3>2 DEF Effect
    <3>3. CASE k = l /\ row[l].status \notin {"DRAFT_READY", "QUEUED", "PUBLISHED"}
      <4>1. q.kind = "draft" /\ row'[l].text = q.text
        BY <1>3, <2>1, <3>3 DEF Effect
      <4> QED
        BY <2>1, <4>1
    <3> QED
      BY <3>1, <3>2, <3>3
  <2>2. CASE PhoneStep
    BY <1>3, <2>0, <2>2, PhoneKeepsRows
  <2>3. ASSUME NEW f \in Flow, Serve(f)
        PROVE  row'[l].text \in Thing
    <3>1. flow[f].text \in Thing
      BY <2>3 DEF Serve, ReachedInv, TextIsThere
    <3> QED
      BY <2>1, <2>3, <3>1, Served
  <2>4. CASE ServeAbandon
    BY <2>1, <2>4, AbandonServed, CancelIsSent
  <2>5. CASE ServeLate
    <3>1. \A q \in late : q.kind # "cancel" => q.text \in Thing
      BY DEF ReachedInv, TextIsThere
    <3> QED
      BY <2>1, <2>5, <3>1, LateServed
  <2>6. ASSUME NEW k \in Listing, CancelListing(k) \/ Diffuse(k)
        PROVE  row'[l].text \in Thing
    <3>1. k # l => row'[l] = row[l]
      BY <1>0, <2>6, Elsewhere
    <3>2. k = l => row[l].status = "QUEUED" /\ row'[l].text = row[l].text
      BY <1>0, <2>6, Elsewhere
    <3> QED
      BY <1>3, <2>0, <3>1, <3>2
  <2> QED
    BY <2>2, <2>3, <2>4, <2>5, <2>6, StepCases
<1> QED
  BY <1>1, <1>2, <1>3 DEF TextIsThere, Running

LEMMA ReachedInit == Init => ReachedInv
<1> SUFFICES ASSUME Init
             PROVE  ReachedInv
  OBVIOUS
<1>1. [status |-> "NO_ROW", photos |-> {}, text |-> NoThing] \in Row
  BY DEF Row
<1>2. TypeOK
  <2>1. row \in [Listing -> Row] /\ flow \in [Flow -> Run]
    BY <1>1, IdleIsARun DEF Init
  <2>2. kills \in 0 .. MaxKills
    BY FlowAssumption DEF Init
  <2> QED
    BY <2>1, <2>2 DEF Init, TypeOK
<1>3. \A f \in Flow : ~Running(f)
  BY DEF Init, Running, Idle
<1> QED
  BY <1>2, <1>3 DEF Init, ReachedInv, CheckpointIsReached, StatusesAreThese, StepsAreReached,
                    LateIsReached, CancelIsReached, TextIsThere

LEMMA ReachedStep ==
    ASSUME ReachedInv, [Next]_vars
    PROVE  ReachedInv'
BY TypeStep, CheckpointStep, StatusesStep, StepsStep, LateStep, CancelStep, TextStep
   DEF ReachedInv

-----------------------------------------------------------------------------
(* While the user waits.                                                    *)

LEMMA HurriedLasts ==
    ASSUME TypeOK, [Next]_vars, ~hurried'
    PROVE  ~hurried
<1>1. ASSUME NEW t \in Thing, OpenCard(t)
      PROVE  ~hurried
  BY <1>1 DEF OpenCard
<1>2. CASE Resume \/ Leave \/ Abandon \/ Abandoned \/ AbandonFails \/ UNCHANGED vars
           \/ ServeAbandon \/ ServeLate \/ Kill
  BY <1>2 DEF Resume, Leave, Abandon, Abandoned, AbandonFails, vars, phoneVars,
              ServeAbandon, ServeLate, Kill
<1>3. ASSUME NEW f \in Flow,
             Confirm(f) \/ Serve(f) \/ Checkpoint(f) \/ Published(f) \/ Fails(f)
      PROVE  ~hurried
  BY <1>3 DEF Confirm, Serve, Checkpoint, Published, Fails
<1>4. ASSUME NEW l \in Listing, CancelListing(l) \/ Diffuse(l)
      PROVE  ~hurried
  BY <1>4 DEF CancelListing, Diffuse, phoneVars
<1> QED
  BY <1>1, <1>2, <1>3, <1>4 DEF Next

\* A run is that of the form; it holds its thing for its listing.
LEMMA RunIsShown ==
    ASSUME ReachedInv, AloneInv, NEW f \in Flow, Running(f)
    PROVE  /\ form # NoForm /\ form \in Form /\ form.flow = f /\ f # NoFlow
           /\ form.text = flow[f].text /\ form.text \in Thing /\ cancel = NoCancel
           /\ \A g \in Flow : Running(g) => g = f
           /\ flow[f].kind = "create" => pending = NoPending
           /\ flow[f].kind # "create" =>
                 /\ pending # NoPending /\ flow[f].l \in Listing /\ pending.l = flow[f].l
                 /\ pending.text = flow[f].text /\ Holds(flow[f].text, flow[f].l)
<1>1. /\ form # NoForm /\ form.flow = f /\ form.text = flow[f].text
      /\ flow[f].kind = "create" => pending = NoPending
      /\ flow[f].kind # "create" => pending # NoPending /\ pending.l = flow[f].l
  BY DEF AloneInv, OneRun
<1>2. form \in Form /\ form.text \in Thing
  BY <1>1 DEF ReachedInv, TypeOK, Form
<1>3. cancel = NoCancel /\ (pending # NoPending => pending.text = form.text)
  BY <1>1 DEF AloneInv, OneForm
<1>4. \A g \in Flow : Running(g) => g = f
  BY <1>1 DEF AloneInv, OneRun
<1>5. flow[f].kind # "create" => flow[f].l \in Listing
  BY DEF ReachedInv, StepsAreReached
<1>6. flow[f].kind # "create" => Holds(flow[f].text, flow[f].l)
  BY <1>1, <1>3 DEF Holds
<1>7. f # NoFlow
  BY NoneAssumption
<1> QED
  BY <1>1, <1>2, <1>3, <1>4, <1>5, <1>6, <1>7

\* What a run does while the user waits.
LEMMA WhileRunning ==
    ASSUME ReachedInv, AloneInv, [Next]_vars, ~hurried', NEW f \in Flow, Running(f)
    PROVE  \/ Serve(f) \/ Checkpoint(f) \/ Published(f) \/ Fails(f) \/ Kill
           \/ UNCHANGED phoneVars
<1>1. /\ form # NoForm /\ form.flow = f /\ f # NoFlow /\ cancel = NoCancel
      /\ \A g \in Flow : Running(g) => g = f
  BY RunIsShown
<1>2. ASSUME NEW t \in Thing, OpenCard(t)
      PROVE  FALSE
  BY <1>1, <1>2 DEF OpenCard
<1>3. CASE Resume \/ Leave \/ Abandon \/ Abandoned \/ AbandonFails \/ ServeAbandon
  BY <1>1, <1>3 DEF Resume, Leave, Abandon, Abandoned, AbandonFails, ServeAbandon
<1>4. ASSUME NEW g \in Flow,
             Confirm(g) \/ Serve(g) \/ Checkpoint(g) \/ Published(g) \/ Fails(g)
      PROVE  Serve(f) \/ Checkpoint(f) \/ Published(f) \/ Fails(f)
  <2>1. ~Confirm(g)
    BY <1>1 DEF Confirm
  <2>2. Running(g)
    BY <1>4, <2>1 DEF Serve, Checkpoint, Published, Fails
  <2> QED
    BY <1>1, <1>4, <2>1, <2>2
<1>5. CASE ServeLate \/ UNCHANGED vars
  BY <1>5 DEF ServeLate, vars
<1>6. ASSUME NEW l \in Listing, CancelListing(l) \/ Diffuse(l)
      PROVE  UNCHANGED phoneVars
  BY <1>6 DEF CancelListing, Diffuse
<1> QED
  BY <1>2, <1>3, <1>4, <1>5, <1>6 DEF Next

-----------------------------------------------------------------------------
(* What shows a thing, will, or is recorded for it.                         *)

\* What a listing holds of a thing, a request does not extend.
LEMMA EffectHolds ==
    ASSUME ReachedInv, NEW q, NEW k \in Listing, NEW answer, Effect(q, k, answer),
           q.kind \in {"photos", "draft"} => Holds(q.text, k) /\ q.photos \subseteq {q.text},
           NEW l \in Listing, NEW t \in Thing, row'[l].text = t \/ t \in row'[l].photos
    PROVE  Holds(t, l)
<1>1. CASE row[l].text = t \/ t \in row[l].photos
  BY <1>1 DEF Holds
<1>2. CASE ~(row[l].text = t \/ t \in row[l].photos)
  <2>1. k = l
    BY <1>2 DEF Effect
  <2>2. q.kind \in {"photos", "draft"} /\ (t = q.text \/ t \in q.photos)
    BY <1>2, <2>1 DEF Effect
  <2> QED
    BY <2>1, <2>2
<1> QED
  BY <1>1, <1>2

LEMMA RowsHold ==
    ASSUME ReachedInv, AloneInv, [Next]_vars,
           NEW l \in Listing, NEW t \in Thing, row'[l].text = t \/ t \in row'[l].photos
    PROVE  Holds(t, l)
<1>1. CASE PhoneStep
  BY <1>1, PhoneKeepsRows DEF Holds
<1>2. ASSUME NEW f \in Flow, Serve(f)
      PROVE  Holds(t, l)
  <2>1. PICK q : \E k \in Listing, answer \in Answer \ {"none"} :
              /\ q = flow[f] /\ Sent(q)
              /\ q.kind # "create" => k = q.l
              /\ Effect(q, k, answer)
    BY <1>2, Served
  <2>2. PICK k \in Listing, answer \in Answer \ {"none"} :
              /\ q = flow[f] /\ Sent(q)
              /\ q.kind # "create" => k = q.l
              /\ Effect(q, k, answer)
    BY <2>1
  <2>3. Running(f)
    BY <1>2 DEF Serve
  <2>4. q.kind # "create" => Holds(q.text, k)
    BY <2>2, <2>3, RunIsShown
  <2>5. q.photos \subseteq {q.text}
    BY <2>2, <2>3 DEF AloneInv, PhotosAreItsOwn
  <2> QED
    BY <2>2, <2>4, <2>5, EffectHolds
<1>3. CASE ServeAbandon
  BY <1>3, AbandonServed, CancelIsSent, EffectHolds
<1>4. CASE ServeLate
  <2>1. PICK q \in late, k \in Listing : \E answer :
              /\ q.kind # "create" => k = q.l
              /\ Effect(q, k, answer)
    BY <1>4, LateServed
  <2>2. q.kind # "create" => Holds(q.text, k)
    BY <2>1 DEF Holds
  <2>3. q.photos \subseteq {q.text}
    BY DEF AloneInv, PhotosAreItsOwn
  <2> QED
    BY <2>1, <2>2, <2>3, EffectHolds
<1>5. ASSUME NEW k \in Listing, CancelListing(k) \/ Diffuse(k)
      PROVE  Holds(t, l)
  <2>1. row'[l].text = row[l].text /\ row'[l].photos = row[l].photos
    BY <1>5, Elsewhere DEF ReachedInv
  <2> QED
    BY <2>1 DEF Holds
<1> QED
  BY <1>1, <1>2, <1>3, <1>4, <1>5, StepCases

\* The record of what has just been created.
New(t, l) ==
    \E f \in Flow : /\ Checkpoint(f) /\ flow[f].kind = "create"
                    /\ l = flow[f].l /\ t = flow[f].text

LEMMA HoldsLasts ==
    ASSUME ReachedInv, AloneInv, [Next]_vars, NEW l \in Listing, NEW t \in Thing, Holds(t, l)'
    PROVE  Holds(t, l) \/ New(t, l)
<1>0. TypeOK
  BY DEF ReachedInv
<1>1. CASE row'[l].text = t \/ t \in row'[l].photos
  BY <1>1, RowsHold
<1>2. ASSUME NEW q \in late', q.l = l, q.text = t
      PROVE  Holds(t, l)
  <2>1. Given(q)
    BY LateComes
  <2>2. CASE q \in late
    BY <1>2, <2>2 DEF Holds
  <2>3. ASSUME NEW f \in Flow, q \in Unserved(f)
        PROVE  Holds(t, l)
    <3>1. Running(f) /\ flow[f].answer = "none" /\ flow[f].l = l /\ flow[f].text = t
      BY <1>0, <1>2, <2>3, UnservedIsTheRun
    <3>2. flow[f].kind # "create"
      BY <3>1, NothingAssumption DEF ReachedInv, StepsAreReached
    <3> QED
      BY <3>1, <3>2, RunIsShown
  <2>4. CASE q.text = NoThing
    BY <1>2, <2>4, NothingAssumption
  <2> QED
    BY <2>1, <2>2, <2>3, <2>4, CancelIsSent DEF Given
<1>3. CASE pending' # NoPending /\ pending'.l = l /\ pending'.text = t
  <2>1. CASE pending' = pending
    BY <1>3, <2>1 DEF Holds
  <2>2. ASSUME NEW f \in Flow, Checkpoint(f)
        PROVE  Holds(t, l) \/ New(t, l)
    <3>1. Running(f) /\ flow[f].l = l /\ flow[f].text = t
      BY <1>3, <2>2, Recorded
    <3>2. CASE flow[f].kind = "create"
      BY <2>2, <3>1, <3>2 DEF New
    <3>3. CASE flow[f].kind # "create"
      BY <3>1, <3>3, RunIsShown
    <3> QED
      BY <3>2, <3>3
  <2> QED
    BY <1>3, <2>1, <2>2, PendingComes
<1> QED
  BY <1>1, <1>2, <1>3 DEF Holds

LEMMA HoldsLastsUnrecorded ==
    ASSUME ReachedInv, AloneInv, [Next]_vars, pending' = NoPending,
           NEW l \in Listing, NEW t \in Thing, Holds(t, l)'
    PROVE  Holds(t, l)
<1>1. ~New(t, l)
  BY Recorded, NoneAssumption DEF New
<1> QED
  BY <1>1, HoldsLasts

LEMMA NewIsNew ==
    ASSUME ReachedInv, AloneInv, NEW l \in Listing, NEW t \in Thing, New(t, l)
    PROVE  /\ \A u \in Thing : ~Holds(u, l)
           /\ \A k \in Listing : ~Holds(t, k)
           /\ t \notin cards /\ row[l].status # "NO_ROW" /\ UNCHANGED row
           /\ \A u \in Thing, k \in Listing : New(u, k) => u = t /\ k = l
<1>1. PICK f \in Flow : Checkpoint(f) /\ flow[f].kind = "create"
                        /\ l = flow[f].l /\ t = flow[f].text
  BY DEF New
<1>2. Running(f) /\ Accepted(f) /\ flow[f].answer # "none"
  BY <1>1, Recorded DEF Accepted
<1>3. \A u \in Thing : ~Holds(u, l)
  BY <1>1, <1>2 DEF AloneInv, OneRun
<1>4. pending = NoPending /\ form # NoForm /\ form.text = t
         /\ \A g \in Flow : Running(g) => g = f
  BY <1>1, <1>2, RunIsShown
<1>5. t \notin cards /\ \A k \in Listing : ~Holds(t, k)
  BY <1>4 DEF AloneInv, OneForm
<1>6. row[l].status \in After.create
  BY <1>1, <1>2 DEF ReachedInv, StepsAreReached
<1>7. row[l].status # "NO_ROW"
  BY <1>6 DEF After, Passed, ListingStatus
<1>8. UNCHANGED row
  BY <1>1 DEF Checkpoint
<1>9. \A u \in Thing, k \in Listing : New(u, k) => u = t /\ k = l
  BY <1>1, <1>4, Recorded DEF New
<1> QED
  BY <1>3, <1>5, <1>7, <1>8, <1>9

LEMMA OneThingStep ==
    ASSUME ReachedInv, AloneInv, [Next]_vars
    PROVE  OneThing'
<1>0. OneThing
  BY DEF AloneInv
<1>1. ASSUME NEW l \in Listing, NEW t \in Thing, NEW u \in Thing, Holds(t, l)', Holds(u, l)'
      PROVE  t = u
  <2>1. (Holds(t, l) \/ New(t, l)) /\ (Holds(u, l) \/ New(u, l))
    BY <1>1, HoldsLasts
  <2> QED
    BY <1>0, <2>1, NewIsNew DEF OneThing
<1>2. ASSUME NEW l \in Listing, NEW k \in Listing, NEW t \in Thing, Holds(t, l)', Holds(t, k)'
      PROVE  l = k
  <2>1. (Holds(t, l) \/ New(t, l)) /\ (Holds(t, k) \/ New(t, k))
    BY <1>2, HoldsLasts
  <2> QED
    BY <1>0, <2>1, NewIsNew DEF OneThing
<1>3. ASSUME NEW l \in Listing, NEW t \in Thing, t \in cards' \/ row'[l].status = "NO_ROW"
      PROVE  ~Holds(t, l)'
  <2>1. t \in cards \/ row[l].status = "NO_ROW"
    BY <1>3, FormsAreForms, RowsLast DEF ReachedInv
  <2>2. ~Holds(t, l)
    BY <1>0, <2>1 DEF OneThing
  <2>3. ~New(t, l)
    BY <2>1, NewIsNew
  <2> QED
    BY <2>2, <2>3, HoldsLasts
<1> QED
  BY <1>1, <1>2, <1>3 DEF OneThing

-----------------------------------------------------------------------------
(* One run, one form.                                                       *)

LEMMA ItsOwnStep ==
    ASSUME ReachedInv, AloneInv, [Next]_vars
    PROVE  PhotosAreItsOwn'
<1>0. TypeOK
  BY DEF ReachedInv
<1>1. ASSUME NEW f \in Flow, flow'[f].kind # "idle"
      PROVE  flow'[f].photos \subseteq {flow'[f].text}
  <2>1. CASE flow'[f] = flow[f]
    BY <1>1, <2>1 DEF AloneInv, PhotosAreItsOwn, Running
  <2>2. CASE Confirm(f)
    <3>1. session \in {NoThing, form.text}
      BY <2>2 DEF Confirm, AloneInv, OneForm
    <3>2. flow'[f].photos = {session} \ {NoThing} /\ flow'[f].text = form.text
      BY <1>0, <2>2, Confirmed
    <3> QED
      BY <3>1, <3>2
  <2>3. CASE Checkpoint(f)
    <3>1. Running(f) /\ flow'[f].photos = flow[f].photos /\ flow'[f].text = flow[f].text
      BY <2>3, Recorded
    <3> QED
      BY <3>1 DEF AloneInv, PhotosAreItsOwn
  <2>4. CASE Serve(f)
    <3>1. Running(f) /\ flow'[f].photos = flow[f].photos /\ flow'[f].text = flow[f].text
      BY <2>4, ServedNotes DEF Serve
    <3> QED
      BY <3>1 DEF AloneInv, PhotosAreItsOwn
  <2> QED
    BY <1>0, <1>1, <2>1, <2>2, <2>3, <2>4, RunComes, IdleIsARun
<1>2. ASSUME NEW q \in late'
      PROVE  q.photos \subseteq {q.text}
  <2>1. CASE q \in late
    BY <2>1 DEF AloneInv, PhotosAreItsOwn
  <2>2. ASSUME NEW f \in Flow, q \in Unserved(f)
        PROVE  q.photos \subseteq {q.text}
    BY <1>0, <2>2, UnservedIsTheRun DEF AloneInv, PhotosAreItsOwn
  <2>3. CASE q.photos = {}
    BY <2>3
  <2> QED
    BY <2>1, <2>2, <2>3, LateComes, CancelIsSent DEF Given
<1> QED
  BY <1>1, <1>2 DEF PhotosAreItsOwn, Running

\* Until the form is left, it stays about its thing.
LEMMA OneFormStep ==
    ASSUME ReachedInv, AloneInv, [Next]_vars, ~hurried'
    PROVE  OneForm'
<1>0. TypeOK /\ OneForm /\ OneThing
  BY DEF ReachedInv, AloneInv
<1>a. pending # NoPending => /\ pending.l \in Listing /\ pending.text \in Thing
                             /\ Holds(pending.text, pending.l) /\ pending.text \notin cards
  <2> HAVE pending # NoPending
  <2>1. pending.l \in Listing /\ pending.text \in Thing
    BY <1>0 DEF TypeOK, Pending
  <2>2. Holds(pending.text, pending.l)
    BY DEF Holds
  <2> QED
    BY <1>0, <2>1, <2>2 DEF OneThing
<1>b. form # NoForm => form \in Form /\ form.text \in Thing
  BY <1>0 DEF TypeOK, Form
<1>1. ASSUME NEW t \in Thing, OpenCard(t)
      PROVE  OneForm'
  <2>1. /\ form' = Shown(t) /\ session' = t /\ cards' = cards \ {t} /\ pending' = NoPending
        /\ cancel = NoCancel /\ cancel' = NoCancel /\ t \in cards
    BY <1>1 DEF OpenCard
  <2>2. \A l \in Listing : ~Holds(t, l)'
    BY <1>0, <2>1, HoldsLastsUnrecorded DEF OneThing
  <2>3. form'.text = t
    BY <2>1, ShownIsAForm
  <2> QED
    BY <2>1, <2>2, <2>3 DEF OneForm
<1>2. CASE Resume
  <2>1. /\ form' = Shown(IF session # NoThing THEN session ELSE pending.text)
        /\ pending # NoPending /\ cancel = NoCancel
        /\ UNCHANGED <<cards, pending, session, cancel>>
    BY <1>2 DEF Resume
  <2>2. (IF session # NoThing THEN session ELSE pending.text) = pending.text
    BY <1>0, <2>1 DEF OneForm
  <2>3. form'.text = pending.text
    BY <1>a, <2>1, <2>2, ShownIsAForm
  <2>4. session \in {NoThing, pending.text}
    BY <1>0, <2>1 DEF OneForm
  <2> QED
    BY <1>a, <2>1, <2>3, <2>4 DEF OneForm
<1>3. CASE Leave
  BY <1>0, <1>3 DEF Leave, OneForm
<1>4. CASE Abandon
  <2>1. form = NoForm /\ pending # NoPending /\ cancel'.l = pending.l
           /\ UNCHANGED <<pending, session, form>>
    BY <1>4 DEF Abandon
  <2> QED
    BY <1>0, <2>1 DEF OneForm
<1>5. CASE ServeAbandon
  <2>1. cancel # NoCancel /\ UNCHANGED <<pending, session, form>>
    BY <1>5 DEF ServeAbandon
  <2>2. cancel'.l = cancel.l
    <3>1. PICK answer : cancel' = [cancel EXCEPT !.answer = answer]
      BY <1>5 DEF ServeAbandon
    <3>2. cancel \in [l : Listing, answer : Answer]
      BY <1>0, <2>1 DEF TypeOK
    <3> QED
      BY <3>1, <3>2
  <2>3. form = NoForm /\ pending # NoPending /\ pending.l = cancel.l
    BY <1>0, <2>1 DEF OneForm
  <2> QED
    BY <1>0, <2>1, <2>2, <2>3 DEF OneForm
<1>6. CASE Abandoned \/ AbandonFails
  <2>1. cancel # NoCancel /\ cancel' = NoCancel /\ UNCHANGED <<session, form>>
           /\ (pending' = pending \/ pending' = NoPending)
    BY <1>6 DEF Abandoned, AbandonFails
  <2>2. form = NoForm
    BY <1>0, <2>1 DEF OneForm
  <2> QED
    BY <1>0, <2>1, <2>2 DEF OneForm
<1>7. ASSUME NEW f \in Flow, Confirm(f)
      PROVE  OneForm'
  <2>1. form # NoForm /\ UNCHANGED <<cards, pending, session, cancel>>
    BY <1>7 DEF Confirm
  <2>2. form' # NoForm /\ form'.text = form.text
    BY <1>0, <1>7, Confirmed, NoneAssumption
  <2>3. pending = NoPending => \A l \in Listing : ~Holds(form.text, l)
    BY <1>0, <2>1 DEF OneForm
  <2>4. PICK t \in Thing : t = form.text
    BY <1>b, <2>1
  <2>5. pending = NoPending => \A l \in Listing : ~Holds(t, l)'
    BY <2>1, <2>3, <2>4, HoldsLastsUnrecorded
  <2>6. form'.text = t
    BY <2>2, <2>4
  <2>7. session \in {NoThing, form.text} /\ form.text \notin cards /\ cancel = NoCancel
           /\ (pending # NoPending => pending.text = form.text /\ session \in {NoThing, pending.text})
    BY <1>0, <2>1 DEF OneForm
  <2> QED
    BY <2>1, <2>2, <2>4, <2>5, <2>6, <2>7 DEF OneForm
<1>8. ASSUME NEW f \in Flow, Serve(f) \/ Checkpoint(f) \/ Published(f) \/ Fails(f)
      PROVE  OneForm'
  <2>1. Running(f)
    BY <1>8 DEF Serve, Checkpoint, Published, Fails
  <2>2. /\ form # NoForm /\ form.flow = f /\ form.text = flow[f].text /\ cancel = NoCancel
        /\ session \in {NoThing, form.text} /\ form.text \notin cards
        /\ pending # NoPending => pending.text = form.text
    BY <1>0, <2>1, RunIsShown DEF OneForm
  <2>3. PICK t \in Thing : t = form.text
    BY <1>b, <2>2
  <2>4. pending = NoPending => \A l \in Listing : ~Holds(t, l)
    BY <1>0, <2>2, <2>3 DEF OneForm
  <2>5. pending = NoPending /\ pending' = NoPending => \A l \in Listing : ~Holds(t, l)'
    BY <2>4, HoldsLastsUnrecorded
  <2>6. CASE Serve(f)
    <3>1. UNCHANGED <<cards, pending, session, cancel, form>>
      BY <2>6 DEF Serve
    <3>2. form'.text = t
      BY <2>3, <3>1
    <3> QED
      BY <2>2, <2>3, <2>5, <3>1, <3>2 DEF OneForm
  <2>7. CASE Checkpoint(f)
    <3>1. UNCHANGED <<cards, session, cancel, form>>
      BY <2>7 DEF Checkpoint
    <3>2. pending' # NoPending /\ pending'.text = form.text
      BY <2>2, <2>7, Recorded, NoneAssumption
    <3> QED
      BY <2>2, <3>1, <3>2 DEF OneForm
  <2>8. CASE Published(f)
    <3>1. form' = NoForm /\ pending' = NoPending /\ cancel' = NoCancel
      BY <2>2, <2>8 DEF Published
    <3> QED
      BY <3>1 DEF OneForm
  <2>9. CASE Fails(f)
    <3>1. UNCHANGED <<cards, pending, session, cancel>> /\ form' = Shown(form.text)
      BY <2>2, <2>9 DEF Fails
    <3>2. form'.text = t
      BY <2>3, <3>1, ShownIsAForm
    <3> QED
      BY <2>2, <2>3, <2>5, <3>1, <3>2 DEF OneForm
  <2> QED
    BY <1>8, <2>6, <2>7, <2>8, <2>9
<1>9. CASE Kill
  <2>1. form' = NoForm /\ cancel' = NoCancel /\ session' = NoThing
    BY <1>9 DEF Kill
  <2> QED
    BY <2>1 DEF OneForm
<1>10. CASE UNCHANGED phoneVars
  <2>1. UNCHANGED <<cards, pending, session, cancel, form>>
    BY <1>10 DEF phoneVars
  <2>2. form # NoForm /\ pending = NoPending => \A l \in Listing : ~Holds(form.text, l)
    BY <1>0 DEF OneForm
  <2>3. CASE form # NoForm
    <3>1. PICK t \in Thing : t = form.text
      BY <1>b, <2>3
    <3>2. pending = NoPending => \A l \in Listing : ~Holds(t, l)'
      BY <2>1, <2>2, <2>3, <3>1, HoldsLastsUnrecorded
    <3>3. form'.text = t
      BY <2>1, <3>1
    <3>4. session \in {NoThing, form.text} /\ form.text \notin cards /\ cancel = NoCancel
             /\ (pending # NoPending => pending.text = form.text /\ session \in {NoThing, pending.text})
      BY <1>0, <2>3 DEF OneForm
    <3> QED
      BY <2>1, <2>3, <3>1, <3>2, <3>3, <3>4 DEF OneForm
  <2>4. CASE form = NoForm
    BY <1>0, <2>1, <2>4 DEF OneForm
  <2> QED
    BY <2>3, <2>4
<1>11. CASE ServeLate \/ UNCHANGED vars
  BY <1>10, <1>11 DEF ServeLate, vars
<1>12. ASSUME NEW l \in Listing, CancelListing(l) \/ Diffuse(l)
      PROVE  OneForm'
  BY <1>10, <1>12 DEF CancelListing, Diffuse
<1> QED
  BY <1>1, <1>2, <1>3, <1>4, <1>5, <1>6, <1>7, <1>8, <1>9, <1>10, <1>11, <1>12 DEF Next

LEMMA OneRunStep ==
    ASSUME ReachedInv, AloneInv, [Next]_vars, ~hurried'
    PROVE  OneRun'
<1> SUFFICES ASSUME NEW f \in Flow, flow'[f].kind # "idle"
             PROVE  /\ form' # NoForm /\ form'.flow = f /\ form'.text = flow'[f].text
                    /\ flow'[f].kind = "create" => pending' = NoPending
                    /\ flow'[f].kind = "create" /\ flow'[f].answer # "none" =>
                          \A l \in Listing, t \in Thing : flow'[f].l = l => ~Holds(t, l)'
                    /\ flow'[f].kind # "create" => pending' # NoPending /\ pending'.l = flow'[f].l
  BY DEF OneRun, Running
<1>0. TypeOK
  BY DEF ReachedInv
<1>1. CASE Confirm(f)
  <2>1. /\ form' \in Form /\ form'.flow = f /\ form'.text = form.text
        /\ flow'[f].text = form.text /\ flow'[f].answer = "none"
    BY <1>0, <1>1, Confirmed
  <2>2. pending' = pending /\ form' # NoForm
    BY <1>1, <2>1, NoneAssumption DEF Confirm
  <2>3. pending = NoPending => flow'[f].kind = "create"
    BY <1>0, <1>1, Confirmed
  <2>4. pending # NoPending => flow'[f].kind # "create" /\ flow'[f].l = pending.l
    <3> HAVE pending # NoPending
    <3>1. /\ flow'[f].kind = StepAfter(pending.done, flow'[f].photos)
          /\ pending.done \in PublishStep /\ flow'[f].l = pending.l
      BY <1>0, <1>1, Confirmed
    <3> QED
      BY <3>1, StepsAfter
  <2> QED
    BY <2>1, <2>2, <2>3, <2>4
<1>2. CASE Checkpoint(f)
  <2>1. /\ Running(f) /\ pending' \in Pending /\ pending'.l = flow'[f].l
        /\ flow'[f].text = flow[f].text
        /\ flow'[f].kind = StepAfter(pending'.done, flow[f].photos)
        /\ pending'.done \in PublishStep
    BY <1>2, Recorded
  <2>2. form' = form /\ form # NoForm /\ form.flow = f /\ form.text = flow[f].text
    BY <1>2, <2>1, RunIsShown DEF Checkpoint
  <2>3. flow'[f].kind # "create"
    BY <2>1, StepsAfter
  <2> QED
    BY <2>1, <2>2, <2>3, NoneAssumption
<1>3. CASE Running(f) /\ ~Checkpoint(f)
  <2>1. /\ form # NoForm /\ form.flow = f /\ form.text = flow[f].text
        /\ flow[f].kind = "create" => pending = NoPending
        /\ flow[f].kind # "create" => pending # NoPending /\ pending.l = flow[f].l
    BY <1>3, RunIsShown
  <2>2. Serve(f) \/ UNCHANGED phoneVars
    <3>1. ~Published(f) /\ ~Fails(f) /\ ~Kill
      BY <1>0, IdleIsARun DEF Published, Fails, Kill, TypeOK
    <3> QED
      BY <1>3, <3>1, WhileRunning
  <2>3. UNCHANGED <<form, pending>>
    BY <2>2 DEF Serve, phoneVars
  <2>4. flow'[f].kind = flow[f].kind /\ flow'[f].text = flow[f].text
          /\ (flow[f].kind # "create" => flow'[f].l = flow[f].l)
    BY <2>2, ServedNotes DEF phoneVars
  <2>5. ASSUME flow'[f].kind = "create", flow'[f].answer # "none",
               NEW l \in Listing, NEW t \in Thing, flow'[f].l = l
        PROVE  ~Holds(t, l)'
    <3>2. ~Holds(t, l)
      <4>1. CASE Serve(f)
        <5>1. PICK q : \E k \in Listing, answer \in Answer \ {"none"} :
                 /\ q = flow[f] /\ Effect(q, k, answer)
                 /\ flow' = [flow EXCEPT ![f].l = k, ![f].answer = answer]
          BY <4>1, Served
        <5>2. PICK k \in Listing, answer \in Answer \ {"none"} :
                 /\ q = flow[f] /\ Effect(q, k, answer)
                 /\ flow' = [flow EXCEPT ![f].l = k, ![f].answer = answer]
          BY <5>1
        <5>3. flow'[f].l = k
          <6>1. flow[f] \in Run /\ flow \in [Flow -> Run]
            BY <1>0 DEF TypeOK
          <6> QED
            BY <5>2, <6>1 DEF Run
        <5>4. row[k].status = "NO_ROW"
          BY <2>4, <2>5, <5>2 DEF Effect
        <5> QED
          BY <2>5, <5>3, <5>4 DEF AloneInv, OneThing
      <4>2. CASE UNCHANGED phoneVars
        <5>1. flow' = flow
          BY <4>2 DEF phoneVars
        <5> QED
          BY <1>3, <2>5, <5>1 DEF AloneInv, OneRun
      <4> QED
        BY <2>2, <4>1, <4>2
    <3>3. pending' = NoPending
      BY <2>1, <2>3, <2>4, <2>5
    <3> QED
      BY <3>2, <3>3, HoldsLastsUnrecorded
  <2> QED
    BY <2>1, <2>3, <2>4, <2>5
<1> QED
  BY <1>0, <1>1, <1>2, <1>3, RunComes, IdleIsARun DEF Running, Serve

\* The photos of what is published are there as long as the app was not killed.
LEMMA PaidByARun ==
    ASSUME ReachedInv, AloneInv, PhotosAreThere, [Next]_vars,
           NEW l \in Listing, row'[l].status \in {"QUEUED", "PUBLISHED"}
    PROVE  row[l].photos # {}
<1>0. row[l].status \in {"QUEUED", "PUBLISHED"} => row[l].photos # {}
  BY DEF PhotosAreThere, Paid
<1>1. ASSUME NEW q, NEW k \in Listing, NEW answer, Effect(q, k, answer),
             q.kind = "validate" => row[k].photos # {}
      PROVE  row[l].photos # {}
  <2>1. CASE k = l /\ q.kind = "validate"
    BY <1>1, <2>1
  <2>2. CASE ~(k = l /\ q.kind = "validate")
    <3>1. row[l].status \in {"QUEUED", "PUBLISHED"}
      BY <1>1, <2>2 DEF Effect
    <3> QED
      BY <1>0, <3>1
  <2> QED
    BY <2>1, <2>2
<1>2. CASE PhoneStep
  BY <1>0, <1>2, PhoneKeepsRows
<1>3. ASSUME NEW f \in Flow, Serve(f)
      PROVE  row[l].photos # {}
  <2>1. PICK q : \E k \in Listing, answer \in Answer \ {"none"} :
            q = flow[f] /\ (q.kind # "create" => k = q.l) /\ Effect(q, k, answer)
    BY <1>3, Served
  <2>2. PICK k \in Listing, answer \in Answer \ {"none"} :
            q = flow[f] /\ (q.kind # "create" => k = q.l) /\ Effect(q, k, answer)
    BY <2>1
  <2>3. q.kind = "validate" => row[k].photos # {}
    BY <1>3, <2>2 DEF PhotosAreThere, Serve
  <2> QED
    BY <1>1, <2>2, <2>3
<1>4. CASE ServeAbandon
  BY <1>1, <1>4, AbandonServed, CancelIsSent
<1>5. CASE ServeLate
  <2>1. PICK q \in late, k \in Listing : \E answer :
            (q.kind # "create" => k = q.l) /\ Effect(q, k, answer)
    BY <1>5, LateServed
  <2>2. q.kind = "validate" => row[k].photos # {}
    BY <2>1 DEF PhotosAreThere
  <2> QED
    BY <1>1, <2>1, <2>2
<1>6. ASSUME NEW k \in Listing, CancelListing(k) \/ Diffuse(k)
      PROVE  row[l].photos # {}
  <2>1. row[l].status \in {"QUEUED", "PUBLISHED"}
    BY <1>6, Elsewhere DEF ReachedInv
  <2> QED
    BY <1>0, <2>1
<1> QED
  BY <1>2, <1>3, <1>4, <1>5, <1>6, StepCases

LEMMA SessionStep ==
    ASSUME ReachedInv, AloneInv, PhotosAreThere, [Next]_vars, ~hurried', kills' = 0
    PROVE  /\ form' # NoForm => session' = form'.text
           /\ pending' # NoPending => session' = pending'.text
<1>0. TypeOK
  BY DEF ReachedInv
<1>1. ASSUME NEW t \in Thing, OpenCard(t)
      PROVE  session' = form'.text /\ pending' = NoPending
  BY <1>1, ShownIsAForm DEF OpenCard
<1>2. CASE Resume
  <2>1. /\ form' = Shown(IF session # NoThing THEN session ELSE pending.text)
        /\ pending # NoPending /\ UNCHANGED <<pending, session>>
    BY <1>2 DEF Resume
  <2>2. session = pending.text /\ pending.text \in Thing
    BY <1>0, <2>1 DEF PhotosAreThere, TypeOK, Pending
  <2> QED
    BY <2>1, <2>2, ShownIsAForm
<1>3. CASE Leave \/ Abandon \/ Abandoned \/ AbandonFails \/ ServeAbandon \/ ServeLate
           \/ UNCHANGED vars
  BY <1>3 DEF Leave, Abandon, Abandoned, AbandonFails, ServeAbandon, ServeLate, vars, phoneVars,
              PhotosAreThere
<1>4. ASSUME NEW f \in Flow, Confirm(f)
      PROVE  /\ form' # NoForm => session' = form'.text
             /\ pending' # NoPending => session' = pending'.text
  <2>1. form # NoForm /\ UNCHANGED <<pending, session>> /\ form'.text = form.text
    BY <1>0, <1>4, Confirmed DEF Confirm
  <2> QED
    BY <2>1 DEF PhotosAreThere
<1>5. ASSUME NEW f \in Flow, Serve(f)
      PROVE  /\ form' # NoForm => session' = form'.text
             /\ pending' # NoPending => session' = pending'.text
  BY <1>5 DEF Serve, PhotosAreThere
<1>6. ASSUME NEW f \in Flow, Checkpoint(f)
      PROVE  /\ form' # NoForm => session' = form'.text
             /\ pending' # NoPending => session' = pending'.text
  <2>1. Running(f) /\ pending'.text = flow[f].text
    BY <1>6, Recorded
  <2>2. form # NoForm /\ form.text = flow[f].text /\ UNCHANGED <<form, session>>
    BY <1>6, <2>1, RunIsShown DEF Checkpoint
  <2> QED
    BY <2>1, <2>2 DEF PhotosAreThere
<1>7. ASSUME NEW f \in Flow, Published(f)
      PROVE  form' = NoForm /\ pending' = NoPending
  BY <1>7 DEF Published
<1>8. ASSUME NEW f \in Flow, Fails(f)
      PROVE  /\ form' # NoForm => session' = form'.text
             /\ pending' # NoPending => session' = pending'.text
  <2>1. /\ form # NoForm /\ form.text \in Thing /\ form' = Shown(form.text)
        /\ UNCHANGED <<pending, session>>
    BY <1>8, RunIsShown DEF Fails
  <2> QED
    BY <2>1, ShownIsAForm DEF PhotosAreThere
<1>9. CASE Kill
  <2>1. FALSE
    BY <1>0, <1>9 DEF Kill, TypeOK
  <2> QED
    BY <2>1
<1>10. ASSUME NEW l \in Listing, CancelListing(l) \/ Diffuse(l)
      PROVE  /\ form' # NoForm => session' = form'.text
             /\ pending' # NoPending => session' = pending'.text
  BY <1>10 DEF CancelListing, Diffuse, phoneVars, PhotosAreThere
<1> QED
  BY <1>1, <1>2, <1>3, <1>4, <1>5, <1>6, <1>7, <1>8, <1>9, <1>10 DEF Next

LEMMA PhotosStep ==
    ASSUME ReachedInv, AloneInv, PhotosAreThere, [Next]_vars, ~hurried', kills' = 0
    PROVE  PhotosAreThere'
<1>0. TypeOK
  BY DEF ReachedInv
\* A step recorded after the creation is one whose photos are there.
<1>1. ASSUME NEW f \in Flow, Checkpoint(f), pending'.done # "created"
      PROVE  row[flow[f].l].photos # {}
  <2>1. /\ Running(f) /\ Accepted(f) /\ flow[f].kind \in {"create", "photos", "ai", "draft"}
        /\ pending'.done = StepOf[flow[f].kind]
    BY <1>1, Recorded
  <2>2. flow[f].kind \in {"photos", "ai", "draft"}
    BY <1>1, <2>1 DEF StepOf
  <2> QED
    BY <2>1, <2>2 DEF PhotosAreThere, ReachedInv, StepsAreReached
<1>2. ASSUME pending' # NoPending, pending'.done # "created"
      PROVE  row'[pending'.l].photos # {}
  <2>1. CASE pending' = pending
    <3>1. pending.l \in Listing /\ row[pending.l].photos # {}
      BY <1>0, <1>2, <2>1 DEF PhotosAreThere, TypeOK, Pending
    <3> QED
      BY <2>1, <3>1, RowsLast
  <2>2. ASSUME NEW f \in Flow, Checkpoint(f)
        PROVE  row'[pending'.l].photos # {}
    <3>1. flow[f].l \in Listing /\ pending'.l = flow[f].l
      BY <2>2, Recorded
    <3>2. row[flow[f].l].photos # {}
      BY <1>1, <1>2, <2>2
    <3> QED
      BY <3>1, <3>2, RowsLast
  <2> QED
    BY <1>2, <2>1, <2>2, PendingComes
<1>3. ASSUME NEW f \in Flow, flow'[f].kind # "idle"
      PROVE  /\ flow'[f].photos # {}
             /\ flow'[f].kind \in {"ai", "draft", "validate"} => row'[flow'[f].l].photos # {}
  <2>1. CASE Confirm(f)
    <3>1. session = form.text /\ form.text \in Thing
      BY <1>0, <2>1 DEF Confirm, PhotosAreThere, TypeOK, Form
    <3>2. PICK photos : photos = flow'[f].photos
      OBVIOUS
    <3>3. photos # {}
      BY <1>0, <2>1, <3>1, <3>2, Confirmed, NothingAssumption
    <3>4. flow'[f].kind \in {"ai", "draft", "validate"} => row'[flow'[f].l].photos # {}
      <4> HAVE flow'[f].kind \in {"ai", "draft", "validate"}
      <4>1. pending # NoPending /\ flow'[f].l = pending.l /\ pending.l \in Listing
               /\ pending.done \in PublishStep
               /\ flow'[f].kind = StepAfter(pending.done, photos)
        BY <1>0, <2>1, <3>2, Confirmed
      <4>2. pending.done # "created"
        BY <3>3, <4>1, StepsAfter
      <4>3. row[pending.l].photos # {}
        BY <4>1, <4>2 DEF PhotosAreThere
      <4> QED
        BY <4>1, <4>3, RowsLast
    <3> QED
      BY <3>2, <3>3, <3>4
  <2>2. CASE Checkpoint(f)
    <3>1. PICK photos : photos = flow[f].photos
      OBVIOUS
    <3>2. /\ Running(f) /\ flow'[f].photos = photos /\ flow'[f].l = flow[f].l
          /\ flow[f].l \in Listing
          /\ flow'[f].kind = StepAfter(pending'.done, photos) /\ pending'.done \in PublishStep
      BY <2>2, <3>1, Recorded
    <3>3. photos # {}
      BY <3>1, <3>2 DEF PhotosAreThere
    <3>4. flow'[f].kind \in {"ai", "draft", "validate"} => pending'.done # "created"
      BY <3>2, <3>3, StepsAfter
    <3> QED
      BY <1>1, <2>2, <3>2, <3>3, <3>4, RowsLast
  <2>3. CASE Serve(f) \/ flow'[f] = flow[f]
    <3>1. /\ flow'[f].kind = flow[f].kind /\ flow'[f].photos = flow[f].photos
          /\ flow[f].kind # "create" => flow'[f].l = flow[f].l
      BY <2>3, ServedNotes
    <3>2. Running(f)
      BY <1>3, <3>1 DEF Running
    <3>3. flow[f].kind # "create" => flow[f].l \in Listing
      BY <3>2 DEF ReachedInv, StepsAreReached
    <3> QED
      BY <3>1, <3>2, <3>3, RowsLast DEF PhotosAreThere
  <2> QED
    BY <1>0, <1>3, <2>1, <2>2, <2>3, RunComes, IdleIsARun
<1>4. ASSUME NEW q \in late', q.kind = "validate"
      PROVE  row'[q.l].photos # {}
  <2>1. Given(q)
    BY LateComes
  <2>2. CASE q \in late
    <3>1. q.l \in Listing /\ row[q.l].photos # {}
      BY <1>4, <2>2 DEF PhotosAreThere, ReachedInv, LateIsReached
    <3> QED
      BY <3>1, RowsLast
  <2>3. ASSUME NEW f \in Flow, q \in Unserved(f)
        PROVE  row'[q.l].photos # {}
    <3>1. Running(f) /\ q.kind = flow[f].kind /\ q.l = flow[f].l
      BY <1>0, <2>3, UnservedIsTheRun
    <3>2. q.l \in Listing /\ row[q.l].photos # {}
      BY <1>4, <3>1 DEF PhotosAreThere, ReachedInv, StepsAreReached
    <3> QED
      BY <3>2, RowsLast
  <2> QED
    BY <1>4, <2>1, <2>2, <2>3, CancelIsSent DEF Given
<1>5. ASSUME NEW l \in Listing, row'[l].status \in {"QUEUED", "PUBLISHED"}
      PROVE  row'[l].photos # {}
  BY <1>5, PaidByARun, RowsLast
<1> QED
  BY <1>2, <1>3, <1>4, <1>5, SessionStep DEF PhotosAreThere, Running, Paid

-----------------------------------------------------------------------------
(* The theorems.                                                            *)

LEMMA FlowInit == Init => FlowInv
<1> SUFFICES ASSUME Init
             PROVE  FlowInv
  OBVIOUS
<1>1. ReachedInv
  BY ReachedInit
<1>2. \A f \in Flow : ~Running(f)
  BY DEF Init, Running, Idle
<1>3. \A l \in Listing, t \in Thing : ~Holds(t, l)
  BY NothingAssumption DEF Init, Holds
<1>4. \A l \in Listing : row[l].status = "NO_ROW"
  BY DEF Init
<1>5. AloneInv
  BY <1>2, <1>3 DEF Init, AloneInv, PhotosAreItsOwn, OneRun, OneForm, OneThing
<1>6. PhotosAreThere
  BY <1>2, <1>4 DEF Init, PhotosAreThere, Paid
<1> QED
  BY <1>1, <1>5, <1>6 DEF FlowInv

LEMMA KillsGrow ==
    ASSUME TypeOK, [Next]_vars, kills' = 0
    PROVE  kills = 0
<1>1. CASE Kill
  BY <1>1 DEF Kill, TypeOK
<1>2. CASE Resume \/ Leave \/ Abandon \/ Abandoned \/ AbandonFails \/ UNCHANGED vars
           \/ ServeAbandon \/ ServeLate
  BY <1>2 DEF Resume, Leave, Abandon, Abandoned, AbandonFails, vars, phoneVars,
              ServeAbandon, ServeLate
<1>3. ASSUME NEW f \in Flow,
             Confirm(f) \/ Serve(f) \/ Checkpoint(f) \/ Published(f) \/ Fails(f)
      PROVE  kills = 0
  BY <1>3 DEF Confirm, Serve, Checkpoint, Published, Fails
<1>4. ASSUME NEW l \in Listing, CancelListing(l) \/ Diffuse(l)
      PROVE  kills = 0
  BY <1>4 DEF CancelListing, Diffuse, phoneVars
<1>5. ASSUME NEW t \in Thing, OpenCard(t)
      PROVE  kills = 0
  BY <1>5 DEF OpenCard
<1> QED
  BY <1>1, <1>2, <1>3, <1>4, <1>5 DEF Next

LEMMA FlowStep == FlowInv /\ [Next]_vars => FlowInv'
<1> SUFFICES ASSUME FlowInv, [Next]_vars
             PROVE  FlowInv'
  OBVIOUS
<1>1. ReachedInv /\ TypeOK
  BY DEF FlowInv, ReachedInv
<1>2. ReachedInv'
  BY <1>1, ReachedStep
<1>3. ASSUME ~hurried'
      PROVE  AloneInv' /\ (kills' = 0 => PhotosAreThere')
  <2>1. ~hurried
    BY <1>1, <1>3, HurriedLasts
  <2>2. AloneInv
    BY <2>1 DEF FlowInv
  <2>3. AloneInv'
    BY <1>1, <1>3, <2>2, ItsOwnStep, OneRunStep, OneFormStep, OneThingStep DEF AloneInv
  <2>4. ASSUME kills' = 0
        PROVE  PhotosAreThere'
    <3>1. PhotosAreThere
      BY <1>1, <2>1, <2>4, KillsGrow DEF FlowInv
    <3> QED
      BY <1>1, <1>3, <2>2, <2>4, <3>1, PhotosStep
  <2> QED
    BY <2>3, <2>4
<1> QED
  BY <1>2, <1>3 DEF FlowInv

\* Whatever is lost, late, doubled or killed, the phone and the server agree on
\* what was passed; and as long as the user waits, each thing has its own
\* listing, form and run (validate.tsx, processing.tsx).
THEOREM FlowInvariant == Spec => []FlowInv
<1>1. Init => FlowInv
  BY FlowInit
<1>2. FlowInv /\ [Next]_vars => FlowInv'
  BY FlowStep
<1> QED
  BY <1>1, <1>2, PTL DEF Spec

\* A step recorded on the phone has been passed by its listing, for any number
\* of runs at the same time, and whether or not the user waits: resuming from
\* the record (validate.tsx) skips nothing.
THEOREM NothingIsSkipped == Spec => []CheckpointIsReached
<1>1. FlowInv => CheckpointIsReached
  BY DEF FlowInv, ReachedInv
<1> QED
  BY <1>1, FlowInvariant, PTL

LEMMA AloneIsOneListing == FlowInv => OneThingOneListing
<1> SUFFICES ASSUME FlowInv, ~hurried
             PROVE  /\ NewThingIsNotMixed
                    /\ \A l, k \in Paid : row[l].text = row[k].text => l = k
                    /\ kills = 0 => \A l \in Paid : row[l].photos # {}
  BY DEF OneThingOneListing
<1>1. TypeOK /\ TextIsThere /\ OneThing /\ (kills = 0 => PhotosAreThere)
  BY DEF FlowInv, ReachedInv, AloneInv
<1>2. \A l \in Paid : l \in Listing /\ row[l].text \in Thing /\ row[l].photos \subseteq Thing
  BY <1>1 DEF Paid, TextIsThere, TypeOK, Row
<1>3. \A l \in Listing, t \in Thing : row[l].text = t \/ t \in row[l].photos => Holds(t, l)
  BY DEF Holds
<1>4. NewThingIsNotMixed
  BY <1>1, <1>2, <1>3 DEF NewThingIsNotMixed, OneThing
<1>5. \A l, k \in Paid : row[l].text = row[k].text => l = k
  BY <1>1, <1>2, <1>3 DEF OneThing
<1> QED
  BY <1>1, <1>4, <1>5 DEF PhotosAreThere

\* A seller who waits for a publication, or an abandon, to end pays for a thing
\* in one listing at most, with its own photos and no other's, whatever calls
\* are lost or executed late (validate.tsx, PendingPublishBanner.tsx).
THEOREM PaidOnceForOneThing == Spec => []OneThingOneListing
BY AloneIsOneListing, FlowInvariant, PTL

LEMMA ClearedStep ==
    ASSUME FlowInv, [Next]_vars, pending # NoPending, pending' = NoPending, ~hurried',
           cards' = cards
    PROVE  row[pending.l].status \in Over
<1>0. ReachedInv /\ TypeOK /\ AloneInv
  BY HurriedLasts DEF FlowInv, ReachedInv
<1>1. ASSUME NEW t \in Thing, OpenCard(t)
      PROVE  FALSE
  BY <1>1 DEF OpenCard
<1>2. CASE Abandoned
  <2>1. cancel # NoCancel /\ cancel.answer \in {"ok", "invalid"}
    BY <1>2 DEF Abandoned
  <2>2. pending.l = cancel.l
    BY <1>0, <2>1 DEF AloneInv, OneForm
  <2> QED
    BY <1>0, <2>1, <2>2 DEF ReachedInv, CancelIsReached
<1>3. ASSUME NEW f \in Flow, Published(f)
      PROVE  row[pending.l].status \in Over
  <2>1. Running(f) /\ flow[f].kind = "validate" /\ Accepted(f)
    BY <1>3 DEF Published
  <2>2. pending.l = flow[f].l
    BY <1>0, <2>1, RunIsShown
  <2>3. row[flow[f].l].status \in After.validate
    BY <1>0, <2>1 DEF ReachedInv, StepsAreReached
  <2> QED
    BY <2>2, <2>3 DEF After
<1>4. ASSUME NEW f \in Flow, Checkpoint(f)
      PROVE  FALSE
  BY <1>0, <1>4, Recorded, NoneAssumption
<1>5. ASSUME NEW f \in Flow, Confirm(f) \/ Serve(f) \/ Fails(f)
      PROVE  FALSE
  BY <1>5 DEF Confirm, Serve, Fails
<1>6. CASE Resume \/ Leave \/ Abandon \/ AbandonFails \/ UNCHANGED vars
           \/ ServeAbandon \/ ServeLate \/ Kill
  BY <1>6 DEF Resume, Leave, Abandon, AbandonFails, vars, phoneVars, ServeAbandon, ServeLate, Kill
<1>7. ASSUME NEW l \in Listing, CancelListing(l) \/ Diffuse(l)
      PROVE  FALSE
  BY <1>7 DEF CancelListing, Diffuse, phoneVars
<1> QED
  BY <1>1, <1>2, <1>3, <1>4, <1>5, <1>6, <1>7 DEF Next

\* The record of an interrupted publication is dropped only once its listing is
\* paid for or closed, or when another card is opened: no listing that can
\* still be debited is forgotten (listing.store.ts, PendingPublishBanner.tsx).
THEOREM NoListingIsForgotten == Spec => ClearedOnlyWhenOver
<1>1. FlowInv /\ [Next]_vars =>
        [ pending # NoPending /\ pending' = NoPending /\ ~hurried' /\ cards' = cards
          => row[pending.l].status \in {"QUEUED", "PUBLISHED", "PUBLISH_FAILED",
                                        "USER_CANCELLED"} ]_vars
  BY ClearedStep DEF Over
<1> QED
  BY <1>1, FlowInvariant, PTL DEF Spec, ClearedOnlyWhenOver

=============================================================================
