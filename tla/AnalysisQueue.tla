---------------------------- MODULE AnalysisQueue ----------------------------
(***************************************************************************)
(* The capture screen and the queue of analyses of the mobile app, over    *)
(* the draft jobs of the server: (tabs)/vendre.tsx, listing.store.ts and   *)
(* processing.tsx.                                                         *)
(*                                                                         *)
(* A card of the queue is persisted; the tray of the camera, the requests  *)
(* in flight and the polling loops are not.  A card is known by a          *)
(* temporary id made of its first photo until the server has answered      *)
(* with the id of a job.  A card is called here by its first photo, which  *)
(* no other card has, and its temporary id is that photo.                  *)
(***************************************************************************)
EXTENDS DraftJob, SequencesExt

CONSTANTS
    Shows,      \* the thing each photo was taken of
    MaxPhotos,  \* MAX_PHOTOS
    AiPhotoCap, \* AI_PHOTO_CAP
    NoPhoto,    \* the camera is not busy
    NoCard

ASSUME QueueAssumption ==
    /\ MaxPhotos \in Nat \ {0} /\ AiPhotoCap \in Nat \ {0}
    /\ NoPhoto \notin Photo
    /\ DOMAIN Shows = Photo

VARIABLES
    tray,     \* the photos taken for the next job
    shooting, \* the photo being taken and resized
    taken,    \* the photos taken so far
    card,     \* the queue (MMKV)
    start,    \* the POST /ai/draft/start of each card
    poll,     \* the polling loop of each id
    open      \* the app is running

phoneVars == <<tray, shooting, taken, card, start, poll, open>>
vars == <<jobVars, phoneVars>>

Id == Job \cup Photo

Photos == UNION {[1..n -> Photo] : n \in 1..MaxPhotos}

Card == [id : Id, photos : Photos, status : {"running", "ready", "failed"},
         draft : Draft]

\* A loop is not running, waits for its timer, or has a GET on its way, which
\* the server has not read yet, has read as stale, or has answered.
Loop == [at : {"none", "due", "asked", "stale", "answered"},
         status : {"running", "ready", "failed", "not_found"}, draft : Draft]

At(s) == [at |-> s, status |-> "running", draft |-> NoDraft]
Answer(s, d) == [at |-> "answered", status |-> s, draft |-> d]

ASSUME QueueValuesAssumption ==
    /\ NoCard \notin Card
    /\ Job \cap {"none", "sent"} = {}

TypeOK ==
    /\ JobTypeOK
    /\ tray \in Photos \cup {<<>>}
    /\ shooting \in Photo \cup {NoPhoto}
    /\ taken \subseteq Photo
    /\ card \in [Photo -> Card \cup {NoCard}]
    /\ start \in [Photo -> {"none", "sent"} \cup Job]
    /\ poll \in [Id -> Loop]
    /\ open \in BOOLEAN

Init ==
    /\ JobInit
    /\ tray = <<>> /\ shooting = NoPhoto /\ taken = {}
    /\ card = [k \in Photo |-> NoCard]
    /\ start = [k \in Photo |-> "none"]
    /\ poll = [i \in Id |-> At("none")]
    /\ open = TRUE

InStatus(k, s) == card[k] # NoCard /\ card[k].status = s

Known(i) == \E k \in Photo : card[k] # NoCard /\ card[k].id = i

\* Mutant: the answer is shown by every card that was waiting for one.
Updated_AllRunning(i, status, draft) ==
    [k \in Photo |-> IF InStatus(k, "running")
                     THEN [card[k] EXCEPT !.status = status, !.draft = draft]
                     ELSE card[k]]

\* updateJob(id, patch)
Updated(i, status, draft) ==
    [k \in Photo |-> IF card[k] # NoCard /\ card[k].id = i
                     THEN [card[k] EXCEPT !.status = status, !.draft = draft]
                     ELSE card[k]]

-----------------------------------------------------------------------------
(* The camera.                                                              *)

\* The user photographs one thing at a time: the one the tray shows.
TakePhoto(p) ==
    /\ open /\ shooting = NoPhoto /\ Len(tray) < MaxPhotos
    /\ p \notin taken
    /\ \A q \in ToSet(tray) : Shows[q] = Shows[p]
    /\ shooting' = p
    /\ taken' = taken \cup {p}
    /\ UNCHANGED <<jobVars, tray, card, start, poll, open>>

PhotoIsReady ==
    /\ shooting # NoPhoto
    /\ tray' = Append(tray, shooting)
    /\ shooting' = NoPhoto
    /\ UNCHANGED <<jobVars, taken, card, start, poll, open>>

CameraFails ==
    /\ shooting # NoPhoto
    /\ shooting' = NoPhoto
    /\ UNCHANGED <<jobVars, tray, taken, card, start, poll, open>>

\* The filter finds the photo once: no two in a tray have the same hash.
RemovePhoto(p) ==
    /\ open
    /\ \E n \in DOMAIN tray : tray[n] = p /\ tray' = RemoveAt(tray, n)
    /\ UNCHANGED <<jobVars, shooting, taken, card, start, poll, open>>

ReorderPhotos ==
    /\ open
    /\ tray' \in SetToSeqs(ToSet(tray))
    /\ UNCHANGED <<jobVars, shooting, taken, card, start, poll, open>>

-----------------------------------------------------------------------------
(* enqueue and start.                                                       *)

\* The photos of a job that are sent to the model.
Selected(photos) == {photos[n] : n \in DOMAIN photos \cap 1..AiPhotoCap}

\* The button looks at the tray only: a photo may still be on its way there.
StartAnalysis ==
    /\ open /\ tray # <<>>
    /\ card' = [card EXCEPT ![tray[1]] =
                  [id |-> tray[1], photos |-> tray, status |-> "running",
                   draft |-> NoDraft]]
    /\ start' = [start EXCEPT ![tray[1]] = "sent"]
    /\ tray' = <<>>
    /\ UNCHANGED <<jobVars, shooting, taken, poll, open>>

ServerStarts(k, j) ==
    /\ start[k] = "sent"
    /\ StartDraft(j, Selected(card[k].photos))
    /\ start' = [start EXCEPT ![k] = j]
    /\ UNCHANGED <<tray, shooting, taken, card, poll, open>>

StartAnswered(k) ==
    /\ start[k] \in Job
    /\ card' = [card EXCEPT ![k].id = start[k]]
    /\ poll' = [poll EXCEPT ![start[k]] = At("asked")]
    /\ start' = [start EXCEPT ![k] = "none"]
    /\ UNCHANGED <<jobVars, tray, shooting, taken, open>>

\* Encoding failed, the request was refused or lost, or its answer was.
StartFails(k) ==
    /\ start[k] # "none"
    /\ card' = [card EXCEPT ![k].status = "failed"]
    /\ start' = [start EXCEPT ![k] = "none"]
    /\ UNCHANGED <<jobVars, tray, shooting, taken, poll, open>>

-----------------------------------------------------------------------------
(* poll: ask, wait three seconds, ask again until the job is settled.       *)

Asked(i) == poll[i].at = "asked"

SetPoll(i, v) ==
    /\ poll' = [poll EXCEPT ![i] = v]
    /\ UNCHANGED <<tray, shooting, taken, start, open>>

Tick(i) ==
    /\ poll[i].at = "due"
    /\ SetPoll(i, At(IF Known(i) THEN "asked" ELSE "none"))
    /\ UNCHANGED <<jobVars, card>>

\* The server knows nothing of a temporary id.
NoSuchJob(i) ==
    /\ Asked(i) /\ i \in Photo
    /\ SetPoll(i, Answer("not_found", NoDraft))
    /\ UNCHANGED <<jobVars, card>>

AnswerOf(j) ==
    Answer([RUNNING |-> "running", READY |-> "ready", FAILED |-> "failed"][row[j].status],
           row[j].draft)

ReadJob(j) ==
    /\ Asked(j) /\ j \in Job /\ ~Stale(j)
    /\ SetPoll(j, AnswerOf(j))
    /\ UNCHANGED <<jobVars, card>>

ReadStaleJob(j) ==
    /\ Asked(j) /\ j \in Job
    /\ SeeStale(j)
    /\ SetPoll(j, At("stale"))
    /\ UNCHANGED card

\* The GET answers with the row its update returns.
ExpireJob(j) ==
    /\ MarkStale(j)
    /\ SetPoll(j, IF poll[j].at = "stale" THEN Answer("failed", row[j].draft) ELSE poll[j])
    /\ UNCHANGED card

\* Mutant: the loop goes on after the draft has come.
PollAnswered_Forever(i) ==
    /\ poll[i].at = "answered"
    /\ \/ /\ ~Known(i)
          /\ SetPoll(i, At("none"))
          /\ UNCHANGED card
       \/ /\ Known(i) /\ poll[i].status \in {"running", "ready"}
          /\ SetPoll(i, At("due"))
          /\ card' = IF poll[i].status = "ready" THEN Updated(i, "ready", poll[i].draft) ELSE card
       \/ /\ Known(i) /\ poll[i].status \in {"failed", "not_found"}
          /\ SetPoll(i, At("none"))
          /\ card' = Updated(i, "failed", poll[i].draft)
    /\ UNCHANGED jobVars

PollAnswered(i) ==
    /\ poll[i].at = "answered"
    /\ \/ /\ ~Known(i)
          /\ SetPoll(i, At("none"))
          /\ UNCHANGED card
       \/ /\ Known(i) /\ poll[i].status = "running"
          /\ SetPoll(i, At("due"))
          /\ UNCHANGED card
       \/ /\ Known(i) /\ poll[i].status \in {"ready", "failed"}
          /\ SetPoll(i, At("none"))
          /\ card' = Updated(i, poll[i].status, poll[i].draft)
       \/ /\ Known(i) /\ poll[i].status = "not_found"
          /\ SetPoll(i, At("none"))
          /\ card' = [k \in Photo |-> IF card[k] # NoCard /\ card[k].id = i
                                      THEN [card[k] EXCEPT !.status = "failed"]
                                      ELSE card[k]]
    /\ UNCHANGED jobVars

PollFails(i) ==
    /\ poll[i].at \in {"asked", "stale", "answered"}
    /\ SetPoll(i, At("due"))
    /\ UNCHANGED <<jobVars, card>>

-----------------------------------------------------------------------------
(* What the user does with a card.                                          *)

Retry(k) ==
    /\ open /\ InStatus(k, "failed")
    /\ card' = [card EXCEPT ![k].status = "running"]
    /\ start' = [start EXCEPT ![k] = "sent"]
    /\ UNCHANGED <<jobVars, tray, shooting, taken, poll, open>>

RemoveCard(k) ==
    /\ open /\ InStatus(k, "failed")
    /\ card' = [card EXCEPT ![k] = NoCard]
    /\ UNCHANGED <<jobVars, tray, shooting, taken, start, poll, open>>

\* The draft leaves the queue for the validation screen.
OpenReady(k) ==
    /\ open /\ InStatus(k, "ready") /\ card[k].draft # NoDraft
    /\ card' = [card EXCEPT ![k] = NoCard]
    /\ UNCHANGED <<jobVars, tray, shooting, taken, start, poll, open>>

KillApp ==
    /\ open /\ crashes < MaxCrashes
    /\ crashes' = crashes + 1
    /\ open' = FALSE
    /\ tray' = <<>> /\ shooting' = NoPhoto
    /\ start' = [k \in Photo |-> "none"]
    /\ poll' = [i \in Id |-> At("none")]
    /\ UNCHANGED <<row, work, old, expiring, taken, card>>

\* Mutant: the loops of the cards are not resumed.
OpenApp_NoResume ==
    /\ ~open
    /\ open' = TRUE
    /\ UNCHANGED <<jobVars, tray, shooting, taken, card, start, poll>>

OpenApp ==
    /\ ~open
    /\ open' = TRUE
    /\ poll' = [i \in Id |-> IF \E k \in Photo : InStatus(k, "running") /\ card[k].id = i
                             THEN At("asked") ELSE At("none")]
    /\ UNCHANGED <<jobVars, tray, shooting, taken, card, start>>

-----------------------------------------------------------------------------

Queue(k) == StartAnswered(k) \/ StartFails(k) \/ \E j \in Job : ServerStarts(k, j)

\* The GET of a loop reaches the server.
Reached(i) == NoSuchJob(i) \/ ReadJob(i) \/ ReadStaleJob(i)

Polling(i) == Tick(i) \/ Reached(i) \/ PollAnswered(i) \/ PollFails(i)

Next ==
    \/ \E p \in Photo : TakePhoto(p) \/ RemovePhoto(p)
    \/ PhotoIsReady \/ CameraFails \/ ReorderPhotos \/ StartAnalysis
    \/ \E k \in Photo : Queue(k) \/ Retry(k) \/ RemoveCard(k) \/ OpenReady(k)
    \/ \E i \in Id : Polling(i)
    \/ \E j \in Job : ExpireJob(j)
    \/ \E j \in Job : Work(j) /\ UNCHANGED phoneVars
    \/ ServerRestarts /\ UNCHANGED phoneVars
    \/ KillApp \/ OpenApp

Spec == Init /\ [][Next]_vars

\* The server runs its promises and time passes; the app runs its timers, and
\* a GET that is repeated for ever is answered now and then.  Nothing is owed
\* by the user; a request that is never answered ends by its timeout.
FairSpec ==
    /\ Spec
    /\ \A j \in Job : WF_vars(Work(j) /\ UNCHANGED phoneVars) /\ WF_vars(ExpireJob(j))
    /\ \A k \in Photo : WF_vars(Queue(k))
    /\ \A i \in Id :
        /\ WF_vars(Tick(i) \/ (PollFails(i) /\ poll[i].at = "stale"))
        /\ SF_vars(Reached(i)) /\ SF_vars(PollAnswered(i))

-----------------------------------------------------------------------------
(* Properties.                                                              *)

\* Each annonce keeps to its own photos: a photo is in the tray or on one card
\* only, and a ready card shows the draft written from its photos, whatever was
\* asked, answered, lost, retried or renamed on the way.
AnnoncesKeepToTheirPhotos ==
    \A k \in Photo : card[k] # NoCard =>
        /\ ToSet(card[k].photos) \cap ToSet(tray) = {}
        /\ \A q \in Photo \ {k} : card[q] # NoCard =>
              ToSet(card[k].photos) \cap ToSet(card[q].photos) = {}
        /\ card[k].status = "ready" => card[k].draft = Selected(card[k].photos)

\* No spinner without an engine: while the app runs, every card that says
\* "running" has a request on its way or a loop that will ask.
EveryRunningCardIsFollowed ==
    open => \A k \in Photo :
              InStatus(k, "running") => start[k] # "none" \/ poll[card[k].id].at # "none"

\* A card that is ready stays ready with its draft until the user opens it.  The
\* row it came from may still be marked FAILED, by a GET that had read it as stale
\* before the draft was recorded (routes/ai.ts), and answers of its job may still be
\* on their way when the app is killed and opened: none of that reaches the card.
ReadyStaysReady ==
    [][\A k \in Photo : InStatus(k, "ready") =>
          card'[k] = card[k] \/ (OpenReady(k) /\ card'[k] = NoCard)]_vars

\* A card does not spin for ever while the app runs: the job ends, or the rule
\* of staleness ends it, or the id turns out to be unknown.
RunningCardsSettle ==
    \A k \in Photo : (open /\ InStatus(k, "running")) ~> (~open \/ ~InStatus(k, "running"))

\* vendre.tsx:131 "objet suivant = capture vierge ; le job garde ces photos":
\* the photos of a job are all of one thing.
NextThingStartsBlank ==
    \A k \in Photo : card[k] # NoCard =>
        \A p, q \in ToSet(card[k].photos) : Shows[p] = Shows[q]

-----------------------------------------------------------------------------
(* The inductive invariant of the proofs (AnalysisQueueProofs).             *)

\* A job keeps the photos it was created for, and has their draft or none.
RowsAreHonest ==
    \A j \in Job :
        /\ row[j] = NoJobRow => work[j] = "none" /\ j \notin expiring
        /\ row[j] # NoJobRow =>
              /\ row[j].draft \in {NoDraft, row[j].of}
              /\ row[j].status = "READY" => row[j].draft = row[j].of

\* A photo is being taken, in the tray or on one card: nothing takes it twice.
TrayIsNew ==
    /\ \A m, n \in DOMAIN tray : tray[m] = tray[n] => m = n
    /\ ToSet(tray) \subseteq taken
    /\ shooting # NoPhoto => /\ shooting \in taken /\ shooting \notin ToSet(tray)
                             /\ Len(tray) < MaxPhotos

CardsAreApart ==
    \A k \in Photo : card[k] # NoCard =>
        /\ k \in ToSet(card[k].photos) /\ ToSet(card[k].photos) \subseteq taken
        /\ shooting \notin ToSet(card[k].photos)
        /\ ToSet(card[k].photos) \cap ToSet(tray) = {}
        /\ \A q \in Photo \ {k} : card[q] # NoCard =>
              ToSet(card[k].photos) \cap ToSet(card[q].photos) = {}

\* An id is the card's own photo or a job of its photos, and is its own.
IdsAreOwn ==
    /\ \A k \in Photo : card[k] # NoCard =>
          /\ card[k].id \in Photo => card[k].id = k
          /\ card[k].id \in Job => /\ row[card[k].id] # NoJobRow
                                   /\ row[card[k].id].of = Selected(card[k].photos)
    /\ \A k \in Photo : start[k] \in Job =>
          /\ row[start[k]] # NoJobRow /\ row[start[k]].of = Selected(card[k].photos)
          /\ \A q \in Photo : card[q] # NoCard => card[q].id # start[k]
    /\ \A k, q \in Photo : start[k] \in Job /\ start[k] = start[q] => k = q
    /\ \A k, q \in Photo : card[k] # NoCard /\ card[q] # NoCard /\ card[k].id = card[q].id => k = q

\* A card that waits has its request or its loop, and never both; a loop waits
\* for a card.
EachWaitsOnce ==
    /\ \A k \in Photo : start[k] # "none" => InStatus(k, "running") /\ poll[card[k].id].at = "none"
    /\ \A i \in Id : poll[i].at # "none" =>
          \E k \in Photo : InStatus(k, "running") /\ card[k].id = i
    /\ ~open => (\A k \in Photo : start[k] = "none") /\ (\A i \in Id : poll[i].at = "none")

AnswersAreHonest ==
    \A i \in Id : poll[i].at = "answered" /\ poll[i].status = "ready" =>
        i \in Job /\ poll[i].draft = row[i].of

ReadyIsItsDraft ==
    \A k \in Photo : InStatus(k, "ready") => card[k].draft = Selected(card[k].photos)

QueueInv ==
    /\ TypeOK /\ RowsAreHonest /\ TrayIsNew /\ CardsAreApart /\ IdsAreOwn
    /\ EachWaitsOnce /\ AnswersAreHonest /\ ReadyIsItsDraft /\ EveryRunningCardIsFollowed
=============================================================================
