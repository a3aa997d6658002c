------------------------- MODULE PublicationService -------------------------
(***************************************************************************)
(* PublicationService.publish() over CoreSyncPublisher.publishMany() and   *)
(* the connectors: a QUEUED listing is put online on several marketplaces, *)
(* then its ListingPublication rows are written, then its status.  Nothing *)
(* is locked meanwhile: each await is the end of a step.                   *)
(***************************************************************************)
EXTENDS ListingEngine, Connectors

CONSTANTS
    Publisher,   \* POST /listing/:id/publish requests in flight
    NoJob,       \* the request is not publishing
    NoPub        \* no ListingPublication row

VARIABLES
    pub,      \* ListingPublication row of each listing and marketplace
    job       \* the publication each request is in the middle of

Remote == [l : Listing, m : Market, prix : Prix, calls : 1 .. 2,
           state : {"offer", "live", "sold", "down"}]
PubStatus == {"ACTIVE", "SOLD", "WITHDRAWN", "WITHDRAW_FAILED"}
PubRow == [externalId : Annonce, status : PubStatus]

\* "todo" are the targets whose connector has not settled ("call") or whose
\* row is not written yet ("save"); "got" what each connector has created so
\* far, and the externalId of its success once it has settled.
Job == [l : Listing, prix : Prix, step : {"call", "save", "mark", "fail"},
        todo : SUBSET Market, got : [Market -> Annonce \cup {NoAnnonce}]]

ASSUME NoJobAssumption == NoJob \notin Job /\ NoPub \notin PubRow

PublicationTypeOK ==
    /\ annonce \in Seq(Remote) /\ Len(annonce) <= MaxAnnonces
    /\ pub \in [Listing -> [Market -> PubRow \cup {NoPub}]]
    /\ job \in [Publisher -> Job \cup {NoJob}]

publicationVars == <<annonce, pub, job>>

PublicationInit ==
    /\ annonce = <<>>
    /\ pub = [l \in Listing |-> [m \in Market |-> NoPub]]
    /\ job = [p \in Publisher |-> NoJob]

-----------------------------------------------------------------------------

PublishingAt(p, step) == job[p] # NoJob /\ job[p].step = step

Successes(j) == {m \in Market : j.got[m] # NoAnnonce}

\* publish() reads the listing: a QUEUED one goes to the connectors, or
\* straight to fail() when the pivot is incomplete (INCOMPLETE_DRAFT).
StartPublish(p, l, targets) ==
    /\ job[p] = NoJob
    /\ targets # {}
    /\ status[l] = "QUEUED"
    /\ \E step \in {"call", "fail"} :
        job' = [job EXCEPT ![p] =
                  [l |-> l, prix |-> prixPublie[l], step |-> step,
                   todo |-> IF step = "call" THEN targets ELSE {},
                   got |-> [m \in Market |-> NoAnnonce]]]
    /\ UNCHANGED <<engineVars, annonce, pub>>

\* Without a call: the pivot is invalid (for every target), the marketplace has
\* no connector, or precheck() finds the listing not eligible.
NotEligible(p, m) ==
    /\ PublishingAt(p, "call") /\ m \in job[p].todo
    /\ job[p].got[m] = NoAnnonce
    /\ job' = [job EXCEPT ![p].todo = @ \ {m}]
    /\ UNCHANGED <<engineVars, annonce, pub>>

\* A call is rejected by the marketplace, or not made (no credentials): what
\* was created by the calls before stays.
ConnectorRefuses(p, m) ==
    /\ PublishingAt(p, "call") /\ m \in job[p].todo
    /\ job' = [job EXCEPT ![p].todo = @ \ {m}, ![p].got[m] = NoAnnonce]
    /\ UNCHANGED <<engineVars, annonce, pub>>

\* A call is executed.  Its answer is read: the publication goes on, or is a
\* success; or it is lost or unreadable: what was created is an orphan nobody
\* will take down.
ConnectorCalls(p, m) ==
    /\ PublishingAt(p, "call") /\ m \in job[p].todo
    /\ PublishCall(job[p].l, m, job[p].prix, job[p].got[m])
    /\ LET id == IF job[p].got[m] = NoAnnonce THEN Len(annonce') ELSE job[p].got[m] IN
       \/ job' = [job EXCEPT ![p].got[m] = id,
                             ![p].todo = IF Complete(annonce'[id]) THEN @ \ {m} ELSE @]
       \/ job' = [job EXCEPT ![p].got[m] = NoAnnonce, ![p].todo = @ \ {m}]
    /\ UNCHANGED <<engineVars, pub>>

\* Mutant: the rows are written after the status.
AllSettled_MarksFirst(p) ==
    /\ PublishingAt(p, "call") /\ job[p].todo = {}
    /\ job' = [job EXCEPT ![p].step = IF Successes(job[p]) = {} THEN "fail" ELSE "mark",
                          ![p].todo = Successes(job[p])]
    /\ UNCHANGED <<engineVars, annonce, pub>>

\* Promise.allSettled: no success at all is a failure, else the rows.
AllSettled(p) ==
    /\ PublishingAt(p, "call") /\ job[p].todo = {}
    /\ job' = [job EXCEPT ![p].step = IF Successes(job[p]) = {} THEN "fail" ELSE "save",
                          ![p].todo = Successes(job[p])]
    /\ UNCHANGED <<engineVars, annonce, pub>>

\* An existing row keeps its status and takes the new externalId.
Upsert(row, id) ==
    IF row = NoPub THEN [externalId |-> id, status |-> "ACTIVE"]
                   ELSE [row EXCEPT !.externalId = id]

SaveNext(p) ==
    /\ PublishingAt(p, "save")
    /\ \E m \in job[p].todo :
        /\ pub' = [pub EXCEPT ![job[p].l][m] = Upsert(@, job[p].got[m])]
        /\ job' = [job EXCEPT ![p].todo = @ \ {m},
                              ![p].step = IF job[p].todo = {m} THEN "mark" ELSE "save"]
    /\ UNCHANGED <<engineVars, annonce>>

\* The reply, or the error reply when the listing has left QUEUED meanwhile.
EndPublish(p) == job' = [job EXCEPT ![p] = NoJob] /\ UNCHANGED <<annonce, pub>>

FinishPublish(p) ==
    /\ PublishingAt(p, "mark")
    /\ \/ MarkPublished(job[p].l)
       \/ ~CanTransition(status[job[p].l], "PUBLISHED") /\ UNCHANGED engineVars
    /\ EndPublish(p)

\* Mutant: a total failure is reported to the user and that is all.
Fail_OnlyReports(p) ==
    /\ PublishingAt(p, "fail")
    /\ UNCHANGED engineVars
    /\ EndPublish(p)

\* fail(): nothing is online, the listing is refunded.
Fail(p) ==
    /\ PublishingAt(p, "fail")
    /\ \/ FailPublish(job[p].l)
       \/ ~CanTransition(status[job[p].l], "PUBLISH_FAILED") /\ UNCHANGED engineVars
    /\ EndPublish(p)

PublishStep(p) ==
    \/ \E m \in Market :
        NotEligible(p, m) \/ ConnectorRefuses(p, m) \/ ConnectorCalls(p, m)
    \/ AllSettled(p)
    \/ SaveNext(p)
    \/ FinishPublish(p)
    \/ Fail(p)
=============================================================================
