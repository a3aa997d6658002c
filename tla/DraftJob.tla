------------------------------ MODULE DraftJob ------------------------------
(***************************************************************************)
(* The writing of an annonce by the vision model, as the server keeps it:  *)
(* routes/ai.ts and packages/ai/src/vision.ts.                             *)
(*                                                                         *)
(* POST /ai/draft/start creates a row and leaves a detached promise, which *)
(* analyses the photos and updates the row by id.  GET /ai/draft/:jobId    *)
(* reads the row, and marks it FAILED when it has been RUNNING for more    *)
(* than five minutes: the read and that update are two steps.  A restart   *)
(* of the server loses the promises and keeps the rows.                    *)
(***************************************************************************)
EXTENDS Naturals, FiniteSets

CONSTANTS
    Photo,        \* photos; a draft is written from a set of them
    Job,          \* ids of DraftJob rows
    MaxCrashes,   \* bound: restarts of the server, or of its client
    NoJobRow      \* the row does not exist

ASSUME DraftJobAssumption ==
    /\ MaxCrashes \in Nat
    /\ Job \cap Photo = {}

VARIABLES
    row,      \* the table DraftJob
    work,     \* what the detached promise of each job is doing
    old,      \* jobs created more than STALE_JOB_MS ago
    expiring, \* jobs that a GET has read as stale and is about to mark
    crashes

jobVars == <<row, work, old, expiring, crashes>>

\* A draft is the set of photos it was written from; null is no photo.
Draft == SUBSET Photo
NoDraft == {}

JobRow == [of : Draft, status : {"RUNNING", "READY", "FAILED"},
           draft : Draft]

ASSUME NoJobRowAssumption == NoJobRow \notin JobRow

JobTypeOK ==
    /\ row \in [Job -> JobRow \cup {NoJobRow}]
    /\ work \in [Job -> {"none", "analyzing", "written", "broken"}]
    /\ old \subseteq Job
    /\ expiring \subseteq Job
    /\ crashes \in 0..MaxCrashes

JobInit ==
    /\ row = [j \in Job |-> NoJobRow]
    /\ work = [j \in Job |-> "none"]
    /\ old = {}
    /\ expiring = {}
    /\ crashes = 0

-----------------------------------------------------------------------------

StartDraft(j, photos) ==
    /\ row[j] = NoJobRow
    /\ photos # {}
    /\ row' = [row EXCEPT ![j] = [of |-> photos, status |-> "RUNNING",
                                  draft |-> NoDraft]]
    /\ work' = [work EXCEPT ![j] = "analyzing"]
    /\ UNCHANGED <<old, expiring, crashes>>

\* The backend answers with a draft that the schema accepts ...
ModelAnswers(j) ==
    /\ work[j] = "analyzing"
    /\ work' = [work EXCEPT ![j] = "written"]
    /\ UNCHANGED <<row, old, expiring, crashes>>

\* ... or with anything else, or an error, or not within AI_INFERENCE_TIMEOUT_MS.
ModelFails(j) ==
    /\ work[j] = "analyzing"
    /\ work' = [work EXCEPT ![j] = "broken"]
    /\ UNCHANGED <<row, old, expiring, crashes>>

\* The update by id that the promise ends with, whatever the row has become.
RecordDraft(j) ==
    /\ work[j] = "written"
    /\ row' = [row EXCEPT ![j].status = "READY", ![j].draft = row[j].of]
    /\ work' = [work EXCEPT ![j] = "none"]
    /\ UNCHANGED <<old, expiring, crashes>>

\* The catch is also that of the update above.
RecordDraftFails(j) ==
    /\ work[j] = "written"
    /\ work' = [work EXCEPT ![j] = "broken"]
    /\ UNCHANGED <<row, old, expiring, crashes>>

RecordFailure(j) ==
    /\ work[j] = "broken"
    /\ row' = [row EXCEPT ![j].status = "FAILED"]
    /\ work' = [work EXCEPT ![j] = "none"]
    /\ UNCHANGED <<old, expiring, crashes>>

\* The analysis is cut after two minutes: only its last update can be that late.
Age(j) ==
    /\ row[j] # NoJobRow /\ row[j].status = "RUNNING"
    /\ work[j] # "analyzing"
    /\ j \notin old
    /\ old' = old \cup {j}
    /\ UNCHANGED <<row, work, expiring, crashes>>

Stale(j) == row[j].status = "RUNNING" /\ j \in old

\* GET has read a stale row; two such GETs at once are one here.
SeeStale(j) ==
    /\ row[j] # NoJobRow /\ Stale(j)
    /\ expiring' = expiring \cup {j}
    /\ UNCHANGED <<row, work, old, crashes>>

\* GET's own update: by id, without a condition on what it has read.
MarkStale(j) ==
    /\ j \in expiring
    /\ expiring' = expiring \ {j}
    /\ row' = [row EXCEPT ![j].status = "FAILED"]
    /\ UNCHANGED <<work, old, crashes>>

\* A restart; also what an update that fails in the catch above amounts to.
ServerRestarts ==
    /\ crashes < MaxCrashes
    /\ crashes' = crashes + 1
    /\ work' = [j \in Job |-> "none"]
    /\ expiring' = {}
    /\ UNCHANGED <<row, old>>

\* What happens to a job by itself.
Work(j) ==
    \/ ModelAnswers(j) \/ ModelFails(j)
    \/ RecordDraft(j) \/ RecordDraftFails(j) \/ RecordFailure(j)
    \/ Age(j)
=============================================================================
