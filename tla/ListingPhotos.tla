---------------------------- MODULE ListingPhotos ----------------------------
(***************************************************************************)
(* The photos of one listing: POST /listing/:id/photos (listing.ts), which *)
(* writes the files, then their rows.                                      *)
(*                                                                         *)
(* The handler awaits the database and the disk between its steps and      *)
(* holds nothing in between, and the phone sends a batch again when it has *)
(* waited ten seconds: requests overlap.  A batch whose hashes do not      *)
(* match is refused before anything is read, and is left out.              *)
(***************************************************************************)
EXTENDS ListingTransitions, FiniteSets, FiniteSetsExt, Integers

CONSTANTS
    Photo,     \* a photo is its sha256
    Batch,     \* what a request may carry: the trays of the phone
    Upload,    \* requests in flight
    MaxPhotos, \* MAX_PHOTOS_PER_LISTING
    MaxCuts    \* bound: requests cut by a restart or by an error of the disk

PhotosAssumption == Batch \subseteq (SUBSET Photo) \ {{}} /\ MaxPhotos \in Nat /\ MaxCuts \in Nat

VARIABLES
    status,   \* of the listing
    file,     \* the directory of the listing; "torn" is opened and not written to the end
    rows,     \* how many rows of ListingPhoto name each photo
    upload,   \* the handler, by request
    answered, \* photos a 201 has promised to the phone
    cuts

vars == <<status, file, rows, upload, answered, cuts>>

PhotoUploadStatuses == {"PENDING_AUTH", "AUTHORIZED", "AI_PROCESSING", "DRAFT_READY"}

\* "fresh" is what the request has decided to add, "todo" what is still to be
\* written, "open" the file being written, if any.
Handler == [step : {"idle", "quota", "write"}, batch : SUBSET Photo,
            fresh : SUBSET Photo, todo : SUBSET Photo, open : SUBSET Photo]

Idle == [step |-> "idle", batch |-> {}, fresh |-> {}, todo |-> {}, open |-> {}]

TypeOK ==
    /\ status \in ListingStatus
    /\ file \in [Photo -> {"none", "torn", "whole"}]
    /\ rows \in [Photo -> Nat]
    /\ upload \in [Upload -> Handler]
    /\ answered \subseteq Photo
    /\ cuts \in 0 .. MaxCuts

Init ==
    /\ status = "AUTHORIZED"
    /\ file = [p \in Photo |-> "none"]
    /\ rows = [p \in Photo |-> 0]
    /\ upload = [u \in Upload |-> Idle]
    /\ answered = {}
    /\ cuts = 0

Known == {p \in Photo : rows[p] > 0}

-----------------------------------------------------------------------------
(* The handler.                                                             *)

\* The status is looked at here, and only here.
Receive(u, batch) ==
    /\ upload[u].step = "idle" /\ status \in PhotoUploadStatuses
    /\ upload' = [upload EXCEPT ![u] = [Idle EXCEPT !.step = "quota", !.batch = batch]]
    /\ UNCHANGED <<status, file, rows, answered, cuts>>

\* TOO_MANY_PHOTOS, or the photos no row names are kept to be added.
CheckQuota(u) ==
    /\ upload[u].step = "quota"
    /\ LET fresh == upload[u].batch \ Known
       IN  upload' = [upload EXCEPT ![u] =
               IF Cardinality(Known) + Cardinality(fresh) > MaxPhotos THEN Idle
               ELSE [@ EXCEPT !.step = "write", !.fresh = fresh, !.todo = fresh]]
    /\ UNCHANGED <<status, file, rows, answered, cuts>>

\* writeFile() empties the file as it opens it, then writes it: one at a time. A
\* photo is small enough (vendre.tsx:29) to be written by one call of the system.
OpenFile(u, p) ==
    /\ p \in upload[u].todo /\ upload[u].open = {}
    /\ file' = [file EXCEPT ![p] = "torn"]
    /\ upload' = [upload EXCEPT ![u].open = {p}]
    /\ UNCHANGED <<status, rows, answered, cuts>>

FillFile(u, p) ==
    /\ p \in upload[u].open
    /\ file' = [file EXCEPT ![p] = "whole"]
    /\ upload' = [upload EXCEPT ![u].todo = @ \ {p}, ![u].open = {}]
    /\ UNCHANGED <<status, rows, answered, cuts>>

\* Mutant: the rows are inserted before the files are written.
InsertRows_BeforeFiles(u) ==
    /\ upload[u].step = "write"
    /\ rows' = [p \in Photo |-> rows[p] + IF p \in upload[u].fresh THEN 1 ELSE 0]
    /\ answered' = answered \cup upload[u].batch
    /\ upload' = [upload EXCEPT ![u] = Idle]
    /\ UNCHANGED <<status, file, cuts>>

\* createMany(), one statement, and the answer 201.
InsertRows(u) ==
    /\ upload[u].step = "write" /\ upload[u].todo = {}
    /\ rows' = [p \in Photo |-> rows[p] + IF p \in upload[u].fresh THEN 1 ELSE 0]
    /\ answered' = answered \cup upload[u].batch
    /\ upload' = [upload EXCEPT ![u] = Idle]
    /\ UNCHANGED <<status, file, cuts>>

\* The server stops, or the disk refuses: the request ends where it is.
Cut(u) ==
    /\ upload[u].step # "idle" /\ cuts < MaxCuts
    /\ upload' = [upload EXCEPT ![u] = Idle]
    /\ cuts' = cuts + 1
    /\ UNCHANGED <<status, file, rows, answered>>

\* Everything else that happens to the listing.
Moves(to) ==
    /\ CanTransition(status, to)
    /\ status' = to
    /\ UNCHANGED <<file, rows, upload, answered, cuts>>

Next ==
    \/ \E u \in Upload :
        \/ \E batch \in Batch : Receive(u, batch)
        \/ CheckQuota(u)
        \/ \E p \in Photo : OpenFile(u, p) \/ FillFile(u, p)
        \/ InsertRows(u)
        \/ Cut(u)
    \/ \E to \in ListingStatus : Moves(to)

Spec == Init /\ [][Next]_vars

-----------------------------------------------------------------------------
(* What is expected of it.                                                  *)

Writing(p) == \E u \in Upload : p \in upload[u].open

\* What was answered is recorded, and a row always names a file. The file is
\* whole, or another request is writing it again, as long as none was cut.
PhotosAreStored ==
    /\ answered \subseteq Known
    /\ \A p \in Known :
        /\ file[p] # "none"
        /\ cuts = 0 => file[p] = "whole" \/ Writing(p)

-----------------------------------------------------------------------------
(* What the repository says of it, and overlapping requests refute.         *)

\* "Idempotent par sha256 (re-upload = no-op)" (listing.ts:257): one row a photo.
NoPhotoTwice ==
    \A p \in Photo : rows[p] <= 1

\* MAX_PHOTOS_PER_LISTING (listing.ts:14) bounds the photos of a listing.
PhotosAreBounded ==
    MapThenSumSet(LAMBDA p : rows[p], Photo) <= MaxPhotos

\* "le contenu est figé au commit" (listing.ts:23): no photo is added later.
FrozenAtCommit ==
    [][rows' # rows => status \in PhotoUploadStatuses]_vars

\* When nothing runs every photo of the listing can be shown, or sending it
\* again repairs it: a photo with a row is not written any more.
NoPhotoIsTorn ==
    (\A u \in Upload : upload[u] = Idle) => \A p \in Known : file[p] = "whole"

-----------------------------------------------------------------------------
(* The inductive invariant of the proofs (PhoneProofs).                     *)

Stored(p) == file[p] # "none" /\ (cuts = 0 => file[p] = "whole" \/ Writing(p))

\* A handler has written what it has decided to add and has no more to write,
\* and the photos it leaves out have their rows.
HandlerIsHonest(h) ==
    /\ h.step # "write" => h.fresh = {}
    /\ h.open \subseteq h.todo /\ h.todo \subseteq h.fresh
    /\ \A p, q \in h.open : p = q
    /\ h.step = "write" => h.batch \ h.fresh \subseteq Known
    /\ \A p \in h.fresh \ h.todo : Stored(p)

PhotosInv == TypeOK /\ PhotosAreStored /\ \A u \in Upload : HandlerIsHonest(upload[u])
=============================================================================
