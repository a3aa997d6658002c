------------------------- MODULE AnalysisQueueProofs -------------------------
(***************************************************************************)
(* TLAPS proofs about AnalysisQueue.                                       *)
(***************************************************************************)
EXTENDS AnalysisQueue, FiniteSetTheorems, SequenceTheorems, TLAPS

-----------------------------------------------------------------------------
(* Trays.                                                                   *)

IsTray(s) == s \in Seq(Photo) /\ Len(s) <= MaxPhotos

NoTwice(s) == \A m, n \in DOMAIN s : s[m] = s[n] => m = n

\* The sequences of photos that the types allow.
LEMMA TraysAreSequences ==
    \A s : s \in Photos \cup {<<>>} <=> IsTray(s)
<1> USE QueueAssumption
<1>1. ASSUME NEW s, s \in Photos PROVE IsTray(s)
  <2>1. PICK n \in 1..MaxPhotos : s \in [1..n -> Photo] BY <1>1 DEF Photos
  <2>2. s \in Seq(Photo) /\ Len(s) = n BY <2>1
  <2> QED BY <2>1, <2>2 DEF IsTray
<1>2. IsTray(<<>>) BY DEF IsTray
<1>3. ASSUME NEW s, IsTray(s), s # <<>> PROVE s \in Photos
  <2>1. Len(s) \in 1..MaxPhotos BY <1>3, EmptySeq, LenProperties DEF IsTray
  <2>2. s \in [1..Len(s) -> Photo] BY <1>3, LenProperties DEF IsTray
  <2> QED BY <2>1, <2>2 DEF Photos
<1> QED BY <1>1, <1>2, <1>3

\* A tray that holds something: its first photo, and the photos it is made of.
LEMMA FullTray ==
    ASSUME NEW s \in Photos
    PROVE  /\ s # <<>> /\ 1 \in DOMAIN s /\ s[1] \in Photo
           /\ s[1] \in ToSet(s) /\ ToSet(s) \subseteq Photo /\ Selected(s) \subseteq Photo
<1> USE QueueAssumption
<1>1. PICK n \in 1..MaxPhotos : s \in [1..n -> Photo] BY DEF Photos
<1>2. 1 \in DOMAIN s /\ s[1] \in Photo BY <1>1
<1>3. ToSet(s) \subseteq Photo BY <1>1 DEF ToSet
<1>4. Selected(s) \subseteq Photo BY <1>1 DEF Selected
<1>5. s[1] \in ToSet(s) BY <1>2 DEF ToSet
<1>6. s # <<>> BY <1>1
<1> QED BY <1>2, <1>3, <1>4, <1>5, <1>6

\* A photo that is ready goes to the end of its tray.
LEMMA TrayGrows ==
    ASSUME NEW s, IsTray(s), NoTwice(s), NEW p \in Photo, p \notin ToSet(s), Len(s) < MaxPhotos
    PROVE  /\ IsTray(Append(s, p)) /\ NoTwice(Append(s, p))
           /\ ToSet(Append(s, p)) = ToSet(s) \cup {p}
<1> DEFINE t == Append(s, p)
<1>1. s \in Seq(Photo) /\ Len(s) \in Nat /\ DOMAIN s = 1..Len(s) BY LenProperties DEF IsTray
<1>2. /\ t \in Seq(Photo) /\ Len(t) = Len(s) + 1
      /\ \A i \in 1..Len(s) : t[i] = s[i]
      /\ t[Len(s) + 1] = p
  BY <1>1, AppendProperties
<1>3. DOMAIN t = 1..(Len(s) + 1) BY <1>2, LenProperties
<1> HIDE DEF t
<1>4. IsTray(t) BY <1>1, <1>2, QueueAssumption DEF IsTray
<1>5. ToSet(t) = ToSet(s) \cup {p} BY <1>1, <1>2, <1>3 DEF ToSet
<1>6. \A i \in 1..Len(s) : s[i] # p BY <1>1 DEF ToSet
<1>7. NoTwice(t) BY <1>1, <1>2, <1>3, <1>6 DEF NoTwice
<1> QED BY <1>4, <1>5, <1>7 DEF t

\* A photo that the user removes leaves the others in their order.
LEMMA TrayShrinks ==
    ASSUME NEW s, IsTray(s), NoTwice(s), NEW n \in DOMAIN s
    PROVE  /\ IsTray(RemoveAt(s, n)) /\ NoTwice(RemoveAt(s, n))
           /\ Len(RemoveAt(s, n)) <= Len(s)
           /\ ToSet(RemoveAt(s, n)) \subseteq ToSet(s)
<1> DEFINE a == SubSeq(s, 1, n - 1)
           b == SubSeq(s, n + 1, Len(s))
           t == a \o b
<1>1. /\ s \in Seq(Photo) /\ Len(s) \in Nat /\ DOMAIN s = 1..Len(s) /\ n \in 1..Len(s)
      /\ \A i \in 1..Len(s) : s[i] \in Photo
  BY LenProperties, ElementOfSeq DEF IsTray
<1>2. /\ a \in Seq(Photo) /\ Len(a) = n - 1
      /\ \A i \in 1..(n - 1) : a[i] = s[i]
  <2>1. \A i \in 1..(n - 1) : s[i] \in Photo BY <1>1
  <2>2. /\ a \in Seq(Photo)
        /\ Len(a) = IF 1 <= n - 1 THEN n - 1 - 1 + 1 ELSE 0
        /\ \A i \in 1..(n - 1 - 1 + 1) : a[i] = s[1 + i - 1]
    BY <1>1, <2>1, SubSeqProperties
  <2> HIDE DEF a
  <2> QED BY <1>1, <2>2
<1>3. /\ b \in Seq(Photo) /\ Len(b) = Len(s) - n
      /\ \A i \in 1..(Len(s) - n) : b[i] = s[n + i]
  <2>1. \A i \in (n + 1)..Len(s) : s[i] \in Photo BY <1>1
  <2>2. /\ b \in Seq(Photo)
        /\ Len(b) = IF n + 1 <= Len(s) THEN Len(s) - (n + 1) + 1 ELSE 0
        /\ \A i \in 1..(Len(s) - (n + 1) + 1) : b[i] = s[(n + 1) + i - 1]
    BY <1>1, <2>1, SubSeqProperties
  <2>3. \A i \in 1..(Len(s) - n) : s[(n + 1) + i - 1] = s[n + i] BY <1>1
  <2> HIDE DEF b
  <2> QED BY <1>1, <2>2, <2>3
<1>4. t = RemoveAt(s, n) BY DEF RemoveAt
<1> HIDE DEF a, b
<1>5. /\ t \in Seq(Photo) /\ Len(t) = Len(a) + Len(b)
      /\ \A i \in 1..(Len(a) + Len(b)) :
            t[i] = IF i <= Len(a) THEN a[i] ELSE b[i - Len(a)]
  BY <1>2, <1>3, ConcatProperties
<1> HIDE DEF t
<1>6. Len(t) = Len(s) - 1 BY <1>1, <1>2, <1>3, <1>5
<1>7. \A i \in 1..(Len(s) - 1) : t[i] = IF i < n THEN s[i] ELSE s[i + 1]
  <2> TAKE i \in 1..(Len(s) - 1)
  <2>1. t[i] = IF i <= n - 1 THEN a[i] ELSE b[i - (n - 1)] BY <1>1, <1>2, <1>3, <1>5
  <2>2. CASE i < n BY <1>1, <1>2, <2>1, <2>2
  <2>3. CASE i >= n
    <3>1. i - (n - 1) \in 1..(Len(s) - n) /\ n + (i - (n - 1)) = i + 1 BY <1>1, <2>3
    <3>2. b[i - (n - 1)] = s[n + (i - (n - 1))] BY <1>3, <3>1
    <3> QED BY <1>1, <2>1, <2>3, <3>1, <3>2
  <2> QED BY <1>1, <2>2, <2>3
<1>8. DOMAIN t = 1..(Len(s) - 1) BY <1>5, <1>6, LenProperties
<1>9. IsTray(t) BY <1>1, <1>5, <1>6, QueueAssumption DEF IsTray
<1>10. ToSet(t) \subseteq ToSet(s) BY <1>1, <1>7, <1>8 DEF ToSet
<1>11. NoTwice(t) BY <1>1, <1>7, <1>8 DEF NoTwice
<1> QED BY <1>1, <1>4, <1>6, <1>9, <1>10, <1>11

\* A tray that the user reorders holds the same photos, each once.
LEMMA TrayReordered ==
    ASSUME NEW s, IsTray(s), NEW t \in SetToSeqs(ToSet(s))
    PROVE  IsTray(t) /\ NoTwice(t) /\ ToSet(t) \subseteq ToSet(s) /\ Len(t) <= Len(s)
<1> DEFINE S == ToSet(s)
           c == Cardinality(S)
<1>1. /\ s \in Seq(Photo) /\ Len(s) \in Nat /\ DOMAIN s = 1..Len(s)
      /\ s \in [1..Len(s) -> Photo]
  BY LenProperties DEF IsTray
<1>2. S \subseteq Photo BY <1>1 DEF ToSet
<1>3. IsFiniteSet(1..Len(s)) /\ Cardinality(1..Len(s)) = Len(s) BY <1>1, FS_Interval
<1>4. s \in Surjection(1..Len(s), S) BY <1>1 DEF Surjection, ToSet
<1>5. IsFiniteSet(S) /\ c <= Len(s) BY <1>3, <1>4, FS_Surjection
<1>6. c \in Nat BY <1>5, FS_CardinalityType
<1>7. t \in [1..c -> S] /\ \A i, j \in 1..c : i # j => t[i] # t[j] BY DEF SetToSeqs
<1> HIDE DEF S, c
<1>8. t \in Seq(S) /\ Len(t) = c BY <1>6, <1>7
<1>9. t \in Seq(Photo) BY <1>2, <1>8, SeqMonotonic
<1>10. DOMAIN t = 1..c BY <1>7
<1>11. IsTray(t) /\ Len(t) <= Len(s)
  BY <1>1, <1>5, <1>6, <1>8, <1>9, QueueAssumption DEF IsTray
<1>12. ToSet(t) \subseteq S BY <1>7 DEF ToSet
<1>13. NoTwice(t) BY <1>7, <1>10 DEF NoTwice
<1> QED BY <1>11, <1>12, <1>13 DEF S

-----------------------------------------------------------------------------
(* The rows of the server: what every step of theirs keeps.                 *)

RowsStay ==
    \A j \in Job : row[j] # NoJobRow =>
        /\ row'[j] # NoJobRow /\ row'[j].of = row[j].of
        /\ row[j].draft # NoDraft => row'[j].draft = row[j].draft

RowStep == JobTypeOK' /\ RowsAreHonest' /\ RowsStay

LEMMA RowsHaveFields ==
    ASSUME JobTypeOK, NEW j \in Job, row[j] # NoJobRow
    PROVE  /\ row[j] \in JobRow
           /\ row[j].of \in Draft /\ row[j].draft \in Draft
           /\ row[j].status \in {"RUNNING", "READY", "FAILED"}
BY DEF JobTypeOK, JobRow

LEMMA StillRows ==
    ASSUME JobTypeOK, RowsAreHonest, UNCHANGED row,
           work' \in [Job -> {"none", "analyzing", "written", "broken"}],
           old' \subseteq Job, expiring' \subseteq Job, crashes' \in 0..MaxCrashes,
           \A j \in Job : row[j] = NoJobRow => work'[j] = "none" /\ j \notin expiring'
    PROVE  RowStep
BY DEF RowStep, JobTypeOK, RowsAreHonest, RowsStay

\* A row that is there gets a status, and its draft or the one it had.
LEMMA OneRowIsUpdated ==
    ASSUME JobTypeOK, RowsAreHonest, NEW j \in Job, row[j] # NoJobRow, NEW c \in JobRow,
           row' = [row EXCEPT ![j] = c],
           c.of = row[j].of, c.draft \in {row[j].of, row[j].draft},
           c.status = "READY" => c.draft = c.of,
           work' \in [Job -> {"none", "analyzing", "written", "broken"}],
           \A i \in Job \ {j} : work'[i] = work[i],
           UNCHANGED <<old, crashes>>, expiring' \subseteq expiring
    PROVE  RowStep
<1>1. c # NoJobRow BY NoJobRowAssumption
<1>2. JobTypeOK' BY DEF JobTypeOK
<1>3. row'[j] = c /\ \A i \in Job \ {j} : row'[i] = row[i] BY DEF JobTypeOK
<1>4. RowsAreHonest' BY <1>1, <1>3 DEF RowsAreHonest
<1>5. RowsStay BY <1>1, <1>3 DEF RowsStay, RowsAreHonest
<1> QED BY <1>2, <1>4, <1>5 DEF RowStep

LEMMA RowIsCreated ==
    ASSUME JobTypeOK, RowsAreHonest, NEW j \in Job, NEW photos \in SUBSET Photo,
           StartDraft(j, photos)
    PROVE  /\ RowStep
           /\ row[j] = NoJobRow /\ row'[j] # NoJobRow /\ row'[j].of = photos
<1> DEFINE c == [of |-> photos, status |-> "RUNNING", draft |-> NoDraft]
<1>1. c \in JobRow /\ c # NoJobRow BY NoJobRowAssumption DEF JobRow, Draft, NoDraft
<1>2. /\ row' = [row EXCEPT ![j] = c] /\ row[j] = NoJobRow
      /\ work' = [work EXCEPT ![j] = "analyzing"] /\ UNCHANGED <<old, expiring, crashes>>
  BY DEF StartDraft
<1>3. c.of = photos /\ c.draft = NoDraft /\ c.status = "RUNNING" OBVIOUS
<1> HIDE DEF c
<1>4. row'[j] = c /\ \A i \in Job \ {j} : row'[i] = row[i] BY <1>2 DEF JobTypeOK
<1>5. work'[j] = "analyzing" /\ \A i \in Job \ {j} : work'[i] = work[i] BY <1>2 DEF JobTypeOK
<1>6. JobTypeOK' BY <1>1, <1>2 DEF JobTypeOK
<1>7. RowsAreHonest' BY <1>1, <1>2, <1>3, <1>4, <1>5 DEF RowsAreHonest
<1>8. RowsStay BY <1>1, <1>2, <1>4 DEF RowsStay
<1> QED BY <1>1, <1>2, <1>3, <1>4, <1>6, <1>7, <1>8 DEF RowStep

LEMMA WorkKeepsRows ==
    ASSUME JobTypeOK, RowsAreHonest, NEW j \in Job, Work(j)
    PROVE  RowStep
<1>1. ASSUME work[j] # "none" PROVE row[j] # NoJobRow BY <1>1 DEF RowsAreHonest
<1>2. CASE ModelAnswers(j) BY <1>1, <1>2, StillRows DEF ModelAnswers, JobTypeOK, RowsAreHonest
<1>3. CASE ModelFails(j) BY <1>1, <1>3, StillRows DEF ModelFails, JobTypeOK, RowsAreHonest
<1>4. CASE RecordDraft(j)
  <2>1. row[j] # NoJobRow BY <1>1, <1>4 DEF RecordDraft
  <2> DEFINE c == [row[j] EXCEPT !.status = "READY", !.draft = row[j].of]
  <2>2. c \in JobRow /\ c.of = row[j].of /\ c.draft = row[j].of
    BY <2>1, RowsHaveFields DEF JobRow
  <2>3. row' = [row EXCEPT ![j] = c] BY <1>4, <2>1 DEF RecordDraft, JobTypeOK
  <2> HIDE DEF c
  <2> QED BY <1>4, <2>1, <2>2, <2>3, OneRowIsUpdated DEF RecordDraft, JobTypeOK
<1>5. CASE RecordDraftFails(j)
  BY <1>1, <1>5, StillRows DEF RecordDraftFails, JobTypeOK, RowsAreHonest
<1>6. CASE RecordFailure(j)
  <2>1. row[j] # NoJobRow BY <1>1, <1>6 DEF RecordFailure
  <2> DEFINE c == [row[j] EXCEPT !.status = "FAILED"]
  <2>2. c \in JobRow /\ c.of = row[j].of /\ c.draft = row[j].draft /\ c.status = "FAILED"
    BY <2>1, RowsHaveFields DEF JobRow
  <2>3. row' = [row EXCEPT ![j] = c] BY <1>6, <2>1 DEF RecordFailure, JobTypeOK
  <2> HIDE DEF c
  <2> QED BY <1>6, <2>1, <2>2, <2>3, OneRowIsUpdated DEF RecordFailure, JobTypeOK
<1>7. CASE Age(j) BY <1>7, StillRows DEF Age, JobTypeOK, RowsAreHonest
<1> QED BY <1>2, <1>3, <1>4, <1>5, <1>6, <1>7 DEF Work

LEMMA StalenessKeepsRows ==
    ASSUME JobTypeOK, RowsAreHonest, NEW j \in Job
    PROVE  /\ SeeStale(j) => RowStep
           /\ MarkStale(j) => RowStep
<1>1. ASSUME SeeStale(j) PROVE RowStep
  BY <1>1, StillRows DEF SeeStale, JobTypeOK, RowsAreHonest
<1>2. ASSUME MarkStale(j) PROVE RowStep
  <2>1. row[j] # NoJobRow BY <1>2 DEF MarkStale, RowsAreHonest
  <2> DEFINE c == [row[j] EXCEPT !.status = "FAILED"]
  <2>2. c \in JobRow /\ c.of = row[j].of /\ c.draft = row[j].draft /\ c.status = "FAILED"
    BY <2>1, RowsHaveFields DEF JobRow
  <2>3. row' = [row EXCEPT ![j] = c] BY <1>2, <2>1 DEF MarkStale, JobTypeOK
  <2> HIDE DEF c
  <2> QED BY <1>2, <2>1, <2>2, <2>3, OneRowIsUpdated DEF MarkStale, JobTypeOK
<1> QED BY <1>1, <1>2

LEMMA RestartKeepsRows ==
    ASSUME JobTypeOK, RowsAreHonest, ServerRestarts
    PROVE  RowStep
BY StillRows, DraftJobAssumption DEF ServerRestarts, JobTypeOK

-----------------------------------------------------------------------------
(* The queue: what most steps keep.                                         *)

LEMMA CardFields ==
    ASSUME NEW c \in Card
    PROVE  /\ c # NoCard
           /\ c.id \in Id /\ c.photos \in Photos /\ c.draft \in Draft
           /\ c.status \in {"running", "ready", "failed"}
BY QueueValuesAssumption DEF Card

LEMMA CardsHaveFields ==
    ASSUME TypeOK, NEW k \in Photo, card[k] # NoCard
    PROVE  /\ card[k] \in Card
           /\ card[k].id \in Id /\ card[k].photos \in Photos /\ card[k].draft \in Draft
           /\ card[k].status \in {"running", "ready", "failed"}
<1>1. card[k] \in Card BY DEF TypeOK
<1> QED BY <1>1, CardFields

\* A card whose loop is on its way waits, and is the only one of its id.
LEMMA LoopsHaveACard ==
    ASSUME QueueInv, NEW i \in Id, poll[i].at # "none"
    PROVE  \E k \in Photo :
              /\ InStatus(k, "running") /\ card[k].id = i /\ start[k] = "none" /\ Known(i)
              /\ \A q \in Photo \ {k} : card[q] # NoCard => card[q].id # i
<1>1. PICK k \in Photo : InStatus(k, "running") /\ card[k].id = i BY DEF QueueInv, EachWaitsOnce
<1>2. card[k] # NoCard /\ Known(i) BY <1>1 DEF InStatus, Known
<1>3. start[k] = "none" BY <1>1 DEF QueueInv, EachWaitsOnce
<1>4. \A q \in Photo \ {k} : card[q] # NoCard => card[q].id # i
  BY <1>1, <1>2 DEF QueueInv, IdsAreOwn
<1> QED BY <1>1, <1>2, <1>3, <1>4

\* A card that has its request on its way is there, and its id has no loop.
LEMMA RequestsHaveACard ==
    ASSUME QueueInv, NEW k \in Photo, start[k] # "none"
    PROVE  InStatus(k, "running") /\ card[k] # NoCard /\ poll[card[k].id].at = "none" /\ open
BY DEF QueueInv, EachWaitsOnce, InStatus

\* The camera and the tray change nothing of the queue.
LEMMA CameraStep ==
    ASSUME QueueInv, UNCHANGED <<jobVars, card, start, poll, open>>,
           TrayIsNew', tray' \in Photos \cup {<<>>}, shooting' \in Photo \cup {NoPhoto},
           taken' \subseteq Photo, taken \subseteq taken',
           \A p \in ToSet(tray') : p \in ToSet(tray) \cup {shooting},
           shooting' \in {shooting, NoPhoto} \/ shooting' \notin taken
    PROVE  QueueInv'
<1>1. TypeOK' BY DEF QueueInv, TypeOK, JobTypeOK, jobVars
<1>2. CardsAreApart'
  <2>1. ASSUME NEW k \in Photo, card[k] # NoCard
        PROVE  ToSet(card[k].photos) \cap ToSet(tray') = {}
    BY <2>1 DEF QueueInv, CardsAreApart
  <2>2. ASSUME NEW k \in Photo, card[k] # NoCard
        PROVE  shooting' \notin ToSet(card[k].photos)
    <3>1. ToSet(card[k].photos) \subseteq Photo BY <2>2, CardsHaveFields, FullTray DEF QueueInv
    <3> QED BY <2>2, <3>1, QueueAssumption DEF QueueInv, CardsAreApart
  <2> QED BY <2>1, <2>2 DEF QueueInv, CardsAreApart
<1>3. RowsAreHonest' BY DEF QueueInv, RowsAreHonest, jobVars
<1>4. IdsAreOwn' BY DEF QueueInv, IdsAreOwn, jobVars
<1>5. EachWaitsOnce' BY DEF QueueInv, EachWaitsOnce, InStatus
<1>6. AnswersAreHonest' BY DEF QueueInv, AnswersAreHonest, jobVars
<1>7. ReadyIsItsDraft' BY DEF QueueInv, ReadyIsItsDraft, InStatus
<1>8. EveryRunningCardIsFollowed' BY DEF QueueInv, EveryRunningCardIsFollowed, InStatus
<1> QED BY <1>1, <1>2, <1>3, <1>4, <1>5, <1>6, <1>7, <1>8 DEF QueueInv

LEMMA CameraKeeps ==
    ASSUME QueueInv
    PROVE  /\ \A p \in Photo : TakePhoto(p) \/ RemovePhoto(p) => QueueInv'
           /\ PhotoIsReady \/ CameraFails \/ ReorderPhotos => QueueInv'
<1> USE QueueAssumption
<1>1. /\ IsTray(tray) /\ NoTwice(tray) /\ ToSet(tray) \subseteq taken
      /\ tray \in Photos \cup {<<>>} /\ shooting \in Photo \cup {NoPhoto} /\ taken \subseteq Photo
  BY TraysAreSequences DEF QueueInv, TypeOK, TrayIsNew, NoTwice
<1>2. Len(tray) \in Nat BY <1>1, LenProperties DEF IsTray
<1>3. ASSUME NEW p \in Photo, TakePhoto(p) PROVE QueueInv'
  <2>1. /\ tray' = tray /\ shooting' = p /\ taken' = taken \cup {p} /\ p \notin taken
        /\ Len(tray) < MaxPhotos
        /\ UNCHANGED <<jobVars, card, start, poll, open>>
    BY <1>3 DEF TakePhoto
  <2>2. TrayIsNew' BY <1>1, <2>1 DEF TrayIsNew, NoTwice
  <2> QED BY <1>1, <2>1, <2>2, CameraStep
<1>4. ASSUME NEW p \in Photo, RemovePhoto(p) PROVE QueueInv'
  <2>1. /\ shooting' = shooting /\ taken' = taken
        /\ UNCHANGED <<jobVars, card, start, poll, open>>
    BY <1>4 DEF RemovePhoto
  <2>2. PICK n \in DOMAIN tray : tray' = RemoveAt(tray, n) BY <1>4 DEF RemovePhoto
  <2>3. /\ IsTray(tray') /\ NoTwice(tray') /\ Len(tray') <= Len(tray)
        /\ ToSet(tray') \subseteq ToSet(tray)
    BY <1>1, <2>2, TrayShrinks
  <2>4. tray' \in Photos \cup {<<>>} /\ Len(tray') \in Nat
    BY <2>3, TraysAreSequences, LenProperties DEF IsTray
  <2>5. TrayIsNew' BY <1>1, <1>2, <2>1, <2>3, <2>4 DEF QueueInv, TrayIsNew, NoTwice
  <2> QED BY <1>1, <2>1, <2>3, <2>4, <2>5, CameraStep
<1>5. ASSUME PhotoIsReady PROVE QueueInv'
  <2>1. /\ tray' = Append(tray, shooting) /\ shooting' = NoPhoto /\ taken' = taken
        /\ shooting # NoPhoto /\ UNCHANGED <<jobVars, card, start, poll, open>>
    BY <1>5 DEF PhotoIsReady
  <2>2. shooting \in taken /\ shooting \notin ToSet(tray) /\ Len(tray) < MaxPhotos
    BY <2>1 DEF QueueInv, TrayIsNew
  <2>3. IsTray(tray') /\ NoTwice(tray') /\ ToSet(tray') = ToSet(tray) \cup {shooting}
    BY <1>1, <2>1, <2>2, TrayGrows
  <2>4. tray' \in Photos \cup {<<>>} BY <2>3, TraysAreSequences
  <2>5. TrayIsNew' BY <1>1, <2>1, <2>2, <2>3 DEF TrayIsNew, NoTwice
  <2> QED BY <1>1, <2>1, <2>3, <2>4, <2>5, CameraStep
<1>6. ASSUME CameraFails PROVE QueueInv'
  <2>1. /\ tray' = tray /\ shooting' = NoPhoto /\ taken' = taken
        /\ UNCHANGED <<jobVars, card, start, poll, open>>
    BY <1>6 DEF CameraFails
  <2>2. TrayIsNew' BY <1>1, <2>1 DEF TrayIsNew, NoTwice
  <2> QED BY <1>1, <2>1, <2>2, CameraStep
<1>7. ASSUME ReorderPhotos PROVE QueueInv'
  <2>1. /\ tray' \in SetToSeqs(ToSet(tray)) /\ shooting' = shooting /\ taken' = taken
        /\ UNCHANGED <<jobVars, card, start, poll, open>>
    BY <1>7 DEF ReorderPhotos
  <2>2. /\ IsTray(tray') /\ NoTwice(tray') /\ Len(tray') <= Len(tray)
        /\ ToSet(tray') \subseteq ToSet(tray)
    BY <1>1, <2>1, TrayReordered
  <2>3. tray' \in Photos \cup {<<>>} /\ Len(tray') \in Nat
    BY <2>2, TraysAreSequences, LenProperties DEF IsTray
  <2>4. TrayIsNew' BY <1>1, <1>2, <2>1, <2>2, <2>3 DEF QueueInv, TrayIsNew, NoTwice
  <2> QED BY <1>1, <2>1, <2>2, <2>3, <2>4, CameraStep
<1> QED BY <1>3, <1>4, <1>5, <1>6, <1>7

\* Rows and tray apart, a step is one of the cards, their requests and their
\* loops.  The photos and the ids that a card keeps stay its own.
LEMMA PhotosStay ==
    ASSUME CardsAreApart, UNCHANGED <<tray, shooting, taken>>,
           \A k \in Photo : card'[k] # NoCard =>
               card[k] # NoCard /\ card'[k].photos = card[k].photos
    PROVE  CardsAreApart'
BY DEF CardsAreApart

LEMMA IdsStay ==
    ASSUME QueueInv, RowsStay,
           \A k \in Photo : card'[k] # NoCard =>
               card[k] # NoCard /\ card'[k].photos = card[k].photos /\ card'[k].id = card[k].id,
           \A k \in Photo : start'[k] \in Job => start'[k] = start[k] /\ card'[k] # NoCard
    PROVE  IdsAreOwn'
<1>1. ASSUME NEW k \in Photo, card'[k] # NoCard
      PROVE  /\ card'[k].id \in Photo => card'[k].id = k
             /\ card'[k].id \in Job => /\ row'[card'[k].id] # NoJobRow
                                       /\ row'[card'[k].id].of = Selected(card'[k].photos)
  BY <1>1 DEF QueueInv, IdsAreOwn, RowsStay
<1>2. ASSUME NEW k \in Photo, start'[k] \in Job
      PROVE  /\ row'[start'[k]] # NoJobRow /\ row'[start'[k]].of = Selected(card'[k].photos)
             /\ \A q \in Photo : card'[q] # NoCard => card'[q].id # start'[k]
  BY <1>2 DEF QueueInv, IdsAreOwn, RowsStay
<1>3. \A k, q \in Photo : start'[k] \in Job /\ start'[k] = start'[q] => k = q
  BY DEF QueueInv, IdsAreOwn
<1>4. \A k, q \in Photo :
         card'[k] # NoCard /\ card'[q] # NoCard /\ card'[k].id = card'[q].id => k = q
  BY DEF QueueInv, IdsAreOwn
<1> QED BY <1>1, <1>2, <1>3, <1>4 DEF IdsAreOwn

\* An answer stays true of the rows as they change.
LEMMA AnswersStay ==
    ASSUME QueueInv, RowsStay,
           \A i \in Id : poll'[i].at = "answered" /\ poll'[i].status = "ready" =>
               \/ poll'[i] = poll[i]
               \/ i \in Job /\ poll'[i].draft = row'[i].of
    PROVE  AnswersAreHonest'
<1> SUFFICES ASSUME NEW i \in Id, poll'[i].at = "answered", poll'[i].status = "ready"
             PROVE  i \in Job /\ poll'[i].draft = row'[i].of
  BY DEF AnswersAreHonest
<1>1. CASE poll'[i] = poll[i]
  <2>1. i \in Job /\ poll[i].draft = row[i].of BY <1>1 DEF QueueInv, AnswersAreHonest
  <2>2. PICK k \in Photo : card[k] # NoCard /\ card[k].id = i
    BY <1>1, LoopsHaveACard DEF InStatus
  <2>3. row[i] # NoJobRow BY <2>1, <2>2 DEF QueueInv, IdsAreOwn
  <2> QED BY <1>1, <2>1, <2>3 DEF RowsStay
<1> QED BY <1>1

-----------------------------------------------------------------------------
(* The server and the loops.                                                *)

LEMMA ServerStep ==
    ASSUME QueueInv, RowStep, UNCHANGED phoneVars
    PROVE  QueueInv'
<1>1. TypeOK' BY DEF QueueInv, TypeOK, RowStep, phoneVars
<1>2. TrayIsNew' BY DEF QueueInv, TrayIsNew, phoneVars
<1>3. CardsAreApart' BY PhotosStay DEF QueueInv, phoneVars
<1>4. IdsAreOwn'
  <2>1. \A k \in Photo : start[k] \in Job => card[k] # NoCard
    BY RequestsHaveACard, QueueValuesAssumption
  <2> QED BY <2>1, IdsStay DEF RowStep, phoneVars
<1>5. EachWaitsOnce' BY DEF QueueInv, EachWaitsOnce, InStatus, phoneVars
<1>6. AnswersAreHonest' BY AnswersStay DEF RowStep, phoneVars
<1>7. ReadyIsItsDraft' BY DEF QueueInv, ReadyIsItsDraft, InStatus, phoneVars
<1>8. EveryRunningCardIsFollowed'
  BY DEF QueueInv, EveryRunningCardIsFollowed, InStatus, phoneVars
<1> QED BY <1>1, <1>2, <1>3, <1>4, <1>5, <1>6, <1>7, <1>8 DEF QueueInv, RowStep

LEMMA NoRowChanges ==
    ASSUME QueueInv, UNCHANGED jobVars
    PROVE  RowStep
BY StillRows DEF QueueInv, TypeOK, JobTypeOK, RowsAreHonest, jobVars

\* A loop that is on its way goes on.
LEMMA LoopStep ==
    ASSUME QueueInv, RowStep, UNCHANGED <<tray, shooting, taken, card, start, open>>,
           NEW i \in Id, NEW v \in Loop, poll' = [poll EXCEPT ![i] = v],
           poll[i].at # "none", v.at # "none",
           v.at = "answered" /\ v.status = "ready" => i \in Job /\ v.draft = row'[i].of
    PROVE  QueueInv'
<1>1. TypeOK' BY DEF QueueInv, TypeOK, RowStep
<1>2. TrayIsNew' BY DEF QueueInv, TrayIsNew
<1>3. CardsAreApart' BY PhotosStay DEF QueueInv
<1>4. IdsAreOwn'
  <2>1. \A k \in Photo : start[k] \in Job => card[k] # NoCard
    BY RequestsHaveACard, QueueValuesAssumption
  <2> QED BY <2>1, IdsStay DEF RowStep
<1>5. poll'[i] = v /\ \A l \in Id \ {i} : poll'[l] = poll[l] BY DEF QueueInv, TypeOK
<1>6. \A l \in Id : poll'[l].at = "none" <=> poll[l].at = "none" BY <1>5
<1>7. \A k \in Photo : card[k] # NoCard => card[k].id \in Id BY CardsHaveFields DEF QueueInv
<1>8. EachWaitsOnce'
  BY <1>6, <1>7 DEF QueueInv, EachWaitsOnce, InStatus
<1>9. AnswersAreHonest' BY <1>5, AnswersStay DEF RowStep
<1>10. ReadyIsItsDraft' BY DEF QueueInv, ReadyIsItsDraft, InStatus
<1>11. EveryRunningCardIsFollowed'
  BY <1>6, <1>7 DEF QueueInv, EveryRunningCardIsFollowed, InStatus
<1> QED BY <1>1, <1>2, <1>3, <1>4, <1>8, <1>9, <1>10, <1>11 DEF QueueInv, RowStep

\* The only card of an id is settled, and its loop ends.
LEMMA CardSettles ==
    ASSUME QueueInv, UNCHANGED <<jobVars, tray, shooting, taken, start, open>>,
           NEW i \in Id, poll[i].at # "none", poll' = [poll EXCEPT ![i] = At("none")],
           NEW s \in {"ready", "failed"}, NEW d \in Draft,
           \/ card' = [k \in Photo |-> IF card[k] # NoCard /\ card[k].id = i
                                       THEN [card[k] EXCEPT !.status = s, !.draft = d]
                                       ELSE card[k]]
           \/ card' = [k \in Photo |-> IF card[k] # NoCard /\ card[k].id = i
                                       THEN [card[k] EXCEPT !.status = s]
                                       ELSE card[k]],
           s = "ready" => /\ card' = Updated(i, s, d)
                          /\ i \in Job /\ d = row[i].of
    PROVE  QueueInv'
<1>1. PICK k \in Photo :
         /\ InStatus(k, "running") /\ card[k].id = i /\ start[k] = "none"
         /\ \A q \in Photo \ {k} : card[q] # NoCard => card[q].id # i
  BY LoopsHaveACard
<1>2. card[k] # NoCard /\ card[k] \in Card /\ card[k].photos \in Photos
  BY <1>1, CardsHaveFields DEF InStatus, QueueInv
<1>3. \A q \in Photo \ {k} : card'[q] = card[q] BY <1>1
<1>4. /\ card'[k] \in Card /\ card'[k].id = i /\ card'[k].photos = card[k].photos
      /\ card'[k].status = s
      /\ s = "ready" => card'[k].draft = d
  BY <1>1, <1>2 DEF Card, Updated
<1>5. card'[k] # NoCard BY <1>4, QueueValuesAssumption
<1>6. card' \in [Photo -> Card \cup {NoCard}]
  <2>1. card' = [q \in Photo |-> card'[q]] OBVIOUS
  <2>2. \A q \in Photo : card'[q] \in Card \cup {NoCard}
    BY <1>3, <1>4 DEF QueueInv, TypeOK
  <2> QED BY <2>1, <2>2
<1>7. At("none") \in Loop /\ At("none").at = "none" BY DEF At, Loop, Draft, NoDraft
<1>8. poll'[i].at = "none" /\ \A l \in Id \ {i} : poll'[l] = poll[l]
  BY <1>7 DEF QueueInv, TypeOK
<1>9. RowStep BY NoRowChanges
<1>10. TypeOK' BY <1>6, <1>7, <1>9 DEF QueueInv, TypeOK, RowStep
<1>11. TrayIsNew' BY DEF QueueInv, TrayIsNew
<1>12. \A q \in Photo : card'[q] # NoCard =>
          card[q] # NoCard /\ card'[q].photos = card[q].photos /\ card'[q].id = card[q].id
  BY <1>1, <1>2, <1>3, <1>4
<1>13. CardsAreApart' BY <1>12, PhotosStay DEF QueueInv
<1>14. IdsAreOwn'
  <2>1. \A q \in Photo : start[q] \in Job => card'[q] # NoCard
    BY <1>3, <1>5, RequestsHaveACard, QueueValuesAssumption
  <2> QED BY <1>9, <1>12, <2>1, IdsStay DEF RowStep
<1>15. EachWaitsOnce'
  <2>1. ASSUME NEW q \in Photo, start[q] # "none"
        PROVE  InStatus(q, "running")' /\ poll'[card'[q].id].at = "none"
    <3>1. q # k /\ InStatus(q, "running") /\ card[q] # NoCard /\ poll[card[q].id].at = "none"
      BY <1>1, <2>1, RequestsHaveACard
    <3> QED BY <1>3, <1>8, <3>1, CardsHaveFields DEF InStatus, QueueInv
  <2>2. ASSUME NEW l \in Id, poll'[l].at # "none"
        PROVE  \E q \in Photo : InStatus(q, "running")' /\ card'[q].id = l
    <3>1. l # i /\ poll[l].at # "none" BY <1>8, <2>2
    <3>2. PICK q \in Photo : InStatus(q, "running") /\ card[q].id = l
      BY <3>1 DEF QueueInv, EachWaitsOnce
    <3>3. q # k BY <1>1, <3>1, <3>2
    <3> QED BY <1>3, <3>2, <3>3 DEF InStatus
  <2>3. open' \/ \A q \in Photo : start'[q] = "none" BY DEF QueueInv, EachWaitsOnce
  <2>4. open' \/ \A l \in Id : poll'[l].at = "none" BY <1>8 DEF QueueInv, EachWaitsOnce
  <2> QED BY <2>1, <2>2, <2>3, <2>4 DEF EachWaitsOnce
<1>16. AnswersAreHonest'
  <2>1. \A l \in Id : poll'[l].at = "answered" => poll'[l] = poll[l] BY <1>8
  <2> QED BY <1>9, <2>1, AnswersStay DEF RowStep
<1>17. ReadyIsItsDraft'
  <2>1. s = "ready" => card'[k].draft = Selected(card'[k].photos)
    BY <1>1, <1>2, <1>4 DEF QueueInv, IdsAreOwn
  <2> QED BY <1>3, <1>4, <2>1 DEF QueueInv, ReadyIsItsDraft, InStatus
<1>18. EveryRunningCardIsFollowed'
  <2> SUFFICES ASSUME open, NEW q \in Photo, InStatus(q, "running")'
               PROVE  start[q] # "none" \/ poll'[card'[q].id].at # "none"
    BY DEF EveryRunningCardIsFollowed
  <2>1. q # k BY <1>4 DEF InStatus
  <2>2. InStatus(q, "running") /\ card[q] # NoCard /\ card'[q] = card[q]
    BY <1>3, <2>1 DEF InStatus
  <2>3. card[q].id # i /\ card[q].id \in Id
    BY <1>1, <2>1, <2>2, CardsHaveFields DEF QueueInv
  <2>4. poll'[card'[q].id] = poll[card[q].id] BY <1>8, <2>2, <2>3
  <2>5. start[q] # "none" \/ poll[card[q].id].at # "none"
    BY <2>2 DEF QueueInv, EveryRunningCardIsFollowed
  <2> QED BY <2>4, <2>5
<1> QED BY <1>9, <1>10, <1>11, <1>13, <1>14, <1>15, <1>16, <1>17, <1>18 DEF QueueInv, RowStep

LEMMA PollingKeeps ==
    ASSUME QueueInv, NEW i \in Id, Polling(i)
    PROVE  QueueInv'
<1> USE DEF SetPoll
<1>1. /\ \A a \in {"none", "due", "asked", "stale"} : At(a) \in Loop /\ At(a).at = a
      /\ \A s \in {"running", "ready", "failed", "not_found"}, d \in Draft :
            /\ Answer(s, d) \in Loop /\ Answer(s, d).at = "answered"
            /\ Answer(s, d).status = s /\ Answer(s, d).draft = d
  BY DEF At, Answer, Loop, Draft, NoDraft
<1>2. poll[i] \in Loop /\ poll[i].draft \in Draft BY DEF QueueInv, TypeOK, Loop
<1>3. UNCHANGED jobVars => RowStep BY NoRowChanges
<1>4. poll[i].at # "none" => Known(i) BY LoopsHaveACard
<1>5. CASE Tick(i)
  <2>1. poll' = [poll EXCEPT ![i] = At("asked")] /\ poll[i].at # "none"
    BY <1>4, <1>5 DEF Tick
  <2> QED BY <1>1, <1>3, <1>5, <2>1, LoopStep DEF Tick
<1>6. CASE NoSuchJob(i)
  <2>1. NoDraft \in Draft BY DEF NoDraft, Draft
  <2>2. Answer("not_found", NoDraft) \in Loop /\ Answer("not_found", NoDraft).at = "answered"
        /\ Answer("not_found", NoDraft).status = "not_found"
    BY <1>1, <2>1
  <2> QED BY <1>3, <1>6, <2>2, LoopStep DEF NoSuchJob, Asked
<1>7. CASE ReadJob(i)
  <2>1. i \in Job /\ poll[i].at = "asked" /\ poll' = [poll EXCEPT ![i] = AnswerOf(i)]
        /\ UNCHANGED <<jobVars, card, tray, shooting, taken, start, open>>
    BY <1>7 DEF ReadJob, Asked
  <2>2. row[i] # NoJobRow
    <3>1. PICK k \in Photo : card[k] # NoCard /\ card[k].id = i
      BY <2>1, LoopsHaveACard DEF InStatus
    <3> QED BY <2>1, <3>1 DEF QueueInv, IdsAreOwn
  <2>3. /\ row[i].status \in {"RUNNING", "READY", "FAILED"} /\ row[i].draft \in Draft
        /\ row[i].status = "READY" => row[i].draft = row[i].of
    BY <2>1, <2>2, RowsHaveFields DEF QueueInv, TypeOK, RowsAreHonest
  <2> DEFINE s == [RUNNING |-> "running", READY |-> "ready", FAILED |-> "failed"][row[i].status]
  <2>4. s \in {"running", "ready", "failed"} /\ (s = "ready" => row[i].status = "READY")
    BY <2>3
  <2>5. AnswerOf(i) = Answer(s, row[i].draft) BY DEF AnswerOf
  <2> HIDE DEF s
  <2>6. /\ AnswerOf(i) \in Loop /\ AnswerOf(i).at = "answered"
        /\ AnswerOf(i).status = "ready" => AnswerOf(i).draft = row[i].of
    BY <1>1, <2>3, <2>4, <2>5
  <2>7. row' = row BY <2>1 DEF jobVars
  <2> QED BY <1>3, <2>1, <2>6, <2>7, LoopStep
<1>8. CASE ReadStaleJob(i)
  <2>1. i \in Job /\ SeeStale(i) BY <1>8 DEF ReadStaleJob
  <2>2. RowStep BY <2>1, StalenessKeepsRows DEF QueueInv, TypeOK
  <2> QED BY <1>1, <1>8, <2>2, LoopStep DEF ReadStaleJob, Asked
<1>9. CASE PollAnswered(i)
  <2>1. poll[i].at = "answered" /\ Known(i) /\ UNCHANGED jobVars
        /\ UNCHANGED <<tray, shooting, taken, start, open>>
    BY <1>4, <1>9 DEF PollAnswered
  <2>2. CASE poll[i].status = "running"
    <3>1. poll' = [poll EXCEPT ![i] = At("due")] /\ UNCHANGED card
      BY <1>9, <2>1, <2>2 DEF PollAnswered
    <3> QED BY <1>1, <1>3, <2>1, <3>1, LoopStep
  <2>3. CASE poll[i].status \in {"ready", "failed"}
    <3>1. /\ poll' = [poll EXCEPT ![i] = At("none")]
          /\ card' = Updated(i, poll[i].status, poll[i].draft)
      BY <1>9, <2>1, <2>3 DEF PollAnswered
    <3>2. poll[i].status = "ready" => i \in Job /\ poll[i].draft = row[i].of
      BY <2>1 DEF QueueInv, AnswersAreHonest
    <3>3. card' = [k \in Photo |-> IF card[k] # NoCard /\ card[k].id = i
                      THEN [card[k] EXCEPT !.status = poll[i].status, !.draft = poll[i].draft]
                      ELSE card[k]]
      BY <3>1 DEF Updated
    <3> DEFINE s == poll[i].status
               d == poll[i].draft
    <3>4. s \in {"ready", "failed"} /\ d \in Draft BY <1>2, <2>3
    <3>5. s = "ready" => card' = Updated(i, s, d) /\ i \in Job /\ d = row[i].of BY <3>1, <3>2
    <3>6. card' = [k \in Photo |-> IF card[k] # NoCard /\ card[k].id = i
                                   THEN [card[k] EXCEPT !.status = s, !.draft = d]
                                   ELSE card[k]]
      BY <3>3
    <3>7. poll[i].at # "none" /\ poll' = [poll EXCEPT ![i] = At("none")] BY <2>1, <3>1
    <3> HIDE DEF s, d
    <3> QED BY <2>1, <3>4, <3>5, <3>6, <3>7, CardSettles
  <2>4. CASE poll[i].status = "not_found"
    <3>1. /\ poll' = [poll EXCEPT ![i] = At("none")]
          /\ card' = [k \in Photo |-> IF card[k] # NoCard /\ card[k].id = i
                                      THEN [card[k] EXCEPT !.status = "failed"]
                                      ELSE card[k]]
      BY <1>9, <2>1, <2>4 DEF PollAnswered
    <3> QED BY <1>2, <2>1, <3>1, CardSettles
  <2>5. poll[i].status \in {"running", "ready", "failed", "not_found"} BY <1>2 DEF Loop
  <2> QED BY <2>2, <2>3, <2>4, <2>5
<1>10. CASE PollFails(i) BY <1>1, <1>3, <1>10, LoopStep DEF PollFails
<1> QED BY <1>5, <1>6, <1>7, <1>8, <1>9, <1>10 DEF Polling, Reached

LEMMA ExpireKeeps ==
    ASSUME QueueInv, NEW j \in Job, ExpireJob(j)
    PROVE  QueueInv'
<1>1. RowStep BY StalenessKeepsRows DEF ExpireJob, QueueInv, TypeOK
<1>2. UNCHANGED <<tray, shooting, taken, card, start, open>> BY DEF ExpireJob, SetPoll
<1>3. j \in Id BY DEF Id
<1>4. CASE poll[j].at = "stale"
  <2> DEFINE v == Answer("failed", row[j].draft)
  <2>1. poll' = [poll EXCEPT ![j] = v] BY <1>4 DEF ExpireJob, SetPoll
  <2>2. row[j] # NoJobRow BY DEF ExpireJob, MarkStale, QueueInv, RowsAreHonest
  <2>3. row[j].draft \in Draft BY <2>2, RowsHaveFields DEF QueueInv, TypeOK
  <2>4. v \in Loop /\ v.at = "answered" /\ v.status = "failed" BY <2>3 DEF Answer, Loop
  <2> HIDE DEF v
  <2> QED BY <1>1, <1>2, <1>3, <1>4, <2>1, <2>4, LoopStep
<1>5. CASE poll[j].at # "stale"
  <2>1. poll' = poll BY <1>3, <1>5 DEF ExpireJob, SetPoll, QueueInv, TypeOK
  <2> QED BY <1>1, <1>2, <2>1, ServerStep DEF phoneVars
<1> QED BY <1>4, <1>5

-----------------------------------------------------------------------------
(* The requests and the user.                                               *)

\* One card of the queue is written; what is asked for it may change with it.
LEMMA OneCardChanges ==
    ASSUME QueueInv, NEW k \in Photo, NEW c \in Card \cup {NoCard},
           card' = [card EXCEPT ![k] = c]
    PROVE  /\ card' \in [Photo -> Card \cup {NoCard}]
           /\ card'[k] = c /\ \A q \in Photo \ {k} : card'[q] = card[q]
BY DEF QueueInv, TypeOK

\* The first photo of a tray is on no card, and is the id of no loop.
LEMMA FirstPhotoIsFree ==
    ASSUME QueueInv, tray # <<>>
    PROVE  /\ tray \in Photos /\ tray[1] \in Photo /\ tray[1] \in ToSet(tray)
           /\ ToSet(tray) \subseteq Photo
           /\ card[tray[1]] = NoCard /\ start[tray[1]] = "none" /\ poll[tray[1]].at = "none"
           /\ \A q \in Photo : card[q] # NoCard => card[q].id # tray[1]
<1>1. tray \in Photos BY DEF QueueInv, TypeOK
<1>2. tray[1] \in Photo /\ tray[1] \in ToSet(tray) /\ ToSet(tray) \subseteq Photo
  BY <1>1, FullTray
<1>3. card[tray[1]] = NoCard BY <1>2 DEF QueueInv, CardsAreApart
<1>4. start[tray[1]] = "none" BY <1>2, <1>3, RequestsHaveACard
<1>5. \A q \in Photo : card[q] # NoCard => card[q].id # tray[1]
  BY <1>2, <1>3 DEF QueueInv, IdsAreOwn
<1>6. poll[tray[1]].at = "none" BY <1>2, <1>5, LoopsHaveACard DEF InStatus, Id
<1> QED BY <1>1, <1>2, <1>3, <1>4, <1>5, <1>6

LEMMA StartAnalysisKeeps ==
    ASSUME QueueInv, StartAnalysis
    PROVE  QueueInv'
<1> DEFINE k == tray[1]
           c == [id |-> k, photos |-> tray, status |-> "running", draft |-> NoDraft]
<1>1. /\ open /\ tray # <<>>
      /\ card' = [card EXCEPT ![k] = c] /\ start' = [start EXCEPT ![k] = "sent"]
      /\ tray' = <<>> /\ UNCHANGED <<jobVars, shooting, taken, poll, open>>
  BY DEF StartAnalysis
<1>2. /\ tray \in Photos /\ k \in Photo /\ k \in ToSet(tray) /\ ToSet(tray) \subseteq Photo
      /\ card[k] = NoCard /\ start[k] = "none" /\ poll[k].at = "none"
      /\ \A q \in Photo : card[q] # NoCard => card[q].id # k
  BY <1>1, FirstPhotoIsFree
<1>3. /\ c \in Card /\ c.id = k /\ c.photos = tray /\ c.status = "running"
  BY <1>2 DEF Card, Id, Draft, NoDraft
<1>4. k \notin Job BY <1>2, DraftJobAssumption
<1> HIDE DEF c, k
<1>5. c # NoCard BY <1>3, QueueValuesAssumption
<1>6. /\ card' \in [Photo -> Card \cup {NoCard}]
      /\ card'[k] = c /\ \A q \in Photo \ {k} : card'[q] = card[q]
  BY <1>1, <1>2, <1>3, OneCardChanges
<1>7. /\ start' \in [Photo -> {"none", "sent"} \cup Job]
      /\ start'[k] = "sent" /\ \A q \in Photo \ {k} : start'[q] = start[q]
  BY <1>1, <1>2 DEF QueueInv, TypeOK
<1>8. "sent" \notin Job /\ "none" \notin Job BY QueueValuesAssumption
<1>9. RowStep /\ row' = row BY <1>1, NoRowChanges DEF jobVars
<1>10. TypeOK' BY <1>1, <1>6, <1>7, <1>9 DEF QueueInv, TypeOK, RowStep
<1>11. TrayIsNew'
  <2>1. ToSet(<<>>) = {} BY DEF ToSet
  <2>2. DOMAIN <<>> = {} OBVIOUS
  <2>3. Len(<<>>) = 0 /\ (shooting # NoPhoto => Len(<<>>) < MaxPhotos) BY QueueAssumption
  <2> QED BY <1>1, <2>1, <2>2, <2>3 DEF QueueInv, TrayIsNew
<1>12. CardsAreApart'
  <2>1. ToSet(tray') = {} BY <1>1 DEF ToSet
  <2>2. ToSet(tray) \subseteq taken /\ shooting \notin ToSet(tray)
    BY <1>2, QueueAssumption DEF QueueInv, TrayIsNew
  <2> QED BY <1>1, <1>2, <1>3, <1>6, <2>1, <2>2 DEF QueueInv, CardsAreApart
<1>13. IdsAreOwn'
  <2>1. \A q \in Photo : card'[q] # NoCard =>
           /\ card'[q].id \in Photo => card'[q].id = q
           /\ card'[q].id \in Job => /\ row'[card'[q].id] # NoJobRow
                                     /\ row'[card'[q].id].of = Selected(card'[q].photos)
    BY <1>3, <1>4, <1>6, <1>9 DEF QueueInv, IdsAreOwn
  <2>2. ASSUME NEW q \in Photo, start'[q] \in Job
        PROVE  /\ row'[start'[q]] # NoJobRow /\ row'[start'[q]].of = Selected(card'[q].photos)
               /\ \A l \in Photo : card'[l] # NoCard => card'[l].id # start'[q]
    <3>1. q # k /\ start'[q] = start[q] /\ card'[q] = card[q] BY <1>6, <1>7, <1>8, <2>2
    <3> QED BY <1>3, <1>4, <1>6, <1>9, <2>2, <3>1 DEF QueueInv, IdsAreOwn
  <2>3. \A q, l \in Photo : start'[q] \in Job /\ start'[q] = start'[l] => q = l
    BY <1>7, <1>8 DEF QueueInv, IdsAreOwn
  <2>4. \A q, l \in Photo :
           card'[q] # NoCard /\ card'[l] # NoCard /\ card'[q].id = card'[l].id => q = l
    BY <1>2, <1>3, <1>6 DEF QueueInv, IdsAreOwn
  <2> QED BY <2>1, <2>2, <2>3, <2>4 DEF IdsAreOwn
<1>14. EachWaitsOnce'
  <2>1. ASSUME NEW q \in Photo, start'[q] # "none"
        PROVE  InStatus(q, "running")' /\ poll'[card'[q].id].at = "none"
    <3>1. CASE q = k BY <1>1, <1>2, <1>3, <1>5, <1>6, <3>1 DEF InStatus
    <3>2. CASE q # k
      <4>1. InStatus(q, "running") /\ poll[card[q].id].at = "none"
        BY <1>7, <2>1, <3>2, RequestsHaveACard
      <4> QED BY <1>1, <1>6, <3>2, <4>1 DEF InStatus
    <3> QED BY <3>1, <3>2
  <2>2. ASSUME NEW i \in Id, poll'[i].at # "none"
        PROVE  \E q \in Photo : InStatus(q, "running")' /\ card'[q].id = i
    <3>1. PICK q \in Photo : InStatus(q, "running") /\ card[q].id = i
      BY <1>1, <2>2 DEF QueueInv, EachWaitsOnce
    <3>2. q # k BY <1>2, <3>1 DEF InStatus
    <3> QED BY <1>6, <3>1, <3>2 DEF InStatus
  <2> QED BY <1>1, <2>1, <2>2 DEF EachWaitsOnce
<1>15. AnswersAreHonest' BY <1>1, <1>9, AnswersStay DEF RowStep
<1>16. ReadyIsItsDraft' BY <1>3, <1>6 DEF QueueInv, ReadyIsItsDraft, InStatus
<1>17. EveryRunningCardIsFollowed'
  <2> SUFFICES ASSUME NEW q \in Photo, InStatus(q, "running")'
               PROVE  start'[q] # "none" \/ poll'[card'[q].id].at # "none"
    BY DEF EveryRunningCardIsFollowed
  <2>1. CASE q = k BY <1>7, <2>1
  <2>2. CASE q # k
    <3>1. InStatus(q, "running") BY <1>6, <2>2 DEF InStatus
    <3> QED BY <1>1, <1>6, <1>7, <2>2, <3>1 DEF QueueInv, EveryRunningCardIsFollowed
  <2> QED BY <2>1, <2>2
<1> QED BY <1>9, <1>10, <1>11, <1>12, <1>13, <1>14, <1>15, <1>16, <1>17 DEF QueueInv, RowStep

LEMMA ServerStartsKeeps ==
    ASSUME QueueInv, NEW k \in Photo, NEW j \in Job, ServerStarts(k, j)
    PROVE  QueueInv'
<1>1. /\ start[k] = "sent" /\ StartDraft(j, Selected(card[k].photos))
      /\ start' = [start EXCEPT ![k] = j]
      /\ UNCHANGED <<tray, shooting, taken, card, poll, open>>
  BY DEF ServerStarts
<1>2. InStatus(k, "running") /\ card[k] # NoCard /\ poll[card[k].id].at = "none" /\ open
  BY <1>1, RequestsHaveACard
<1>3. Selected(card[k].photos) \subseteq Photo BY <1>2, CardsHaveFields, FullTray DEF QueueInv
<1>4. /\ RowStep /\ row[j] = NoJobRow
      /\ row'[j] # NoJobRow /\ row'[j].of = Selected(card[k].photos)
  BY <1>1, <1>3, RowIsCreated DEF QueueInv, TypeOK
<1>5. /\ start' \in [Photo -> {"none", "sent"} \cup Job]
      /\ start'[k] = j /\ \A q \in Photo \ {k} : start'[q] = start[q]
  BY <1>1 DEF QueueInv, TypeOK
<1>6. j # "none" BY QueueValuesAssumption
<1>7. \A q \in Photo : start'[q] # "none" <=> start[q] # "none" BY <1>1, <1>5, <1>6
<1>8. TypeOK' BY <1>1, <1>4, <1>5 DEF QueueInv, TypeOK, RowStep
<1>9. TrayIsNew' BY <1>1 DEF QueueInv, TrayIsNew
<1>10. CardsAreApart' BY <1>1, PhotosStay DEF QueueInv
<1>11. \A q \in Photo : start[q] # j BY <1>4 DEF QueueInv, IdsAreOwn
<1>12. \A q \in Photo : card[q] # NoCard => card[q].id # j BY <1>4 DEF QueueInv, IdsAreOwn
<1>13. IdsAreOwn'
  <2>1. \A q \in Photo : card'[q] # NoCard =>
           /\ card'[q].id \in Photo => card'[q].id = q
           /\ card'[q].id \in Job => /\ row'[card'[q].id] # NoJobRow
                                     /\ row'[card'[q].id].of = Selected(card'[q].photos)
    BY <1>1, <1>4 DEF QueueInv, IdsAreOwn, RowStep, RowsStay
  <2>2. ASSUME NEW q \in Photo, start'[q] \in Job
        PROVE  /\ row'[start'[q]] # NoJobRow /\ row'[start'[q]].of = Selected(card'[q].photos)
               /\ \A l \in Photo : card'[l] # NoCard => card'[l].id # start'[q]
    <3>1. CASE q = k BY <1>1, <1>4, <1>5, <1>12, <3>1
    <3>2. CASE q # k
      <4>1. start[q] \in Job /\ start'[q] = start[q] BY <1>5, <2>2, <3>2
      <4> QED BY <1>1, <1>4, <4>1 DEF QueueInv, IdsAreOwn, RowStep, RowsStay
    <3> QED BY <3>1, <3>2
  <2>3. \A q, l \in Photo : start'[q] \in Job /\ start'[q] = start'[l] => q = l
    BY <1>5, <1>11 DEF QueueInv, IdsAreOwn
  <2>4. \A q, l \in Photo :
           card'[q] # NoCard /\ card'[l] # NoCard /\ card'[q].id = card'[l].id => q = l
    BY <1>1 DEF QueueInv, IdsAreOwn
  <2> QED BY <2>1, <2>2, <2>3, <2>4 DEF IdsAreOwn
<1>14. EachWaitsOnce' BY <1>1, <1>2, <1>7 DEF QueueInv, EachWaitsOnce, InStatus
<1>15. AnswersAreHonest' BY <1>1, <1>4, AnswersStay DEF RowStep
<1>16. ReadyIsItsDraft' BY <1>1 DEF QueueInv, ReadyIsItsDraft, InStatus
<1>17. EveryRunningCardIsFollowed'
  BY <1>1, <1>7 DEF QueueInv, EveryRunningCardIsFollowed, InStatus
<1> QED BY <1>4, <1>8, <1>9, <1>10, <1>13, <1>14, <1>15, <1>16, <1>17 DEF QueueInv, RowStep

LEMMA StartAnsweredKeeps ==
    ASSUME QueueInv, NEW k \in Photo, StartAnswered(k)
    PROVE  QueueInv'
<1> DEFINE j == start[k]
           c == [card[k] EXCEPT !.id = j]
<1>1. /\ start[k] \in Job /\ "none" \notin Job /\ "sent" \notin Job /\ j \in Photo \cup Job
      /\ j \in Id /\ start[k] = j
  BY QueueValuesAssumption DEF StartAnswered, Id
<1>2. /\ InStatus(k, "running") /\ card[k] # NoCard /\ poll[card[k].id].at = "none" /\ open
      /\ start[k] # "none"
  BY <1>1, RequestsHaveACard
<1>3. card[k] \in Card BY <1>2, CardsHaveFields DEF QueueInv
<1>4. /\ c \in Card /\ c.id = j /\ c.photos = card[k].photos /\ c.status = "running"
  BY <1>1, <1>2, <1>3 DEF Card, InStatus
<1>5. /\ card' = [card EXCEPT ![k] = c] /\ poll' = [poll EXCEPT ![j] = At("asked")]
      /\ start' = [start EXCEPT ![k] = "none"]
      /\ UNCHANGED <<jobVars, tray, shooting, taken, open>>
  BY DEF StartAnswered
<1>6. j \in Job /\ j \notin Photo BY <1>1, DraftJobAssumption
<1> HIDE DEF c, j
<1>7. c # NoCard BY <1>4, QueueValuesAssumption
<1>8. /\ card' \in [Photo -> Card \cup {NoCard}]
      /\ card'[k] = c /\ \A q \in Photo \ {k} : card'[q] = card[q]
  BY <1>4, <1>5, OneCardChanges
<1>9. /\ start' \in [Photo -> {"none", "sent"} \cup Job]
      /\ start'[k] = "none" /\ \A q \in Photo \ {k} : start'[q] = start[q]
  BY <1>5 DEF QueueInv, TypeOK
<1>10. At("asked") \in Loop /\ At("asked").at = "asked" BY DEF At, Loop, Draft, NoDraft
<1>11. /\ poll' \in [Id -> Loop]
       /\ poll'[j].at = "asked" /\ \A i \in Id \ {j} : poll'[i] = poll[i]
  BY <1>1, <1>5, <1>10 DEF QueueInv, TypeOK
<1>12. RowStep /\ row' = row BY <1>5, NoRowChanges DEF jobVars
<1>13. \A q \in Photo : card[q] # NoCard => card[q].id # j /\ card[q].id \in Id
  BY <1>1, <1>6, CardsHaveFields DEF QueueInv, IdsAreOwn
<1>14. row[j] # NoJobRow /\ row[j].of = Selected(card[k].photos)
  BY <1>1, <1>6 DEF QueueInv, IdsAreOwn
<1>15. TypeOK' BY <1>5, <1>8, <1>9, <1>11, <1>12 DEF QueueInv, TypeOK, RowStep
<1>16. TrayIsNew' BY <1>5 DEF QueueInv, TrayIsNew
<1>17. CardsAreApart'
  <2>1. \A q \in Photo : card'[q] # NoCard =>
           card[q] # NoCard /\ card'[q].photos = card[q].photos
    BY <1>2, <1>4, <1>8
  <2> QED BY <1>5, <2>1, PhotosStay DEF QueueInv
<1>18. IdsAreOwn'
  <2>1. \A q \in Photo : card'[q] # NoCard =>
           /\ card'[q].id \in Photo => card'[q].id = q
           /\ card'[q].id \in Job => /\ row'[card'[q].id] # NoJobRow
                                     /\ row'[card'[q].id].of = Selected(card'[q].photos)
    BY <1>4, <1>6, <1>8, <1>12, <1>14 DEF QueueInv, IdsAreOwn
  <2>2. ASSUME NEW q \in Photo, start'[q] \in Job
        PROVE  /\ row'[start'[q]] # NoJobRow /\ row'[start'[q]].of = Selected(card'[q].photos)
               /\ \A l \in Photo : card'[l] # NoCard => card'[l].id # start'[q]
    <3>1. q # k /\ start'[q] = start[q] /\ card'[q] = card[q] BY <1>1, <1>8, <1>9, <2>2
    <3>2. start[q] # j BY <1>1, <1>6, <3>1 DEF QueueInv, IdsAreOwn
    <3> QED BY <1>4, <1>8, <1>12, <2>2, <3>1, <3>2 DEF QueueInv, IdsAreOwn
  <2>3. \A q, l \in Photo : start'[q] \in Job /\ start'[q] = start'[l] => q = l
    BY <1>1, <1>9 DEF QueueInv, IdsAreOwn
  <2>4. \A q, l \in Photo :
           card'[q] # NoCard /\ card'[l] # NoCard /\ card'[q].id = card'[l].id => q = l
    BY <1>4, <1>8, <1>13 DEF QueueInv, IdsAreOwn
  <2> QED BY <2>1, <2>2, <2>3, <2>4 DEF IdsAreOwn
<1>19. EachWaitsOnce'
  <2>1. ASSUME NEW q \in Photo, start'[q] # "none"
        PROVE  InStatus(q, "running")' /\ poll'[card'[q].id].at = "none"
    <3>1. q # k /\ start[q] # "none" BY <1>9, <2>1
    <3>2. InStatus(q, "running") /\ card[q] # NoCard /\ poll[card[q].id].at = "none"
      BY <3>1, RequestsHaveACard
    <3> QED BY <1>8, <1>11, <1>13, <3>1, <3>2 DEF InStatus
  <2>2. ASSUME NEW i \in Id, poll'[i].at # "none"
        PROVE  \E q \in Photo : InStatus(q, "running")' /\ card'[q].id = i
    <3>1. CASE i = j BY <1>4, <1>7, <1>8, <3>1 DEF InStatus
    <3>2. CASE i # j
      <4>1. poll[i].at # "none" BY <1>11, <2>2, <3>2
      <4>2. PICK q \in Photo : InStatus(q, "running") /\ card[q].id = i
        BY <4>1 DEF QueueInv, EachWaitsOnce
      <4>3. q # k BY <1>2, <4>1, <4>2
      <4> QED BY <1>8, <4>2, <4>3 DEF InStatus
    <3> QED BY <3>1, <3>2
  <2> QED BY <1>2, <1>5, <2>1, <2>2 DEF EachWaitsOnce
<1>20. AnswersAreHonest'
  <2>1. \A i \in Id : poll'[i].at = "answered" => poll'[i] = poll[i] BY <1>11
  <2> QED BY <1>12, <2>1, AnswersStay DEF RowStep
<1>21. ReadyIsItsDraft' BY <1>4, <1>8 DEF QueueInv, ReadyIsItsDraft, InStatus
<1>22. EveryRunningCardIsFollowed'
  <2> SUFFICES ASSUME NEW q \in Photo, InStatus(q, "running")'
               PROVE  start'[q] # "none" \/ poll'[card'[q].id].at # "none"
    BY DEF EveryRunningCardIsFollowed
  <2>1. CASE q = k BY <1>4, <1>8, <1>11, <2>1
  <2>2. CASE q # k
    <3>1. InStatus(q, "running") /\ card[q] # NoCard BY <1>8, <2>2 DEF InStatus
    <3>2. start[q] # "none" \/ poll[card[q].id].at # "none"
      BY <1>2, <3>1 DEF QueueInv, EveryRunningCardIsFollowed
    <3> QED BY <1>8, <1>9, <1>11, <1>13, <2>2, <3>1, <3>2
  <2> QED BY <2>1, <2>2
<1> QED
  BY <1>12, <1>15, <1>16, <1>17, <1>18, <1>19, <1>20, <1>21, <1>22 DEF QueueInv, RowStep

\* A card that has no loop is written again, and its request is sent or not.
LEMMA CardIsWritten ==
    ASSUME QueueInv, open, NEW k \in Photo, card[k] # NoCard, NEW c \in Card,
           c.id = card[k].id, c.photos = card[k].photos, poll[card[k].id].at = "none",
           c.status \in {"running", "failed"},
           NEW s \in {"none", "sent"}, s = "sent" <=> c.status = "running",
           card' = [card EXCEPT ![k] = c], start' = [start EXCEPT ![k] = s],
           UNCHANGED <<jobVars, tray, shooting, taken, poll, open>>
    PROVE  QueueInv'
<1>1. /\ card' \in [Photo -> Card \cup {NoCard}]
      /\ card'[k] = c /\ \A q \in Photo \ {k} : card'[q] = card[q]
  BY OneCardChanges
<1>2. /\ start' \in [Photo -> {"none", "sent"} \cup Job]
      /\ start'[k] = s /\ \A q \in Photo \ {k} : start'[q] = start[q]
  BY DEF QueueInv, TypeOK
<1>3. c # NoCard /\ s \notin Job BY QueueValuesAssumption
<1>4. RowStep BY NoRowChanges
<1>5. TypeOK' BY <1>1, <1>2, <1>4 DEF QueueInv, TypeOK, RowStep
<1>6. TrayIsNew' BY DEF QueueInv, TrayIsNew
<1>7. \A q \in Photo : card'[q] # NoCard =>
         card[q] # NoCard /\ card'[q].photos = card[q].photos /\ card'[q].id = card[q].id
  BY <1>1
<1>8. CardsAreApart' BY <1>7, PhotosStay DEF QueueInv
<1>9. IdsAreOwn'
  <2>1. \A q \in Photo : start'[q] \in Job => start'[q] = start[q] /\ card'[q] # NoCard
    BY <1>1, <1>2, <1>3, RequestsHaveACard, QueueValuesAssumption
  <2> QED BY <1>4, <1>7, <2>1, IdsStay DEF RowStep
<1>10. EachWaitsOnce'
  <2>1. ASSUME NEW q \in Photo, start'[q] # "none"
        PROVE  InStatus(q, "running")' /\ poll'[card'[q].id].at = "none"
    <3>1. CASE q = k BY <1>1, <1>2, <1>3, <2>1, <3>1 DEF InStatus
    <3>2. CASE q # k
      <4>1. InStatus(q, "running") /\ poll[card[q].id].at = "none"
        BY <1>2, <2>1, <3>2, RequestsHaveACard
      <4> QED BY <1>1, <3>2, <4>1 DEF InStatus
    <3> QED BY <3>1, <3>2
  <2>2. ASSUME NEW i \in Id, poll'[i].at # "none"
        PROVE  \E q \in Photo : InStatus(q, "running")' /\ card'[q].id = i
    <3>1. PICK q \in Photo : InStatus(q, "running") /\ card[q].id = i
      BY <2>2 DEF QueueInv, EachWaitsOnce
    <3>2. q # k BY <2>2, <3>1
    <3> QED BY <1>1, <3>1, <3>2 DEF InStatus
  <2> QED BY <2>1, <2>2 DEF EachWaitsOnce
<1>11. AnswersAreHonest' BY <1>4, AnswersStay DEF RowStep
<1>12. ReadyIsItsDraft' BY <1>1 DEF QueueInv, ReadyIsItsDraft, InStatus
<1>13. EveryRunningCardIsFollowed'
  <2> SUFFICES ASSUME NEW q \in Photo, InStatus(q, "running")'
               PROVE  start'[q] # "none" \/ poll'[card'[q].id].at # "none"
    BY DEF EveryRunningCardIsFollowed
  <2>1. CASE q = k BY <1>1, <1>2, <2>1 DEF InStatus
  <2>2. CASE q # k
    <3>1. InStatus(q, "running") BY <1>1, <2>2 DEF InStatus
    <3> QED BY <1>1, <1>2, <2>2, <3>1 DEF QueueInv, EveryRunningCardIsFollowed
  <2> QED BY <2>1, <2>2
<1> QED BY <1>4, <1>5, <1>6, <1>8, <1>9, <1>10, <1>11, <1>12, <1>13 DEF QueueInv, RowStep

LEMMA StartFailsKeeps ==
    ASSUME QueueInv, NEW k \in Photo, StartFails(k)
    PROVE  QueueInv'
<1>1. InStatus(k, "running") /\ card[k] # NoCard /\ poll[card[k].id].at = "none" /\ open
  BY RequestsHaveACard DEF StartFails
<1>2. card[k] \in Card BY <1>1, CardsHaveFields DEF QueueInv
<1> DEFINE c == [card[k] EXCEPT !.status = "failed"]
<1>3. c \in Card /\ c.id = card[k].id /\ c.photos = card[k].photos /\ c.status = "failed"
  BY <1>2 DEF Card
<1>4. /\ card' = [card EXCEPT ![k] = c] /\ start' = [start EXCEPT ![k] = "none"]
      /\ UNCHANGED <<jobVars, tray, shooting, taken, poll, open>>
  BY DEF StartFails
<1> HIDE DEF c
<1> QED BY <1>1, <1>3, <1>4, CardIsWritten

LEMMA RetryKeeps ==
    ASSUME QueueInv, NEW k \in Photo, Retry(k)
    PROVE  QueueInv'
<1>1. open /\ card[k] # NoCard /\ card[k].status = "failed" BY DEF Retry, InStatus
<1>2. card[k] \in Card /\ card[k].id \in Id BY <1>1, CardsHaveFields DEF QueueInv
<1>3. poll[card[k].id].at = "none"
  <2> SUFFICES ASSUME poll[card[k].id].at # "none" PROVE FALSE OBVIOUS
  <2>1. PICK q \in Photo : /\ InStatus(q, "running")
                           /\ \A l \in Photo \ {q} : card[l] # NoCard => card[l].id # card[k].id
    BY <1>2, LoopsHaveACard
  <2>2. q = k BY <1>1, <2>1
  <2> QED BY <1>1, <2>1, <2>2 DEF InStatus
<1> DEFINE c == [card[k] EXCEPT !.status = "running"]
<1>4. c \in Card /\ c.id = card[k].id /\ c.photos = card[k].photos /\ c.status = "running"
  BY <1>2 DEF Card
<1>5. /\ card' = [card EXCEPT ![k] = c] /\ start' = [start EXCEPT ![k] = "sent"]
      /\ UNCHANGED <<jobVars, tray, shooting, taken, poll, open>>
  BY DEF Retry
<1> HIDE DEF c
<1> QED BY <1>1, <1>3, <1>4, <1>5, CardIsWritten

\* A card that is ready or has failed leaves the queue.
LEMMA CardLeaves ==
    ASSUME QueueInv, NEW k \in Photo, RemoveCard(k) \/ OpenReady(k)
    PROVE  QueueInv'
<1>1. /\ card[k] # NoCard /\ card[k].status # "running" /\ card' = [card EXCEPT ![k] = NoCard]
      /\ UNCHANGED <<jobVars, tray, shooting, taken, start, poll, open>>
  BY DEF RemoveCard, OpenReady, InStatus
<1>2. /\ card' \in [Photo -> Card \cup {NoCard}]
      /\ card'[k] = NoCard /\ \A q \in Photo \ {k} : card'[q] = card[q]
  BY <1>1, OneCardChanges
<1>3. start[k] = "none" BY <1>1, RequestsHaveACard DEF InStatus
<1>4. RowStep BY <1>1, NoRowChanges
<1>5. TypeOK' BY <1>1, <1>2, <1>4 DEF QueueInv, TypeOK, RowStep
<1>6. TrayIsNew' BY <1>1 DEF QueueInv, TrayIsNew
<1>7. \A q \in Photo : card'[q] # NoCard => card[q] # NoCard /\ card'[q] = card[q]
  BY <1>2
<1>8. CardsAreApart' BY <1>1, <1>7, PhotosStay DEF QueueInv
<1>9. IdsAreOwn'
  <2>1. \A q \in Photo : start[q] \in Job => card'[q] # NoCard
    BY <1>2, <1>3, RequestsHaveACard, QueueValuesAssumption
  <2> QED BY <1>1, <1>4, <1>7, <2>1, IdsStay DEF RowStep
<1>10. EachWaitsOnce'
  <2>1. \A q \in Photo : InStatus(q, "running") => card'[q] = card[q]
    BY <1>1, <1>2 DEF InStatus
  <2>2. ASSUME NEW i \in Id, poll[i].at # "none"
        PROVE  \E q \in Photo : InStatus(q, "running")' /\ card'[q].id = i
    <3>1. PICK q \in Photo : InStatus(q, "running") /\ card[q].id = i
      BY <2>2 DEF QueueInv, EachWaitsOnce
    <3> QED BY <2>1, <3>1 DEF InStatus
  <2>3. ASSUME NEW q \in Photo, start[q] # "none"
        PROVE  InStatus(q, "running")' /\ poll[card'[q].id].at = "none"
    <3>1. InStatus(q, "running") /\ poll[card[q].id].at = "none" BY <2>3, RequestsHaveACard
    <3> QED BY <2>1, <3>1 DEF InStatus
  <2> QED BY <1>1, <2>2, <2>3 DEF QueueInv, EachWaitsOnce
<1>11. AnswersAreHonest' BY <1>1, <1>4, AnswersStay DEF RowStep
<1>12. ReadyIsItsDraft' BY <1>7 DEF QueueInv, ReadyIsItsDraft, InStatus
<1>13. EveryRunningCardIsFollowed'
  BY <1>1, <1>7 DEF QueueInv, EveryRunningCardIsFollowed, InStatus
<1> QED BY <1>4, <1>5, <1>6, <1>8, <1>9, <1>10, <1>11, <1>12, <1>13 DEF QueueInv, RowStep

-----------------------------------------------------------------------------
(* The app is killed and opened again.                                      *)

LEMMA KillAppKeeps ==
    ASSUME QueueInv, KillApp
    PROVE  QueueInv'
<1>1. /\ crashes' = crashes + 1 /\ crashes < MaxCrashes /\ open' = FALSE
      /\ tray' = <<>> /\ shooting' = NoPhoto
      /\ start' = [k \in Photo |-> "none"] /\ poll' = [i \in Id |-> At("none")]
      /\ UNCHANGED <<row, work, old, expiring, taken, card>>
  BY DEF KillApp
<1>2. RowStep
  <2>1. crashes' \in 0..MaxCrashes BY <1>1, DraftJobAssumption DEF QueueInv, TypeOK, JobTypeOK
  <2> QED BY <1>1, <2>1, StillRows DEF QueueInv, TypeOK, JobTypeOK, RowsAreHonest
<1>3. At("none") \in Loop /\ At("none").at = "none" BY DEF At, Loop, Draft, NoDraft
<1>4. \A i \in Id : poll'[i].at = "none" BY <1>1, <1>3
<1>5. TypeOK' BY <1>1, <1>2, <1>3 DEF QueueInv, TypeOK, RowStep
<1>6. ToSet(<<>>) = {} /\ DOMAIN <<>> = {} BY DEF ToSet
<1>7. TrayIsNew' BY <1>1, <1>6 DEF TrayIsNew
<1>8. CardsAreApart'
  <2>1. ASSUME NEW k \in Photo, card[k] # NoCard PROVE NoPhoto \notin ToSet(card[k].photos)
    <3>1. ToSet(card[k].photos) \subseteq Photo BY <2>1, CardsHaveFields, FullTray DEF QueueInv
    <3> QED BY <3>1, QueueAssumption
  <2> QED BY <1>1, <1>6, <2>1 DEF QueueInv, CardsAreApart
<1>9. IdsAreOwn'
  <2>1. \A k \in Photo : start'[k] \notin Job BY <1>1, QueueValuesAssumption
  <2> QED BY <1>1, <1>2, <2>1, IdsStay DEF RowStep
<1>10. EachWaitsOnce' BY <1>1, <1>4 DEF EachWaitsOnce
<1>11. AnswersAreHonest' BY <1>4 DEF AnswersAreHonest
<1>12. ReadyIsItsDraft' BY <1>1 DEF QueueInv, ReadyIsItsDraft, InStatus
<1>13. EveryRunningCardIsFollowed' BY <1>1 DEF EveryRunningCardIsFollowed
<1> QED BY <1>2, <1>5, <1>7, <1>8, <1>9, <1>10, <1>11, <1>12, <1>13 DEF QueueInv, RowStep

LEMMA OpenAppKeeps ==
    ASSUME QueueInv, OpenApp
    PROVE  QueueInv'
<1>1. /\ ~open /\ open' = TRUE
      /\ poll' = [i \in Id |-> IF \E k \in Photo : InStatus(k, "running") /\ card[k].id = i
                               THEN At("asked") ELSE At("none")]
      /\ UNCHANGED <<jobVars, tray, shooting, taken, card, start>>
  BY DEF OpenApp
<1>2. /\ At("none") \in Loop /\ At("none").at = "none"
      /\ At("asked") \in Loop /\ At("asked").at = "asked"
  BY DEF At, Loop, Draft, NoDraft
<1>3. poll' \in [Id -> Loop] BY <1>1, <1>2
<1>4. \A i \in Id :
         /\ poll'[i].at \in {"none", "asked"}
         /\ poll'[i].at = "asked" <=> \E k \in Photo : InStatus(k, "running") /\ card[k].id = i
  BY <1>1, <1>2
<1>5. \A k \in Photo : start[k] = "none" BY <1>1 DEF QueueInv, EachWaitsOnce
<1>6. RowStep BY <1>1, NoRowChanges
<1>7. TypeOK' BY <1>1, <1>3, <1>6 DEF QueueInv, TypeOK, RowStep
<1>8. TrayIsNew' BY <1>1 DEF QueueInv, TrayIsNew
<1>9. CardsAreApart' BY <1>1, PhotosStay DEF QueueInv
<1>10. IdsAreOwn' BY <1>1, <1>5, <1>6, IdsStay, QueueValuesAssumption DEF RowStep
<1>11. EachWaitsOnce' BY <1>1, <1>4, <1>5 DEF EachWaitsOnce, InStatus
<1>12. AnswersAreHonest' BY <1>4 DEF AnswersAreHonest
<1>13. ReadyIsItsDraft' BY <1>1 DEF QueueInv, ReadyIsItsDraft, InStatus
<1>14. EveryRunningCardIsFollowed'
  <2> SUFFICES ASSUME NEW k \in Photo, InStatus(k, "running")
               PROVE  poll'[card[k].id].at = "asked"
    BY <1>1 DEF EveryRunningCardIsFollowed, InStatus
  <2>1. card[k].id \in Id BY CardsHaveFields DEF QueueInv, InStatus
  <2> QED BY <1>4, <2>1
<1> QED BY <1>6, <1>7, <1>8, <1>9, <1>10, <1>11, <1>12, <1>13, <1>14 DEF QueueInv, RowStep

-----------------------------------------------------------------------------
(* The theorems.                                                            *)

LEMMA InitIsInvariant == Init => QueueInv
<1> SUFFICES ASSUME Init PROVE QueueInv OBVIOUS
<1>1. /\ tray = <<>> /\ shooting = NoPhoto /\ taken = {} /\ open = TRUE
      /\ \A k \in Photo : card[k] = NoCard /\ start[k] = "none"
      /\ \A i \in Id : poll[i].at = "none"
      /\ \A j \in Job : row[j] = NoJobRow /\ work[j] = "none"
      /\ expiring = {}
  BY DEF Init, JobInit, At
<1>2. At("none") \in Loop BY DEF At, Loop, Draft, NoDraft
<1>3. TypeOK BY <1>2, DraftJobAssumption DEF Init, JobInit, TypeOK, JobTypeOK
<1>4. RowsAreHonest BY <1>1 DEF RowsAreHonest
<1>5. TrayIsNew
  <2>1. ToSet(<<>>) = {} /\ DOMAIN <<>> = {} BY DEF ToSet
  <2> QED BY <1>1, <2>1 DEF TrayIsNew
<1>6. CardsAreApart BY <1>1 DEF CardsAreApart
<1>7. IdsAreOwn BY <1>1, QueueValuesAssumption DEF IdsAreOwn
<1>8. EachWaitsOnce BY <1>1 DEF EachWaitsOnce
<1>9. AnswersAreHonest BY <1>1 DEF AnswersAreHonest
<1>10. ReadyIsItsDraft BY <1>1 DEF ReadyIsItsDraft, InStatus
<1>11. EveryRunningCardIsFollowed BY <1>1 DEF EveryRunningCardIsFollowed, InStatus
<1> QED BY <1>3, <1>4, <1>5, <1>6, <1>7, <1>8, <1>9, <1>10, <1>11 DEF QueueInv

LEMMA NextKeepsInvariant == QueueInv /\ [Next]_vars => QueueInv'
<1> SUFFICES ASSUME QueueInv, [Next]_vars PROVE QueueInv' OBVIOUS
<1>1. ASSUME NEW p \in Photo, TakePhoto(p) \/ RemovePhoto(p) PROVE QueueInv'
  BY <1>1, CameraKeeps
<1>2. CASE PhotoIsReady \/ CameraFails \/ ReorderPhotos BY <1>2, CameraKeeps
<1>3. CASE StartAnalysis BY <1>3, StartAnalysisKeeps
<1>4. ASSUME NEW k \in Photo, Queue(k) PROVE QueueInv'
  BY <1>4, StartAnsweredKeeps, StartFailsKeeps, ServerStartsKeeps DEF Queue
<1>5. ASSUME NEW k \in Photo, Retry(k) \/ RemoveCard(k) \/ OpenReady(k) PROVE QueueInv'
  BY <1>5, RetryKeeps, CardLeaves
<1>6. ASSUME NEW i \in Id, Polling(i) PROVE QueueInv' BY <1>6, PollingKeeps
<1>7. ASSUME NEW j \in Job, ExpireJob(j) PROVE QueueInv' BY <1>7, ExpireKeeps
<1>8. ASSUME NEW j \in Job, Work(j), UNCHANGED phoneVars PROVE QueueInv'
  BY <1>8, WorkKeepsRows, ServerStep DEF QueueInv, TypeOK
<1>9. CASE ServerRestarts /\ UNCHANGED phoneVars
  BY <1>9, RestartKeepsRows, ServerStep DEF QueueInv, TypeOK
<1>10. CASE KillApp BY <1>10, KillAppKeeps
<1>11. CASE OpenApp BY <1>11, OpenAppKeeps
<1>12. CASE UNCHANGED vars BY <1>12, NoRowChanges, ServerStep DEF vars
<1> QED
  BY <1>1, <1>2, <1>3, <1>4, <1>5, <1>6, <1>7, <1>8, <1>9, <1>10, <1>11, <1>12 DEF Next

\* The rows, the tray, the cards and the loops keep to the invariant.
THEOREM QueueIsInvariant == Spec => []QueueInv
<1>1. Init => QueueInv BY InitIsInvariant
<1>2. QueueInv /\ [Next]_vars => QueueInv' BY NextKeepsInvariant
<1> QED BY <1>1, <1>2, PTL DEF Spec

\* Every variable of the screen, of the queue and of the server keeps its type.
THEOREM QueueTypeIsCorrect == Spec => []TypeOK
<1>1. QueueInv => TypeOK BY DEF QueueInv
<1> QED BY <1>1, QueueIsInvariant, PTL

\* Whatever is asked, answered, lost, retried or renamed, a photo is in the tray
\* or on one card only (vendre.tsx empties the tray as it makes a card of it),
\* and a ready card shows the draft that was written from its own photos
\* (listing.store.ts, updateJob by id).
THEOREM AnnoncesAreTheirPhotos == Spec => []AnnoncesKeepToTheirPhotos
<1>1. QueueInv => AnnoncesKeepToTheirPhotos
  BY DEF QueueInv, CardsAreApart, ReadyIsItsDraft, InStatus, AnnoncesKeepToTheirPhotos
<1> QED BY <1>1, QueueIsInvariant, PTL

\* While the app runs, a card that waits has its request on its way or a loop
\* that will ask (start, poll and resumePending of listing.store.ts).
THEOREM RunningCardsAreFollowed == Spec => []EveryRunningCardIsFollowed
<1>1. QueueInv => EveryRunningCardIsFollowed BY DEF QueueInv
<1> QED BY <1>1, QueueIsInvariant, PTL

LEMMA StepsKeepReadyCards ==
    ASSUME QueueInv, [Next]_vars, NEW k \in Photo, InStatus(k, "ready")
    PROVE  card'[k] = card[k] \/ (OpenReady(k) /\ card'[k] = NoCard)
<1>1. /\ card[k] # NoCard /\ ~InStatus(k, "running") /\ ~InStatus(k, "failed")
      /\ card \in [Photo -> Card \cup {NoCard}]
  BY DEF InStatus, QueueInv, TypeOK
<1>2. CASE StartAnalysis
  <2>1. tray[1] # k BY <1>1, <1>2, FirstPhotoIsFree DEF StartAnalysis
  <2> QED BY <1>1, <1>2, <2>1 DEF StartAnalysis
<1>3. ASSUME NEW q \in Photo, StartAnswered(q) \/ StartFails(q) PROVE card'[k] = card[k]
  <2>1. start[q] # "none" BY <1>3, QueueValuesAssumption DEF StartAnswered, StartFails
  <2>2. q # k BY <1>1, <2>1, RequestsHaveACard
  <2> QED BY <1>1, <1>3, <2>2 DEF StartAnswered, StartFails
<1>4. ASSUME NEW q \in Photo, Retry(q) \/ RemoveCard(q) PROVE card'[k] = card[k]
  BY <1>1, <1>4 DEF Retry, RemoveCard
<1>5. ASSUME NEW q \in Photo, OpenReady(q)
      PROVE  card'[k] = card[k] \/ (OpenReady(k) /\ card'[k] = NoCard)
  BY <1>1, <1>5 DEF OpenReady
<1>6. ASSUME NEW i \in Id, PollAnswered(i) PROVE card'[k] = card[k]
  <2>1. poll[i].at # "none" BY <1>6 DEF PollAnswered
  <2>2. card[k].id # i BY <1>1, <2>1, LoopsHaveACard
  <2> QED BY <1>6, <2>2 DEF PollAnswered, Updated
<1>7. ASSUME NEW i \in Id, Tick(i) \/ Reached(i) \/ PollFails(i) PROVE card'[k] = card[k]
  BY <1>7 DEF Reached, Tick, NoSuchJob, ReadJob, ReadStaleJob, PollFails
<1>8. ASSUME NEW j \in Job, ExpireJob(j) PROVE card'[k] = card[k] BY <1>8 DEF ExpireJob
<1>9. CASE UNCHANGED phoneVars BY <1>9 DEF phoneVars
<1>10. CASE KillApp \/ OpenApp BY <1>10 DEF KillApp, OpenApp
<1>11. CASE PhotoIsReady \/ CameraFails \/ ReorderPhotos
  BY <1>11 DEF PhotoIsReady, CameraFails, ReorderPhotos
<1>12. ASSUME NEW p \in Photo, TakePhoto(p) \/ RemovePhoto(p) PROVE card'[k] = card[k]
  BY <1>12 DEF TakePhoto, RemovePhoto
<1>13. ASSUME NEW q \in Photo, NEW j \in Job, ServerStarts(q, j) PROVE card'[k] = card[k]
  BY <1>13 DEF ServerStarts
<1>14. CASE UNCHANGED vars BY <1>14 DEF vars, phoneVars
<1> QED
  BY <1>2, <1>3, <1>4, <1>5, <1>6, <1>7, <1>8, <1>9, <1>10, <1>11, <1>12, <1>13, <1>14
  DEF Next, Queue, Polling

\* A ready card stays as it is until the user opens it: an answer, a failure or
\* a verdict that comes later is never written over it.
THEOREM ReadyCardsStay == Spec => ReadyStaysReady
<1>1. QueueInv /\ [Next]_vars =>
        [\A k \in Photo : InStatus(k, "ready") =>
            card'[k] = card[k] \/ (OpenReady(k) /\ card'[k] = NoCard)]_vars
  BY StepsKeepReadyCards
<1>2. QueueInv /\ [Next]_vars => QueueInv' BY NextKeepsInvariant
<1> QED BY <1>1, <1>2, InitIsInvariant, PTL DEF Spec, ReadyStaysReady

=============================================================================
