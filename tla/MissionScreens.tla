---------------------------- MODULE MissionScreens ----------------------------
(***************************************************************************)
(* The seller's screens on a mission: the dashboard (mission.tsx), the     *)
(* validation sheet (mission-validate.tsx) and the report of the sale      *)
(* (mission-recap.tsx), what they derive from the row and its timeline     *)
(* (mission-dashboard.ts), and the resource each of them loads when it is  *)
(* shown (useApiResource.ts).                                              *)
(*                                                                         *)
(* The server is that of MissionRules, an operation at a time and within   *)
(* MISSION_EXPIRY_MS: Mission has the interleavings and the expiry.  Here  *)
(* it is the network that takes its time: a screen shows what was read     *)
(* some time ago, and a call the phone has given up may still be executed. *)
(* What is shown while loading, and the text of errors, is left out.       *)
(***************************************************************************)
EXTENDS MissionRules, SequencesExt

CONSTANTS
    Slot,         \* calls of the screens that may be under way together
    Page,         \* the events a dashboard is answered with (take: 50)
    MaxMessages,  \* bound: messages of the buyers
    MaxTaps       \* bound: actions of the seller on the mission

ASSUME ScreensAssumption ==
    /\ Amount \subseteq Nat /\ Mandate \subseteq MandateRow
    /\ Null \notin Nat /\ Null \notin Buyer \cup Status \cup Reason
    /\ Page \in Nat \ {0} /\ MaxMessages \in Nat /\ MaxTaps \in Nat

\* The columns of the Mission row that the screens are about.
MissionRow ==
    [status : Status, mandate : {m \in Mandate : IsMandateValid(m)}, buyers : Nat,
     best : Amount \cup {Null}, reason : Reason \cup {Null}, offer : Amount \cup {Null},
     buyer : Buyer \cup {Null}, sold : Amount \cup {Null}, preSuspend : Status \cup {Null}]

\* What a screen has read so far of the row and of its events.
Fetch == [row : MissionRow \cup {Null}, version : Nat, events : Seq(Event) \cup {Null}]

ASSUME NullAssumption == Null \notin MissionRow \cup Fetch

VARIABLES
    row,       \* the Mission row
    timeline,  \* its MissionEvent rows, oldest first
    version,   \* history: how often the row has changed
    received,  \* messages received so far
    stack,     \* the screens over the tabs, the one shown last
    res,       \* the resource of each screen that is mounted
    finalized, \* the report that is mounted has asked for the finalization
    call,      \* the calls the screens wait for
    late,      \* operations nobody waits for, that may still be executed
    taps,      \* actions of the seller so far
    hurried    \* history: a call was given up, or its screen left under it

server == <<row, timeline, version>>
phone == <<stack, res, finalized, call, late, taps, hurried>>
vars == <<server, received, phone>>

Screen == {"dash", "sheet", "recap"}
Answer == {"ok", "refused", "withdrawn"}

Sent == [row |-> Null, version |-> 0, events |-> Null]
Blank == [data |-> Null, fetches |-> <<>>]
NoCall == [op |-> "none", from |-> "dash", mine |-> FALSE, amount |-> Null, answer |-> "none"]

Init ==
    /\ row \in {[status |-> "EN_VENTE", mandate |-> m, buyers |-> 0, best |-> Null,
                 reason |-> Null, offer |-> Null, buyer |-> Null, sold |-> Null,
                 preSuspend |-> Null] : m \in {m \in Mandate : IsMandateValid(m)}}
    /\ timeline = <<>> /\ version = 0 /\ received = 0
    /\ stack = <<>> /\ res = [s \in Screen |-> Blank] /\ finalized = FALSE
    /\ call = [c \in Slot |-> NoCall] /\ late = {}
    /\ taps = 0 /\ hurried = FALSE

-----------------------------------------------------------------------------
(* The server.                                                              *)

\* VALIDATION_NOT_PENDING, of the refusals the one that the sheet tells apart.
Refusal(op) ==
    IF op.kind \in {"ACCEPT", "CLOSE"}
       /\ (row.status = "EN_ATTENTE_VALIDATION" => row.reason \in OfferReason)
    THEN "withdrawn" ELSE "refused"

\* An operation, and whether it is answered or refused.
Execute(op, answer) ==
    \/ \E plan \in Plans(op, row) :
          /\ answer = "ok"
          /\ row' = Patched(row, plan.patch)
          /\ version' = version + 1
          /\ timeline' = timeline \o SetToSeq(plan.entries)
    \/ /\ Plans(op, row) = {}
       /\ answer = Refusal(op)
       /\ UNCHANGED server

BuyerWrites ==
    /\ received < MaxMessages
    /\ received' = received + 1
    /\ \E m \in Message, answer \in Answer :
          Execute([kind |-> "MESSAGE", message |-> m], answer)
    /\ UNCHANGED phone

-----------------------------------------------------------------------------
(* useApiResource.                                                          *)

\* Mutant: a fetch is not dropped while another is in flight.
Loaded_Always(r) == [r EXCEPT !.fetches = Append(@, Sent)]

\* load(): dropped while another is in flight.
Loaded(r) == IF r.fetches = <<>> THEN [r EXCEPT !.fetches = <<Sent>>] ELSE r

\* The screens of fresh are mounted anew; the one on top has the focus, and loads.
\* A call outlives the screen it was made on, and its answer moves the stack.
Goto(screens, fresh) ==
    LET kept == Range(screens) \ fresh
        at(s) == IF s \in kept THEN res[s] ELSE Blank
    IN /\ stack' = screens
       /\ res' = [s \in Screen |-> IF screens # <<>> /\ s = Last(screens)
                                   THEN Loaded(at(s)) ELSE at(s)]
       /\ finalized' = (finalized /\ "recap" \in kept)

Orphaned(calls) ==
    [c \in Slot |-> IF \E s \in Screen : s = calls[c].from /\ res'[s] = Blank
                    THEN [calls[c] EXCEPT !.mine = FALSE] ELSE calls[c]]

\* findOwned, then the last events: two statements, in no transaction.
ReadRow(s, i) ==
    /\ res[s].fetches[i].row = Null
    /\ res' = [res EXCEPT ![s].fetches[i] = [row |-> row, version |-> version, events |-> @.events]]
    /\ UNCHANGED <<server, received, stack, finalized, call, late, taps, hurried>>

\* The latest first; only the report derives anything from them.
Latest(s) ==
    IF s # "recap" THEN <<>>
    ELSE SubSeq(Reverse(timeline), 1, IF Len(timeline) < Page THEN Len(timeline) ELSE Page)

ReadEvents(s, i) ==
    /\ res[s].fetches[i].row # Null /\ res[s].fetches[i].events = Null
    /\ res' = [res EXCEPT ![s].fetches[i].events = Latest(s)]
    /\ UNCHANGED <<server, received, stack, finalized, call, late, taps, hurried>>

\* The report of a mission that is VENDU asks once for its finalization,
\* and does not wait for the answer.
Arrive(s, i) ==
    LET fetch == res[s].fetches[i]
        asks  == s = "recap" /\ fetch.row.status = "VENDU" /\ ~finalized
    IN /\ fetch.row # Null /\ fetch.events # Null
       /\ res' = [res EXCEPT ![s] = [data |-> fetch, fetches |-> RemoveAt(@.fetches, i)]]
       /\ finalized' = (finalized \/ asks)
       /\ late' = IF asks THEN late \cup {[kind |-> "FINALIZE"]} ELSE late
       /\ UNCHANGED <<server, received, stack, call, taps, hurried>>

\* The network, or the timeout of ten seconds: what is shown stays.
FetchFails(s, i) ==
    /\ res' = [res EXCEPT ![s].fetches = RemoveAt(@, i)]
    /\ UNCHANGED <<server, received, stack, finalized, call, late, taps, hurried>>

-----------------------------------------------------------------------------
(* What the screens derive from the row (mission-dashboard.ts).             *)

\* Mutant: the amount shown is the best offer so far.
ValidationVariant_Best(r) ==
    IF r.status # "EN_ATTENTE_VALIDATION" THEN {}
    ELSE {[offer |-> r.reason \in OfferReason, amount |-> r.best]}

\* Nothing is waiting any more, or what can be answered: an offer, or an alert.
ValidationVariant(r) ==
    IF r.status # "EN_ATTENTE_VALIDATION" \/ (r.reason \in OfferReason /\ r.offer = Null) THEN {}
    ELSE {[offer |-> r.reason \in OfferReason, amount |-> r.offer]}

\* SUSPENDABLE, RECAP_STATUSES and pendingValidationSummary.
Menu(r) ==
    IF r.status \in Resumable THEN {"SUSPEND", "STOP"}
    ELSE IF r.status = "SUSPENDUE" THEN {"RESUME", "STOP"} ELSE {}

Doors(r) ==
    (IF r.status = "EN_ATTENTE_VALIDATION" THEN {"sheet"} ELSE {})
    \cup (IF r.status \in {"VENDU", "MISSION_TERMINEE", "ARRETEE"} THEN {"recap"} ELSE {})

Priced(e) == e.amount # Null
IsSale(e) == e.kind \in {"AUTO_ACCEPT", "SALE_CONFIRMED"}

AmountAt(events, i) == IF i = 0 THEN Null ELSE events[i].amount

\* Mutant: the events are taken in the order of the answer.
FirstOffer_Unsorted(events) == AmountAt(events, SelectInSeq(events, Priced))

FirstOffer(events) == AmountAt(events, SelectLastInSeq(events, Priced))

\* The report: none, or how the mission ended, at what price, from which first offer.
MissionRecap(r, events) ==
    LET sale == SelectInSeq(events, IsSale)
    IN IF "recap" \notin Doors(r) THEN {}
       ELSE IF r.sold = Null THEN {[kind |-> "STOPPED_NO_SALE", amount |-> Null, first |-> Null]}
       ELSE {[kind |-> IF sale # 0 /\ events[sale].kind = "AUTO_ACCEPT"
                       THEN "SOLD_ZERO_CLICK" ELSE "SOLD_BY_HUMAN",
              amount |-> r.sold, first |-> FirstOffer(events)]}

-----------------------------------------------------------------------------
(* The screens.                                                             *)

Top(s) == stack # <<>> /\ Last(stack) = s
Data(s) == res[s].data

\* From the tabs, or by the card or the banner of the dashboard.
Open(s) ==
    /\ \/ s = "dash" /\ stack = <<>>
       \/ Top("dash") /\ Data("dash") # Null /\ s \in Doors(Data("dash").row)
    /\ Goto(Append(stack, s), {s})
    /\ call' = Orphaned(call)
    /\ UNCHANGED <<server, received, late, taps, hurried>>

\* The cross, the arrow or the gesture; the header of the report goes to the tabs.
Back ==
    /\ stack # <<>>
    /\ \E screens \in {Front(stack)} \cup (IF Top("recap") THEN {<<>>} ELSE {}) :
          Goto(screens, {})
    /\ call' = Orphaned(call)
    /\ hurried' = (hurried \/ call' # call)
    /\ UNCHANGED <<server, received, late, taps>>

\* Pull to refresh, and the retry of a screen that shows nothing yet.
Refresh(s) ==
    /\ Top(s) /\ (s = "dash" \/ Data(s) = Null)
    /\ res' = [res EXCEPT ![s] = Loaded(@)]
    /\ UNCHANGED <<server, received, stack, finalized, call, late, taps, hurried>>

Send(c, op, from, amount) ==
    /\ call[c] = NoCall /\ taps < MaxTaps
    /\ taps' = taps + 1
    /\ call' = [call EXCEPT ![c] = [op |-> op, from |-> from, mine |-> TRUE, amount |-> amount,
                                    answer |-> "waiting"]]
    /\ UNCHANGED <<server, received, stack, res, finalized, late, hurried>>

Choose(c) ==
    /\ Top("dash") /\ Data("dash") # Null
    /\ \E op \in Menu(Data("dash").row) : Send(c, op, "dash", Null)

\* The buttons of the sheet wait for the call that it made.
Resolve(c) ==
    /\ Top("sheet") /\ Data("sheet") # Null
    /\ \A d \in Slot : ~(call[d].from = "sheet" /\ call[d].mine)
    /\ \E variant \in ValidationVariant(Data("sheet").row) :
          \/ variant.offer /\ Send(c, "ACCEPT", "sheet", variant.amount)
          \/ Send(c, "CLOSE", "sheet", Null)

Serve(c) ==
    /\ call[c].answer = "waiting"
    /\ \E answer \in Answer :
          /\ Execute([kind |-> call[c].op], answer)
          /\ call' = [call EXCEPT ![c].answer = answer]
    /\ UNCHANGED <<received, stack, res, finalized, late, taps, hurried>>

\* act(): the dashboard is refreshed; resolve(): the report instead of what is
\* on top, or back.  Told that the offer was withdrawn, the seller closes the
\* sheet; told of another refusal, they stay on it.
Answered(c) ==
    LET answer == call[c]
        rest   == [call EXCEPT ![c] = NoCall]
    IN /\ answer.answer \in Answer
       /\ \/ /\ answer.from = "dash"
             /\ res' = [res EXCEPT !["dash"] =
                           IF answer.mine /\ answer.answer = "ok" THEN Loaded(@) ELSE @]
             /\ call' = rest /\ UNCHANGED <<stack, finalized>>
          \/ /\ answer.from = "sheet" /\ answer.answer = "refused"
             /\ call' = rest /\ UNCHANGED <<stack, res, finalized>>
          \/ /\ answer.from = "sheet" /\ answer.answer # "refused"
             /\ LET below == IF stack = <<>> THEN <<>> ELSE Front(stack)
                IN IF answer.answer = "ok" /\ answer.op = "ACCEPT"
                   THEN Goto(Append(below, "recap"), {"recap"}) ELSE Goto(below, {})
             /\ call' = Orphaned(rest)
       /\ hurried' = (hurried \/ \E d \in Slot : call'[d].mine # rest[d].mine)
       /\ UNCHANGED <<server, received, late, taps>>

\* No answer in ten seconds, or the network: the call may be executed all the same.
GiveUp(c) ==
    /\ call[c].answer # "none"
    /\ call' = [call EXCEPT ![c] = NoCall]
    /\ late' = IF call[c].answer = "waiting" THEN late \cup {[kind |-> call[c].op]} ELSE late
    /\ hurried' = TRUE
    /\ UNCHANGED <<server, received, stack, res, finalized, taps>>

ServeLate ==
    /\ \E op \in late, answer \in Answer : Execute(op, answer) /\ late' = late \ {op}
    /\ UNCHANGED <<received, stack, res, finalized, call, taps, hurried>>

Next ==
    \/ BuyerWrites \/ Back \/ ServeLate
    \/ \E s \in Screen :
          \/ Open(s) \/ Refresh(s)
          \/ \E i \in DOMAIN res[s].fetches :
                ReadRow(s, i) \/ ReadEvents(s, i) \/ Arrive(s, i) \/ FetchFails(s, i)
    \/ \E c \in Slot : Choose(c) \/ Resolve(c) \/ Serve(c) \/ Answered(c) \/ GiveUp(c)

Spec == Init /\ [][Next]_vars

-----------------------------------------------------------------------------
(* useApiResource: as long as a screen stays, whatever focuses, refreshes,   *)
(* actions and slow answers, what it shows never goes back to an older row.  *)
ShownNeverGoesBack ==
    [][\A s \in Screen : Data(s) # Null /\ Data(s)' # Null
          => Data(s).version <= Data(s)'.version]_vars

(* mission-recap: the report tells the sale that was made, its amount and    *)
(* whether the seller or the mandate concluded it, although the row and the  *)
(* timeline are read one after the other.  The mandate is never credited     *)
(* with a sale of the seller; that it is credited with its own, and that the *)
(* offer compared with is the first one, takes a timeline that fits the page *)
(* (a sold mission goes on answering messages, and they push the sale out).  *)
RecapTellsTheSale ==
    Data("recap") # Null => \A recap \in MissionRecap(Data("recap").row, Data("recap").events) :
       LET sales == {e \in Range(timeline) : IsSale(e)}
           byMandate == \E e \in sales : e.kind = "AUTO_ACCEPT"
       IN /\ recap.kind = "STOPPED_NO_SALE" <=> sales = {}
          /\ recap.kind = "SOLD_ZERO_CLICK" => byMandate
          /\ \A e \in sales : recap.amount = e.amount
          /\ sales # {} /\ Len(timeline) <= Page
                => /\ byMandate => recap.kind = "SOLD_ZERO_CLICK"
                   /\ recap.first = AmountAt(timeline, SelectInSeq(timeline, Priced))

(* mission-validate: what the seller sells is what the sheet showed when     *)
(* they accepted, as long as they waited for the answers to their calls.     *)
SoldIsWhatWasShown ==
    [][\A c \in Slot :
          /\ call[c].op = "ACCEPT" /\ call[c].answer = "waiting" /\ call'[c].answer = "ok"
          /\ ~hurried
          => row'.sold = call[c].amount]_vars

(* mission-validate.tsx:25-27, about an offer withdrawn meanwhile: "on       *)
(* l'affiche clairement plutot que de laisser accepter une offre morte".     *)
NeverADeadOffer ==
    [][\A c \in Slot :
          call[c].op = "ACCEPT" /\ call[c].answer = "waiting" /\ call'[c].answer = "ok"
             => row'.sold = call[c].amount]_vars

(* mission.tsx:70-72: what the menu offers for the row as it is when the call  *)
(* arrives is something the server does.                                     *)
MenuIsHonoured ==
    [][\A c \in Slot :
          call[c].from = "dash" /\ call[c].answer = "waiting" /\ call'[c].answer = "refused"
             => call[c].op \notin Menu(row)]_vars
=============================================================================
