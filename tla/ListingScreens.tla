--------------------------- MODULE ListingScreens ---------------------------
(***************************************************************************)
(* One annonce on the screens of its seller: the list of the home tab      *)
(* (index.tsx, over useApiResource), the page of the annonce               *)
(* (listing-view.tsx) and its editing (listing-edit.tsx), with the routes  *)
(* GET /listing, GET /listing/:id, /edit and /cancel of listing.ts.        *)
(*                                                                         *)
(* The screens are stacked: home, then the page, then the form.  A call    *)
(* the phone has given up on (10 s) may still be executed, and an answer   *)
(* is used wherever the seller is by then.  The annonce is not Premium.    *)
(***************************************************************************)
EXTENDS ListingTransitions, Integers

CONSTANTS
    Titre, Price, Haut,
    Filter,   \* the chips the seller uses
    Call,     \* requests in flight
    Null

ScreensAssumption ==
    /\ Price \subseteq Nat /\ Haut \in Nat /\ Null \notin Titre \cup Nat
    /\ Filter \subseteq {"TOUT", "EN_LIGNE", "A_VALIDER", "EN_COURS", "ANNULEES"}
    /\ "TOUT" \in Filter

VARIABLES
    row,    \* the annonce on the server; "hidden" is cancelled for 24 h
    filter, \* the chip chosen on the home tab
    list,   \* the answer the home tab shows: asked with the cancelled ones, and the status
    view,   \* the status the page shows, or the error over it
    screen, \* the one on top
    form,   \* the form: the call it waits for
    call,   \* the calls, as their step at the server
    sent    \* the contents a seller has asked for

screenVars == <<filter, list, view, screen, form>>
vars == <<row, screenVars, call, sent>>

Seen == ListingStatus \cup {"ABSENT", "NONE"}
Content == [titre : Titre \cup {Null}, prix : Price \cup {Null}]

\* The kinds "list", "view" and "form" are reads. A call nobody waits for has
\* been given up; "seen" is the status read by the server, "prix" the price read
\* when the patch has none.
Request == [kind : {"idle", "list", "view", "form", "edit", "cancel"},
            waited : BOOLEAN, all : BOOLEAN, patch : Content,
            step : {"sent", "read", "ok", "refused"},
            seen : Seen, prix : Price \cup {Null}]

NoPatch == [titre |-> Null, prix |-> Null]
Idle == [kind |-> "idle", waited |-> FALSE, all |-> FALSE, patch |-> NoPatch,
         step |-> "sent", seen |-> "NONE", prix |-> Null]
NoView == [seen |-> "NONE", error |-> FALSE]
NoForm == [shown |-> FALSE, call |-> Null]

TypeOK ==
    /\ row \in [status : ListingStatus, titre : Titre, prix : Price, flagged : BOOLEAN,
                hidden : BOOLEAN]
    /\ filter \in Filter
    /\ list \in [all : BOOLEAN, seen : Seen, error : BOOLEAN]
    /\ view \in [seen : Seen, error : BOOLEAN]
    /\ screen \in {"home", "view", "edit"}
    /\ form \in [shown : BOOLEAN, call : Call \cup {Null}]
    /\ call \in [Call -> Request]
    /\ sent \subseteq [titre : Titre, prix : Price]

\* isPriceFlagged(): above 1.2 times the estimate, rounded.
IsPriceFlagged(p) == p > (12 * Haut + 5) \div 10

\* The home tab has just been opened, on an annonce that was validated.
Init ==
    /\ \E t \in Titre, p \in Price :
        /\ row = [status |-> "QUEUED", titre |-> t, prix |-> p,
                  flagged |-> IsPriceFlagged(p), hidden |-> FALSE]
        /\ sent = {[titre |-> t, prix |-> p]}
    /\ filter = "TOUT"
    /\ list = [all |-> FALSE, seen |-> "NONE", error |-> FALSE]
    /\ view = NoView /\ screen = "home" /\ form = NoForm
    /\ call = [c \in Call |-> Idle]

Free(c) == call[c].kind = "idle"
Waits(kind) == \E c \in Call : call[c].kind = kind /\ call[c].waited
Send(kind, all, patch) ==
    [Idle EXCEPT !.kind = kind, !.waited = TRUE, !.all = all, !.patch = patch]

-----------------------------------------------------------------------------
(* The server.                                                              *)

Editable == {"USER_VALIDATED", "QUEUED"}

\* The list leaves out what was cancelled more than 24 h ago, unless asked for it.
\* The form shows the annonce whatever its status.
ReadBy(q) ==
    IF q.kind = "form" THEN "NONE"
    ELSE IF q.kind = "list" /\ row.status = "USER_CANCELLED" /\ row.hidden /\ ~q.all
         THEN "ABSENT" ELSE row.status

ServeRead(c) ==
    /\ call[c].kind \in {"list", "view", "form"} /\ call[c].step = "sent"
    /\ call' = [call EXCEPT ![c].step = "ok", ![c].seen = ReadBy(call[c])]
    /\ UNCHANGED <<row, screenVars, sent>>

\* A served edit or cancel nobody waits for is over.
Answered(c, answer) ==
    call' = [call EXCEPT ![c] = IF @.waited THEN [@ EXCEPT !.step = answer] ELSE Idle]

\* editContent() reads the row, and writes it by its id.
EditReads(c) ==
    /\ call[c].kind = "edit" /\ call[c].step = "sent"
    /\ IF row.status \in Editable
       THEN call' = [call EXCEPT ![c].step = "read",
                    ![c].prix = IF call[c].patch.prix = Null THEN row.prix ELSE Null]
       ELSE Answered(c, "refused")
    /\ UNCHANGED <<row, screenVars, sent>>

EditWrites(c) ==
    /\ call[c].kind = "edit" /\ call[c].step = "read"
    /\ LET patch == call[c].patch
           price == IF patch.prix = Null THEN call[c].prix ELSE patch.prix
       IN  row' = [row EXCEPT !.titre = IF patch.titre = Null THEN @ ELSE patch.titre,
                              !.prix = IF patch.prix = Null THEN @ ELSE patch.prix,
                              !.flagged = IsPriceFlagged(price), !.hidden = FALSE]
    /\ Answered(c, "ok")
    /\ UNCHANGED <<screenVars, sent>>

ServeCancel(c) ==
    /\ call[c].kind = "cancel" /\ call[c].step = "sent"
    /\ IF CanTransition(row.status, "USER_CANCELLED")
       THEN row' = [row EXCEPT !.status = "USER_CANCELLED"] /\ Answered(c, "ok")
       ELSE UNCHANGED row /\ Answered(c, "refused")
    /\ UNCHANGED <<screenVars, sent>>

\* The publication. Nothing calls expire().
Publication(to) ==
    /\ to \in {"PUBLISHED", "PUBLISH_FAILED"} /\ CanTransition(row.status, to)
    /\ row' = [row EXCEPT !.status = to]
    /\ UNCHANGED <<screenVars, call, sent>>

\* HIDE_CANCELLED_AFTER_MS since the last write.
DayPasses ==
    /\ row.status = "USER_CANCELLED" /\ ~row.hidden
    /\ row' = [row EXCEPT !.hidden = TRUE]
    /\ UNCHANGED <<screenVars, call, sent>>

-----------------------------------------------------------------------------
(* The home tab and the page.                                               *)

\* load() of useApiResource does nothing while a load is in flight.
HomeLoads(c, chip) ==
    IF Waits("list") THEN UNCHANGED call
    ELSE Free(c) /\ call' = [call EXCEPT ![c] = Send("list", chip = "ANNULEES", NoPatch)]

\* The first focus, a pull and "Réessayer".
LoadHome(c) ==
    /\ screen = "home" /\ ~Waits("list")
    /\ HomeLoads(c, filter)
    /\ UNCHANGED <<row, screenVars, sent>>

\* A chip is chosen, and the effect on it retries.
ChooseFilter(c, chip) ==
    /\ screen = "home" /\ chip # filter
    /\ filter' = chip
    /\ HomeLoads(c, chip)
    /\ UNCHANGED <<row, list, view, screen, form, sent>>

Listed(chip, status) ==
    CASE chip = "TOUT" -> TRUE
      [] chip = "EN_LIGNE" -> status = "PUBLISHED"
      [] chip = "A_VALIDER" -> status = "DRAFT_READY"
      [] chip = "EN_COURS" ->
           status \in {"AUTHORIZED", "AI_PROCESSING", "USER_VALIDATED", "QUEUED"}
      [] chip = "ANNULEES" -> status = "USER_CANCELLED"

\* The tile is touched: the page is mounted, and loads on its focus.
OpenView(c) ==
    /\ screen = "home" /\ Free(c)
    /\ list.seen \in ListingStatus /\ Listed(filter, list.seen)
    /\ screen' = "view"
    /\ call' = [call EXCEPT ![c] = Send("view", FALSE, NoPatch)]
    /\ UNCHANGED <<row, filter, list, view, form, sent>>

\* "Modifier": the form is mounted over the page, with a load of its own.
OpenForm(c) ==
    /\ screen = "view" /\ view.seen \in Editable /\ ~view.error /\ Free(c)
    /\ screen' = "edit" /\ form' = NoForm
    /\ call' = [call EXCEPT ![c] = Send("form", FALSE, NoPatch)]
    /\ UNCHANGED <<row, filter, list, view, sent>>

\* "Réessayer" of the page and of the form.
Retry(c) ==
    /\ Free(c)
    /\ \/ /\ screen = "view" /\ view.error
          /\ call' = [call EXCEPT ![c] = Send("view", FALSE, NoPatch)]
       \/ /\ screen = "edit" /\ ~form.shown /\ ~Waits("form")
          /\ call' = [call EXCEPT ![c] = Send("form", FALSE, NoPatch)]
    /\ view' = IF screen = "view" THEN [view EXCEPT !.error = FALSE] ELSE view
    /\ UNCHANGED <<row, filter, list, screen, form, sent>>

\* The screen on top is left for the one below it, which loads on its focus.
\* The loads of what is unmounted answer nobody, and c carries the new one.
Below == [edit |-> "view", view |-> "home"]
Unmounts == [edit |-> "form", view |-> "view"]

Pop(c, calls) ==
    LET left == [d \in Call |-> IF calls[d].kind = Unmounts[screen] THEN Idle ELSE calls[d]]
        busy == \E d \in Call : left[d].kind = "list" /\ left[d].waited
    IN  /\ screen' = Below[screen] /\ form' = NoForm
        /\ view' = IF screen = "view" THEN NoView ELSE [view EXCEPT !.error = FALSE]
        /\ IF screen = "view" /\ busy THEN call' = left
           ELSE /\ left[c].kind = "idle"
                /\ call' = [left EXCEPT ![c] =
                       IF screen = "edit" THEN Send("view", FALSE, NoPatch)
                                          ELSE Send("list", filter = "ANNULEES", NoPatch)]

Back(c) ==
    /\ screen # "home"
    /\ Pop(c, call)
    /\ UNCHANGED <<row, filter, list, sent>>

-----------------------------------------------------------------------------
(* The form.                                                                *)

\* Mutant: only what the seller has changed is sent.
Patch_Changes(t, p) ==
    [titre |-> IF t = row.titre THEN Null ELSE t, prix |-> IF p = row.prix THEN Null ELSE p]

\* save() sends the whole form.
Patch(t, p) == [titre |-> t, prix |-> p]

\* Bound: a content is asked for once.
Save(c, t, p) ==
    /\ screen = "edit" /\ form.shown /\ form.call = Null /\ Free(c)
    /\ [titre |-> t, prix |-> p] \notin sent
    /\ form' = [form EXCEPT !.call = c]
    /\ call' = [call EXCEPT ![c] = Send("edit", FALSE, Patch(t, p))]
    /\ sent' = sent \cup {[titre |-> t, prix |-> p]}
    /\ UNCHANGED <<row, filter, list, view, screen>>

Cancel(c) ==
    /\ screen = "edit" /\ form.shown /\ form.call = Null /\ Free(c)
    /\ form' = [form EXCEPT !.call = c]
    /\ call' = [call EXCEPT ![c] = Send("cancel", FALSE, NoPatch)]
    /\ UNCHANGED <<row, filter, list, view, screen, sent>>

-----------------------------------------------------------------------------
(* The answers.                                                             *)

\* The form no longer waits for c, if it is the one that did.
Released(c) == IF form.call = c THEN [form EXCEPT !.call = Null] ELSE form

ReadArrives(c) ==
    /\ call[c].waited /\ call[c].kind \in {"list", "view", "form"} /\ call[c].step = "ok"
    /\ call' = [call EXCEPT ![c] = Idle]
    /\ list' = IF call[c].kind = "list"
               THEN [all |-> call[c].all, seen |-> call[c].seen, error |-> FALSE] ELSE list
    /\ view' = IF call[c].kind = "view" THEN [view EXCEPT !.seen = call[c].seen] ELSE view
    /\ form' = IF call[c].kind = "form" THEN [form EXCEPT !.shown = TRUE] ELSE form
    /\ UNCHANGED <<row, filter, screen, sent>>

\* goBack(), called by the form when its call succeeds, even if it was left.
WriteArrives(c) ==
    /\ call[c].waited /\ call[c].kind \in {"edit", "cancel"} /\ call[c].step = "ok"
    /\ IF screen = "home"
       THEN call' = [call EXCEPT ![c] = Idle] /\ UNCHANGED <<screen, form, view>>
       ELSE Pop(c, [call EXCEPT ![c] = Idle])
    /\ UNCHANGED <<row, filter, list, sent>>

\* LISTING_NOT_EDITABLE, INVALID_TRANSITION: a message.
Refused(c) ==
    /\ call[c].waited /\ call[c].step = "refused"
    /\ call' = [call EXCEPT ![c] = Idle]
    /\ form' = Released(c)
    /\ UNCHANGED <<row, filter, list, view, screen, sent>>

\* TIMEOUT or NETWORK_ERROR. A read is lost; a write may still be executed.
GiveUp(c) ==
    /\ call[c].waited
    /\ call' \in {[call EXCEPT ![c] = Idle]} \cup
                 (IF call[c].kind \in {"edit", "cancel"} /\ call[c].step \in {"sent", "read"}
                  THEN {[call EXCEPT ![c].waited = FALSE]} ELSE {})
    /\ form' = Released(c)
    /\ list' = [list EXCEPT !.error = @ \/ call[c].kind = "list"]
    /\ view' = [view EXCEPT !.error = @ \/ call[c].kind = "view"]
    /\ UNCHANGED <<row, filter, screen, sent>>

Next ==
    \/ \E c \in Call :
        \/ ServeRead(c) \/ EditReads(c) \/ EditWrites(c) \/ ServeCancel(c)
        \/ LoadHome(c) \/ OpenView(c) \/ OpenForm(c) \/ Retry(c) \/ Back(c) \/ Cancel(c)
        \/ \E chip \in Filter : ChooseFilter(c, chip)
        \/ \E t \in Titre, p \in Price : Save(c, t, p)
        \/ ReadArrives(c) \/ WriteArrives(c) \/ Refused(c) \/ GiveUp(c)
    \/ \E to \in ListingStatus : Publication(to)
    \/ DayPasses

Spec == Init /\ [][Next]_vars

-----------------------------------------------------------------------------
(* What is expected of it.                                                  *)

\* Edits overlap, and arrive late: what the annonce says was asked for as one,
\* never the title of a form with the price of another, and the warning on the
\* price is about that price.
ContentIsOneForm ==
    /\ [titre |-> row.titre, prix |-> row.prix] \in sent
    /\ row.flagged = IsPriceFlagged(row.prix)

\* A form is sent whole: each edit under way carries the content of one form.
EditsAreWhole == \A c \in Call : call[c].kind = "edit" => call[c].patch \in sent

ScreensInv == TypeOK /\ EditsAreWhole /\ ContentIsOneForm

-----------------------------------------------------------------------------
(* What the code does not hold.                                             *)

\* "le filtre « Annulées » les redemande explicitement" (index.tsx:77): when
\* nothing is being loaded and no error is shown, the list was asked for the chip
\* that is shown.
FilterShowsItsOwn ==
    list.seen # "NONE" /\ ~list.error /\ ~Waits("list") => list.all = (filter = "ANNULEES")

\* The answer to a form closes that form, and no other screen.
AnswerClosesItsForm ==
    [][\A c \in Call : WriteArrives(c) => screen = "edit" /\ form.call = c]_vars
=============================================================================
