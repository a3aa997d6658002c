------------------------------- MODULE MCPhone -------------------------------
(***************************************************************************)
(* Five small systems around the phone in one run: the mandate of a        *)
(* Premium sale, the sign-in, the recorder of the dev sessions, the photos *)
(* of a listing and the screens of an annonce.  They share no state, so a  *)
(* behaviour runs one of them and leaves the others where they start: the  *)
(* states are those of the five put side by side, never multiplied.        *)
(* MCMandateFlow.cfg and MCDevSessions.cfg hold other instances of two.    *)
(***************************************************************************)
EXTENDS MandateFlow, TLC

CONSTANTS
    \* SignIn
    Email, Link, Ask, Check, MaxCrashes, NoEmail, NoLink,
    \* DevSessions
    Task, MaxBuffer, MaxEvents, MaxSessions, MaxChanges,
    \* ListingPhotos
    Photo, Batch, Upload, MaxPhotos, MaxCuts,
    \* ListingScreens
    Titre, Asked, Estimate, Filter, Call

VARIABLES
    link, newest, mailed, ask, check, account, signed, expired, token, call, crashes,
    appState, sessionId, buffer, pushed, task, ended, copies, lost, starts, changes, failed,
    status, file, rows, upload, answered, cuts,
    row, filter, list, view, top, edited, calls, sent,
    running  \* the system this behaviour runs

SignIn == INSTANCE SignIn
Recorder == INSTANCE DevSessions
Photos == INSTANCE ListingPhotos
Screens == INSTANCE ListingScreens
    WITH Price <- Asked, Haut <- Estimate, screen <- top, form <- edited, call <- calls

ASSUME PhoneAssumption ==
    /\ SignIn!SignInAssumption /\ Recorder!DevAssumption
    /\ Photos!PhotosAssumption /\ Screens!ScreensAssumption

signInVars == <<link, newest, mailed, ask, check, account, signed, expired, token, call, crashes>>
recorderVars == <<appState, sessionId, buffer, pushed, task, ended, copies, lost, starts,
                  changes, failed>>
photosVars == <<status, file, rows, upload, answered, cuts>>
screensVars == <<row, filter, list, view, top, edited, calls, sent>>
phoneVars == <<vars, signInVars, recorderVars, photosVars, screensVars, running>>

PhoneInit ==
    /\ running \in {"mandate", "sign-in", "recorder", "photos", "screens"}
    /\ Init /\ SignIn!Init /\ Recorder!Init /\ Photos!Init /\ Screens!Init
    \* One initial state is enough for a system that does not run.
    /\ running # "sign-in" => account = {}
    /\ running # "recorder" => task[CHOOSE t \in Task : TRUE] # Recorder!NoTask
    /\ row.titre = CHOOSE t \in Titre : TRUE
    /\ row.prix = CHOOSE p \in Asked : TRUE

PhoneNext ==
    /\ \/ /\ running = "mandate" /\ Next
          /\ UNCHANGED <<signInVars, recorderVars, photosVars, screensVars>>
       \/ /\ running = "sign-in" /\ SignIn!Next
          /\ UNCHANGED <<vars, recorderVars, photosVars, screensVars>>
       \/ /\ running = "recorder" /\ Recorder!Next
          /\ UNCHANGED <<vars, signInVars, photosVars, screensVars>>
       \/ /\ running = "photos" /\ Photos!Next
          /\ UNCHANGED <<vars, signInVars, recorderVars, screensVars>>
       \/ /\ running = "screens" /\ Screens!Next
          /\ UNCHANGED <<vars, signInVars, recorderVars, photosVars>>
    /\ UNCHANGED running

PhoneSpec == PhoneInit /\ [][PhoneNext]_phoneVars

-----------------------------------------------------------------------------
MCPlancher == [t \in Thing |-> 1]
MCHaut == [t \in Thing |-> 2]

Symmetry == Permutations(Thing)

-----------------------------------------------------------------------------
(* The properties of the instances; they are explained where they are      *)
(* defined.                                                                *)

\* SignIn: a link signs in once, wherever and however often it is opened.
SignsInOnce == SignIn!SignsInOnce

\* SignIn: overlapping requests delete links, and never the one created last.
NewestLinkIsLeft == SignIn!NewestLinkIsLeft

\* DevSessions: an event waits, is on its way, was recorded once or is lost.
EventsAreConserved == Recorder!EventsAreConserved

\* ListingPhotos: what was answered has its rows, and a row has its file.
PhotosAreStored == Photos!PhotosAreStored

\* ListingScreens: an annonce says what one form asked for, and warns of its price.
ContentIsOneForm == Screens!ContentIsOneForm

\* What is proved inductive of the four instances (PhoneProofs).
PhoneInv ==
    /\ SignIn!SignInInv /\ Recorder!RecorderInv
    /\ Photos!PhotosInv /\ Screens!ScreensInv

-----------------------------------------------------------------------------
(* What the instances do not hold, for the counterexamples.                 *)

\* SignIn: a user has one active link.
OneActiveLink == SignIn!OneActiveLink

\* ListingPhotos: a photo sent again makes no second row.
NoPhotoTwice == Photos!NoPhotoTwice

\* ListingPhotos: a listing has at most eight photos.
PhotosAreBounded == Photos!PhotosAreBounded

\* ListingPhotos: no photo is added after the commit.
FrozenAtCommit == Photos!FrozenAtCommit

\* ListingPhotos: no photo is left torn with a row.
NoPhotoIsTorn == Photos!NoPhotoIsTorn

\* ListingScreens: the list shown was asked for the chip shown.
FilterShowsItsOwn == Screens!FilterShowsItsOwn

\* ListingScreens: the answer to a form closes that form.
AnswerClosesItsForm == Screens!AnswerClosesItsForm
=============================================================================
