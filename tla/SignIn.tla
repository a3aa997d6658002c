------------------------------- MODULE SignIn -------------------------------
(***************************************************************************)
(* Sign-in by magic link: MagicLinkService behind the /auth routes, the    *)
(* login and verify screens, and the token the phone keeps (auth.store.ts) *)
(* until an answer 401 or the user removes it (services/api.ts,            *)
(* profile.tsx).                                                           *)
(*                                                                         *)
(* request() and verify() await the database several times and hold no     *)
(* lock in between: each await ends a step.  A session is named by the     *)
(* link that opened it.                                                    *)
(***************************************************************************)
EXTENDS Naturals, FiniteSets

CONSTANTS
    Email,
    Link,       \* bound: links ever created
    Ask,        \* POST /auth/magic-link requests in flight
    Check,      \* POST /auth/verify requests in flight
    MaxCrashes, \* bound: server restarts
    NoEmail, NoLink

SignInAssumption == MaxCrashes \in Nat /\ NoEmail \notin Email

VARIABLES
    link,    \* the rows of MagicLinkToken
    newest,  \* the link created last for each email (a history variable)
    mailed,  \* links that reached the mailbox
    ask,     \* request(), by request
    check,   \* verify(), by request
    account, \* emails that have a user
    signed,  \* how many tokens each link has given
    expired, \* sessions older than 30 days
    token,   \* the session the phone keeps
    call,    \* the API call of the phone: the session it was made with
    crashes

vars == <<link, newest, mailed, ask, check, account, signed, expired, token, call, crashes>>

\* "deleted" rows are gone; "old" is past expiresAt.
Row == [state : {"unborn", "active", "old", "used", "deleted"}, email : Email \cup {NoEmail}]
Asking == [step : {"idle", "create", "send"}, email : Email \cup {NoEmail},
           l : Link \cup {NoLink}]
Checking == [step : {"idle", "find", "consume", "user", "create", "answered"},
             l : Link \cup {NoLink}]

NotAsking == [step |-> "idle", email |-> NoEmail, l |-> NoLink]
NotChecking == [step |-> "idle", l |-> NoLink]

TypeOK ==
    /\ link \in [Link -> Row]
    /\ \A l \in Link : link[l].email = NoEmail <=> link[l].state = "unborn"
    /\ newest \in [Email -> Link \cup {NoLink}]
    /\ mailed \subseteq Link
    /\ ask \in [Ask -> Asking]
    /\ check \in [Check -> Checking]
    /\ account \subseteq Email
    /\ signed \in [Link -> Nat]
    /\ expired \subseteq Link
    /\ token \in Link \cup {NoLink}
    /\ call \in Link \cup {NoLink}
    /\ crashes \in 0 .. MaxCrashes

Init ==
    /\ link = [l \in Link |-> [state |-> "unborn", email |-> NoEmail]]
    /\ newest = [e \in Email |-> NoLink]
    /\ mailed = {}
    /\ ask = [a \in Ask |-> NotAsking]
    /\ check = [c \in Check |-> NotChecking]
    /\ account \in SUBSET Email
    /\ signed = [l \in Link |-> 0]
    /\ expired = {}
    /\ token = NoLink /\ call = NoLink
    /\ crashes = 0

-----------------------------------------------------------------------------
(* request(): the links not consumed are deleted, one is created, and sent. *)

Unconsumed(e) == {l \in Link : link[l].email = e /\ link[l].state \in {"active", "old"}}

Without(ls) == [l \in Link |-> IF l \in ls THEN [link[l] EXCEPT !.state = "deleted"]
                                           ELSE link[l]]

\* The login screen: "busy" forbids a second request, but not a second screen.
StartAsk(a, e) ==
    /\ ask[a].step = "idle"
    /\ link' = Without(Unconsumed(e))
    /\ ask' = [ask EXCEPT ![a] = [step |-> "create", email |-> e, l |-> NoLink]]
    /\ UNCHANGED <<newest, mailed, check, account, signed, expired, token, call, crashes>>

\* Mutant: the other links are deleted when the new one is sent.
SendLink_DeletesThen(a) ==
    /\ ask[a].step = "send"
    /\ link' = Without(Unconsumed(ask[a].email) \ {ask[a].l})
    /\ mailed' = mailed \cup {ask[a].l}
    /\ ask' = [ask EXCEPT ![a] = NotAsking]
    /\ UNCHANGED <<newest, check, account, signed, expired, token, call, crashes>>

CreateLink(a, l) ==
    /\ ask[a].step = "create" /\ link[l].state = "unborn"
    /\ link' = [link EXCEPT ![l] = [state |-> "active", email |-> ask[a].email]]
    /\ newest' = [newest EXCEPT ![ask[a].email] = l]
    /\ ask' = [ask EXCEPT ![a].step = "send", ![a].l = l]
    /\ UNCHANGED <<mailed, check, account, signed, expired, token, call, crashes>>

\* The provider takes the mail, or the request ends in an error.
SendLink(a) ==
    /\ ask[a].step = "send"
    /\ mailed' \in {mailed, mailed \cup {ask[a].l}}
    /\ ask' = [ask EXCEPT ![a] = NotAsking]
    /\ UNCHANGED <<newest, link, check, account, signed, expired, token, call, crashes>>

LinkExpires(l) ==
    /\ link[l].state = "active"
    /\ link' = [link EXCEPT ![l].state = "old"]
    /\ UNCHANGED <<newest, mailed, ask, check, account, signed, expired, token, call, crashes>>

-----------------------------------------------------------------------------
(* verify(), and the screen that calls it.                                  *)

\* The user opens a link of the mailbox, perhaps for the second time.
OpenLink(c, l) ==
    /\ check[c].step = "idle" /\ l \in mailed
    /\ check' = [check EXCEPT ![c] = [step |-> "find", l |-> l]]
    /\ UNCHANGED <<newest, link, mailed, ask, account, signed, expired, token, call, crashes>>

Ends(c) == check' = [check EXCEPT ![c] = NotChecking]
Goes(c, step) == check' = [check EXCEPT ![c].step = step]

FindLink(c) ==
    /\ check[c].step = "find"
    /\ IF link[check[c].l].state = "active" THEN Goes(c, "consume") ELSE Ends(c)
    /\ UNCHANGED <<newest, link, mailed, ask, account, signed, expired, token, call, crashes>>

\* Mutant: the row is updated by its id alone.
Consume_Unguarded(c) ==
    /\ check[c].step = "consume"
    /\ link' = [link EXCEPT ![check[c].l].state = "used"]
    /\ Goes(c, "user")
    /\ UNCHANGED <<newest, mailed, ask, account, signed, expired, token, call, crashes>>

\* updateMany where consumedAt is null: one of the requests wins the row.
Consume(c) ==
    /\ check[c].step = "consume"
    /\ IF link[check[c].l].state \in {"active", "old"}
       THEN link' = [link EXCEPT ![check[c].l].state = "used"] /\ Goes(c, "user")
       ELSE UNCHANGED link /\ Ends(c)
    /\ UNCHANGED <<newest, mailed, ask, account, signed, expired, token, call, crashes>>

Signs(c) ==
    /\ signed' = [signed EXCEPT ![check[c].l] = @ + 1]
    /\ Goes(c, "answered")

\* upsert with a nested wallet: the user is read, then created if it is new.
FindUser(c) ==
    /\ check[c].step = "user"
    /\ \/ link[check[c].l].email \in account /\ Signs(c)
       \/ link[check[c].l].email \notin account /\ Goes(c, "create") /\ UNCHANGED signed
    /\ UNCHANGED <<newest, link, mailed, ask, account, expired, token, call, crashes>>

\* The loser of a race to create the same user gets an error.
CreateUser(c) ==
    /\ check[c].step = "create"
    /\ \/ /\ link[check[c].l].email \notin account
          /\ account' = account \cup {link[check[c].l].email}
          /\ Signs(c)
       \/ /\ link[check[c].l].email \in account
          /\ Ends(c) /\ UNCHANGED <<account, signed>>
    /\ UNCHANGED <<newest, link, mailed, ask, expired, token, call, crashes>>

\* The answer reaches the screen, or it is lost.
SignedIn(c) ==
    /\ check[c].step = "answered"
    /\ token' \in {token, check[c].l}
    /\ Ends(c)
    /\ UNCHANGED <<newest, link, mailed, ask, account, signed, expired, call, crashes>>

-----------------------------------------------------------------------------
(* The session.                                                             *)

SessionExpires(l) ==
    /\ signed[l] > 0 /\ l \notin expired
    /\ expired' = expired \cup {l}
    /\ UNCHANGED <<newest, link, mailed, ask, check, account, signed, token, call, crashes>>

CallApi ==
    /\ token # NoLink /\ call = NoLink
    /\ call' = token
    /\ UNCHANGED <<newest, link, mailed, ask, check, account, signed, expired, token, crashes>>

\* A 401 removes whatever token is there by then.
ApiAnswers ==
    /\ call # NoLink
    /\ token' = IF call \in expired THEN NoLink ELSE token
    /\ call' = NoLink
    /\ UNCHANGED <<newest, link, mailed, ask, check, account, signed, expired, crashes>>

SignOut ==
    /\ token # NoLink
    /\ token' = NoLink
    /\ UNCHANGED <<newest, link, mailed, ask, check, account, signed, expired, call, crashes>>

\* The server restarts: requests stop where they are.
Crash ==
    /\ crashes < MaxCrashes
    /\ crashes' = crashes + 1
    /\ ask' = [a \in Ask |-> NotAsking]
    /\ check' = [c \in Check |-> NotChecking]
    /\ UNCHANGED <<newest, link, mailed, account, signed, expired, token, call>>

Next ==
    \/ \E a \in Ask, e \in Email : StartAsk(a, e)
    \/ \E a \in Ask : SendLink(a) \/ \E l \in Link : CreateLink(a, l)
    \/ \E l \in Link : LinkExpires(l) \/ SessionExpires(l) \/ \E c \in Check : OpenLink(c, l)
    \/ \E c \in Check : FindLink(c) \/ Consume(c) \/ FindUser(c) \/ CreateUser(c) \/ SignedIn(c)
    \/ CallApi \/ ApiAnswers \/ SignOut
    \/ Crash

Spec == Init /\ [][Next]_vars

-----------------------------------------------------------------------------
(* What is expected of it.                                                  *)

\* A link signs in once, however often and from however many places it is
\* opened (magic-link.service.ts:27, "usage unique").
SignsInOnce ==
    \A l \in Link : signed[l] <= 1

\* Requests overlap, and each deletes the links it finds before it creates its
\* own.  When none is between the two, and no restart interrupted one, the link
\* created last for an email was deleted by nobody: its mail opens a session
\* unless it is opened late or for the second time.
NotDeleted(l) == link[l].state \in {"active", "old", "used"}

NewestLinkIsLeft ==
    \A e \in Email :
        /\ crashes = 0
        /\ \A a \in Ask : ~(ask[a].email = e /\ ask[a].step = "create")
        /\ newest[e] # NoLink
        => NotDeleted(newest[e])

\* magic-link.service.ts:47, "Un seul lien actif": a user has one link to open
\* at most.
OneActiveLink ==
    \A e \in Email : Cardinality({l \in Link : link[l].email = e /\ link[l].state = "active"}) <= 1

-----------------------------------------------------------------------------
(* The inductive invariant of the proofs (PhoneProofs).                     *)

\* A request under way works on an email, and on a link once it has one.
RequestsAreReal ==
    /\ \A a \in Ask : /\ ask[a].step # "idle" => ask[a].email \in Email
                      /\ ask[a].step = "send" => ask[a].l \in Link
    /\ \A c \in Check : check[c].step # "idle" => check[c].l \in Link

\* The request has consumed the link and has not signed in yet.
Claims(c, l) == check[c].l = l /\ check[c].step \in {"user", "create"}

\* A link is consumed before it signs in, and by one request.
OneClaim ==
    /\ \A l \in Link : signed[l] <= 1 /\ (signed[l] > 0 => link[l].state = "used")
    /\ \A c \in Check, l \in Link :
          Claims(c, l) => /\ link[l].state = "used" /\ signed[l] = 0
                          /\ \A d \in Check : Claims(d, l) => d = c

\* The link created last is left, or a request is about to create another.
LinkIsComing ==
    \A e \in Email : newest[e] # NoLink =>
        /\ newest[e] \in Link /\ link[newest[e]].email = e
        /\ crashes = 0 => \/ NotDeleted(newest[e])
                          \/ \E a \in Ask : ask[a].email = e /\ ask[a].step = "create"

SignInInv == TypeOK /\ RequestsAreReal /\ OneClaim /\ LinkIsComing
=============================================================================
