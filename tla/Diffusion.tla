------------------------------ MODULE Diffusion ------------------------------
(***************************************************************************)
(* The state of the partner accounts (marketplace-auth.service.ts), the    *)
(* screen that offers a channel for publication or only a kit to paste by  *)
(* hand (diffuser.tsx), the connectors that report what the platform says  *)
(* of the account (leboncoin.ts, vinted.ts), and the console that raises   *)
(* an alert when an account is unusable (useMissionControlStore.ts).       *)
(*                                                                         *)
(* What becomes of the listing is PublicationService's; here a publication *)
(* is one attempt for each channel selected.  The simulated platforms of   *)
(* MARKETPLACE_MOCK are left out: they exist out of production only.       *)
(***************************************************************************)
EXTENDS Naturals

CONSTANTS
    Market,       \* the platforms with a partner account: VINTED, LEBONCOIN
    Screen,       \* the Diffuser screens that may be open together
    Attempt,      \* the attempts that may be under way together
    Poll,         \* the fetches of the console that may be under way together
    MaxChanges,   \* bound: times the platforms change their mind
    MaxRestarts,  \* bound: restarts of the server
    Null

ASSUME DiffusionAssumption ==
    MaxChanges \in Nat /\ MaxRestarts \in Nat

VARIABLES
    token,          \* *_ACCESS_TOKEN and *_TOKEN_EXPIRES_AT
    accepts,        \* whether the platform takes the token
    lastAuthError,  \* the platforms whose last word was a 401 or a 403
    screen,         \* the Diffuser screens
    attempt,        \* the calls of the connectors
    poll,           \* the fetches of the console
    shown,          \* the alerts of the console, or Null before the first answer
    changes, restarts

platform == <<accepts, changes>>
server == <<token, lastAuthError, restarts>>
console == <<poll, shown>>
vars == <<platform, server, screen, attempt, console>>

Token == {"absent", "valid", "expired"}
Closed == [at |-> "closed", offered |-> Null, selected |-> {}]
NoAttempt == [market |-> Null, answer |-> "none"]
NoPoll == [at |-> "none", overview |-> Null]

Init ==
    /\ token \in [Market -> Token] /\ accepts \in [Market -> BOOLEAN]
    /\ lastAuthError = {}
    /\ screen = [s \in Screen |-> Closed] /\ attempt = [a \in Attempt |-> NoAttempt]
    \* startPolling fetches at once.
    /\ \E p \in Poll : poll = [q \in Poll |-> IF q = p THEN [NoPoll EXCEPT !.at = "sent"] ELSE NoPoll]
    /\ shown = Null
    /\ changes = 0 /\ restarts = 0

-----------------------------------------------------------------------------
(* MarketplaceAuthService.                                                  *)

ConnectionState(m) ==
    CASE token[m] = "absent" -> "DISCONNECTED"
      [] token[m] = "expired" -> "EXPIRED"
      [] token[m] = "valid" /\ m \in lastAuthError -> "AUTH_ERROR"
      [] OTHER -> "CONNECTED"

Connections == [m \in Market |-> ConnectionState(m)]

\* connectorState, in the words of the console.
ConnectorState(m) ==
    CASE ConnectionState(m) = "CONNECTED" -> "LIVE"
      [] ConnectionState(m) = "DISCONNECTED" -> "MISSING"
      [] OTHER -> ConnectionState(m)

Overview == [m \in Market |-> ConnectorState(m)]

\* resolve: a token that is absent or has expired is never sent.
Resolves(m) == token[m] = "valid"

\* Mutant: a success is not taken into account.
ReportPublishOutcome_KeepsError(m, answer) ==
    IF answer = "refused" THEN lastAuthError \cup {m} ELSE lastAuthError

\* reportPublishOutcome: only a refusal of the account and a success count.
ReportPublishOutcome(m, answer) ==
    CASE answer = "accepted" -> lastAuthError \ {m}
      [] answer = "refused" -> lastAuthError \cup {m}
      [] OTHER -> lastAuthError

\* The date of *_TOKEN_EXPIRES_AT comes.
Expire(m) ==
    /\ token[m] = "valid" /\ token' = [token EXCEPT ![m] = "expired"]
    /\ UNCHANGED <<platform, lastAuthError, restarts, screen, attempt, console>>

\* lastAuthError is in memory, and so are the calls under way; the
\* environment may be another.
Restart ==
    /\ restarts < MaxRestarts /\ restarts' = restarts + 1
    /\ token' \in [Market -> Token]
    /\ lastAuthError' = {}
    /\ attempt' = [a \in Attempt |-> NoAttempt]
    /\ poll' = [p \in Poll |-> NoPoll]
    /\ UNCHANGED <<platform, screen, shown>>

-----------------------------------------------------------------------------
(* The connectors, and the platforms.                                       *)

\* The platform suspends the account, or takes it back.
ChangeOfMind(m) ==
    /\ changes < MaxChanges /\ changes' = changes + 1
    /\ accepts' = [accepts EXCEPT ![m] = ~@]
    /\ UNCHANGED <<server, screen, attempt, console>>

\* The request is refused with its account, accepted, or fails for another
\* reason (the network, a 5xx, an answer that cannot be read).
PlatformAnswers(a) ==
    /\ attempt[a].answer = "waited"
    /\ \E answer \in {IF accepts[attempt[a].market] THEN "accepted" ELSE "refused", "failed"} :
          attempt' = [attempt EXCEPT ![a].answer = answer]
    /\ UNCHANGED <<platform, server, screen, console>>

\* onResult, when the answer arrives.
Report(a) ==
    /\ attempt[a].answer \in {"accepted", "refused", "failed"}
    /\ lastAuthError' = ReportPublishOutcome(attempt[a].market, attempt[a].answer)
    /\ attempt' = [attempt EXCEPT ![a] = NoAttempt]
    /\ UNCHANGED <<platform, token, restarts, screen, console>>

-----------------------------------------------------------------------------
(* The Diffuser screen.                                                     *)

OpenDiffuser(s) ==
    /\ screen[s].at = "closed"
    /\ screen' = [screen EXCEPT ![s].at = "loading"]
    /\ UNCHANGED <<platform, server, attempt, console>>

\* autoChannels: of the state of each account, what the screen acts on.
AutoChannels(connections) == {m \in Market : connections[m] = "CONNECTED"}

\* GET /marketplace/status, at each focus; the selection is made once, from the
\* first answer, and kept.
Load(s) ==
    /\ screen[s].at # "closed"
    /\ screen' = [screen EXCEPT
                     ![s] = [at |-> IF @.at = "loading" THEN "ready" ELSE @.at,
                             offered |-> AutoChannels(Connections),
                             selected |-> IF @.offered = Null THEN AutoChannels(Connections)
                                                           ELSE @.selected]]
    /\ UNCHANGED <<platform, server, attempt, console>>

Toggle(s, m) ==
    /\ screen[s].at = "ready" /\ m \in screen[s].offered
    /\ screen' = [screen EXCEPT ![s].selected = IF m \in @ THEN @ \ {m} ELSE @ \cup {m}]
    /\ UNCHANGED <<platform, server, attempt, console>>

\* publish(), as far as the calls: one for each channel whose account resolves.
\* A channel that is no longer offered stays selected; without any, no button.
Publish(s) ==
    /\ screen[s].at = "ready" /\ screen[s].selected # {} /\ screen[s].offered # {}
    /\ LET called == {m \in screen[s].selected : Resolves(m)} IN
       \E f \in [called -> {a \in Attempt : attempt[a] = NoAttempt}] :
          /\ \A m, n \in called : m # n => f[m] # f[n]
          /\ attempt' = [a \in Attempt |->
                IF \E m \in called : f[m] = a
                THEN [market |-> CHOOSE m \in called : f[m] = a, answer |-> "waited"]
                ELSE attempt[a]]
    /\ screen' = [screen EXCEPT ![s].at = "publishing"]
    /\ UNCHANGED <<platform, server, console>>

\* The call fails or is given up; the same publication may be asked again.
PublishFails(s) ==
    /\ screen[s].at = "publishing"
    /\ screen' = [screen EXCEPT ![s].at = "ready"]
    /\ UNCHANGED <<platform, server, attempt, console>>

\* The outcome is read, or the seller goes back before.
Leave(s) ==
    /\ screen[s].at # "closed"
    /\ screen' = [screen EXCEPT ![s] = Closed]
    /\ UNCHANGED <<platform, server, attempt, console>>

-----------------------------------------------------------------------------
(* The console.                                                             *)

\* connectorBlocked: publication is impossible.
Blocked(state) == state \in {"MISSING", "EXPIRED", "AUTH_ERROR"}

\* buildAlerts: the P1 alerts of NOVA.
Alerts(overview) == {m \in Market : Blocked(overview[m])}

\* Mutant: the interval is never set; only the first fetch is made.
FetchAgents_Once(p) == shown = Null /\ poll[p] = NoPoll

\* fetchAgents, by the interval or by hand: nothing waits for the fetches
\* that are under way.
FetchAgents(p) == poll[p] = NoPoll

Fetch(p) ==
    /\ FetchAgents(p)
    /\ poll' = [poll EXCEPT ![p].at = "sent"]
    /\ UNCHANGED <<platform, server, screen, attempt, shown>>

\* GET /admin/overview.
ServeOverview(p) ==
    /\ poll[p].at = "sent"
    /\ poll' = [poll EXCEPT ![p] = [at |-> "answered", overview |-> Overview]]
    /\ UNCHANGED <<platform, server, screen, attempt, shown>>

\* The answers are shown as they come; of what is shown, the alerts.
Fetched(p) ==
    /\ poll[p].at = "answered"
    /\ shown' = Alerts(poll[p].overview)
    /\ poll' = [poll EXCEPT ![p] = NoPoll]
    /\ UNCHANGED <<platform, server, screen, attempt>>

\* What is displayed stays.
FetchFails(p) ==
    /\ poll[p] # NoPoll
    /\ poll' = [poll EXCEPT ![p] = NoPoll]
    /\ UNCHANGED <<platform, server, screen, attempt, shown>>

-----------------------------------------------------------------------------
Next ==
    \/ \E m \in Market : Expire(m) \/ ChangeOfMind(m)
    \/ Restart
    \/ \E a \in Attempt : PlatformAnswers(a) \/ Report(a)
    \/ \E s \in Screen : OpenDiffuser(s) \/ Load(s) \/ Publish(s) \/ PublishFails(s) \/ Leave(s)
    \/ \E s \in Screen, m \in Market : Toggle(s, m)
    \/ \E p \in Poll : Fetch(p) \/ ServeOverview(p) \/ Fetched(p) \/ FetchFails(p)

Spec == Init /\ [][Next]_vars

\* Calls end (the connectors set no timeout: it is fetch that gives up in the
\* end), the interval ticks, and the network does not lose every fetch.
\* Nothing makes a seller come, publish or leave.
FairSpec ==
    /\ Spec
    /\ \A a \in Attempt : WF_vars(PlatformAnswers(a)) /\ WF_vars(Report(a))
    /\ \A p \in Poll :
          WF_vars(Fetch(p)) /\ SF_vars(ServeOverview(p)) /\ SF_vars(Fetched(p))

-----------------------------------------------------------------------------
\* The console ends up raising an alert for exactly the accounts that cannot
\* publish, and goes on: no answer overtaken by another, no restart and no
\* failed fetch leaves it with a state that is over.
ConsoleCatchesUp == <>[](shown = Alerts(Overview))

\* An account that is in order again, and with which publications succeed, is
\* not kept in error, not even by an older refusal that is reported late.
SuccessLiftsTheError ==
    \A m \in Market :
       <>[](token[m] = "valid" /\ accepts[m])
          /\ []<>(\E a \in Attempt : attempt[a] = [market |-> m, answer |-> "accepted"])
       => <>[](ConnectionState(m) = "CONNECTED")

\* What diffuser.tsx:30-31 says ("le canal passe CONNECTED côté serveur et
\* remonte tout seul dans le bloc automatique"): an account that is in order
\* again is offered again, as sellers open the screen.
AccountIsOfferedAgain ==
    \A m \in Market :
       <>[](token[m] = "valid" /\ accepts[m])
          /\ []<>(\E s \in Screen : screen[s].at = "ready")
          /\ []<>(\A s \in Screen : screen[s].at = "closed")
       => []<>(m \in AutoChannels(Connections))
=============================================================================
