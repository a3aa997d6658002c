# FlipSync: a TLA+ model of the selling pipeline

FlipSync lists an object for a seller: a mobile app takes photos, a model writes the annonce, the
seller validates it and is charged, the API publishes it on several marketplaces, and takes the
sister annonces down when one of them sells. A Premium sale also has a mission, which answers the
buyers within the mandate the seller has confirmed. This directory specifies the parts of it where
money, status, marketplaces, phone and server must agree, checks them with TLC on small instances, and
proves the central safety properties with TLAPS for every value of the constants.

## 1. Inventory of the system

| Part | State it keeps | Operations | Hard behaviour | What makes it correct |
|---|---|---|---|---|
| Wallet (`packages/wallet`) | `UserWallet`, `WalletTransaction` | `authorize`, `commit`, `refund`, `recharge`, lazy monthly reset | concurrent transactions under READ COMMITTED, duplicate payments, a wallet read long before it is debited | the balance equals the ledger; one debit and one refund per listing; one quota per month |
| Listing engine (`packages/ai`) | `Listing` | creation, AI transitions, `validate`, `cancel`, `editContent`, `failPublish`, ... | `authorize` then write in two statements; edits that read, wait and write | money moves exactly with the status |
| Stripe webhook (`routes/stripe.ts`) | none (Stripe redelivers) | `POST /stripe/webhook` | duplicate deliveries at the same time, a restart between credit and loop | every payment credited once; blocked listings re-submitted |
| Publication (`publication.service.ts`, `sync-publisher.ts`) | `ListingPublication` | `publish`, `fail` | nothing is locked while connectors are called; lost answers; two publications | a published listing has a row; never both online and refunded |
| Sale webhook (`routes/webhook.ts`) | `ListingPublication.status` | `POST /webhooks/vendu` | two sales at once, redelivery, failed withdrawals, restarts | a sale is never forgotten; sister annonces are dealt with |
| Channel synchronisation model (`marketplace/src/model`) | `World` | `step`, `replay` | any input in any order | one sale for ever; terminals absorb; order of delivery does not matter |
| Connectors (`marketplace/src/connectors`) | none (the marketplaces') | `publish`, `retract` | several HTTP calls, each may fail or be lost | a row names a complete annonce |
| Negotiation missions (`negotiation.service.ts`, `mission.service.ts`, `core`) | `Mission`, `MissionEvent`, `Notification` | mandate, suspend, resume, stop, offers, expiry | read, await, update by id | a sold mission stays sold |
| Draft jobs (`routes/ai.ts`, `vision.ts`) and analysis queue (`vendre.tsx`, `listing.store.ts`, `processing.tsx`) | `DraftJob`; the tray and the cards on the phone | take a photo, start, poll, retry, remove, open | late completion against the staleness rule, temporary ids, loops that end with the app | photos, cards and drafts never mix; a running card is followed |
| Mobile publication flow (`validate.tsx`, `PendingPublishBanner.tsx`) | the record of an interrupted publication, the session, the form | create, photos, AI, draft, validate; resume, abandon | lost, late or doubled between any two calls; killed | one thing, one listing, its own photos, paid once |
| Mandate wizard (`mandate-*.tsx`, `mission.store.ts`) | the draft of the mandate | posture, customize, recap, `POST /mission` | one store for the whole app, read at the end of a publication | the mission runs on what was confirmed |
| Mission screens (`mission*.tsx`, `mission-dashboard.ts`, `useApiResource.ts`) | what each screen has loaded | focus, refresh, accept, refuse, stop | the row and the timeline are read one after the other; late answers | what is shown is not older than what was; the recap tells the sale |
| Magic-link sign-in (`magic-link.service.ts`, `login.tsx`, `verify.tsx`, `auth.store.ts`) | `MagicLinkToken`; the token of the phone | request, verify, 401, sign out | overlapping requests, a link opened twice | a link signs in once; the link created last is not deleted |
| Marketplace accounts (`marketplace-auth.service.ts`, `diffuser.tsx`) and console (`useMissionControlStore.ts`) | the last authentication error of each platform, in memory; what the console shows | publish, report; poll | reports out of order, fetches that overlap | a success lifts the error; the console catches up |
| Development sessions (`dev-session/recorder.ts`, `dev-sessions.service.ts`) | the buffer of the phone; `DevSession`, `DevEvent` | start, push, flush, stop | nothing is awaited; calls overlap | an event is recorded once or lost, never twice |
| Photos of a listing (`routes/listing.ts`) | the files of the listing and `ListingPhoto` | upload of a batch | hash, count, files and rows are awaited apart; a batch sent again overlaps; a cut between files and rows | what was answered is stored; a row names a file that was written |
| Screens of an annonce (`(tabs)/index.tsx`, `listing-view.tsx`, `listing-edit.tsx`) | what each screen has loaded, the chip, the form | list, open, edit, cancel | late answers, a load that is dropped, an answer to a screen that was left | the annonce is what one form asked for |
| Notifications, wallet screen, admin, health, developer actions, other screens | small | | see section 7 | |

How they interact: the routes call the engine, which calls the wallet inside its own database
transaction; the Stripe webhook calls the wallet and then the engine; `PublicationService` calls the
connectors and then the engine; the sale webhook reads and writes the publication rows and calls the
connectors. They share one PostgreSQL database and no memory; the process may die at any point. The
phone calls the same routes one after the other, gives a call up after ten seconds without cancelling
it, and is killed when the system likes; what it keeps is in MMKV, what it does not is said in each module.

The hazards this code is exposed to are listed, each at its line, under `hazards` in `PROJECT.json`.

## 2. Modules

| Module | Models | Composed with |
|---|---|---|
| `WalletService` | rows and ledger of the wallet; the effects of `authorize`, `commit`, `refund`, `recharge` | |
| `ListingTransitions` | the statuses of a listing and `LISTING_TRANSITIONS` | |
| `ListingEngine` | the listing state machine, one action per transaction, requests with a local state for operations of several steps | extends `WalletService`, `ListingTransitions` |
| `StripeWebhook` | deliveries, credit, the loop of re-authorizations, restarts; closes the billing system | extends `ListingEngine` |
| `ListingContract` | abstract: a listing is open, bought, then served or given back | implemented by `StripeWebhook` |
| `StripeWebhookProofs` | TLAPS proofs about the billing system | extends `StripeWebhook` |
| `Connectors` | the marketplaces: what each call of `publish()` and `retract()` leaves there | |
| `PublicationService` | gates, publication rows, publications in flight, each connector at its own call | extends `ListingEngine`, `Connectors` |
| `SaleWebhook` | buyers, orders, sale deliveries, withdrawals, restarts; closes the publication system | extends `PublicationService` |
| `SaleWebhookProofs` | TLAPS proofs about the publication system | extends `SaleWebhook` |
| `SyncModel` | the reference reducer of channel synchronisation | |
| `OneSale` | abstract: sold once, and then nowhere for sale | implemented by `SyncModel` |
| `SyncModelProofs` | TLAPS proofs about the reducer | extends `SyncModel` |
| `MissionRules` | statuses, transitions, decision rules and the update of each operation of a mission; no state | |
| `Mission` | the mission on the server: requests that read, await and update | extends `MissionRules` |
| `MissionProofs` | TLAPS proofs about the mission | extends `Mission` |
| `MissionScreens` | the mission as the seller sees it: dashboard, sheet and recap over a server that executes one operation at a time | extends `MissionRules` |
| `MissionScreensProofs` | TLAPS proofs about these screens | extends `MissionScreens` |
| `MandateFlow` | the mandate from the wizard to `POST /mission` | |
| `DraftJob` | the `DraftJob` row and the promise that fills it | |
| `AnalysisQueue` | the tray, the cards and the polling loops of the phone; closes the analysis system | extends `DraftJob` |
| `AnalysisQueueProofs` | TLAPS proofs about the tray, the cards and the jobs | extends `AnalysisQueue` |
| `PublishFlow` | the five calls of a publication, the record, the banner, on a server that has the statuses of the listing | extends `ListingTransitions` |
| `PublishFlowProofs` | TLAPS proofs about a publication from the phone | extends `PublishFlow` |
| `SignIn` | links, requests, the mail, the token of the phone | |
| `DevSessions` | the recorder and its three routes | |
| `Diffusion` | accounts, connectors' reports, the Diffuser screens, the console | |
| `ListingPhotos` | the upload of photos: quota, each file opened and filled, rows; cuts | extends `ListingTransitions` |
| `ListingScreens` | the list, the page and the form of one annonce, over the routes that read, edit and cancel it | extends `ListingTransitions` |
| `MCPhone` | `MandateFlow`, `SignIn`, `DevSessions`, `ListingPhotos` and `ListingScreens` side by side, one of them at a time | extends and instances them |
| `PhoneProofs` | TLAPS proofs about the mandate, sign-in, the recorder, the photos and the screens of an annonce | extends `MCPhone` |
| `MCStripeWebhook`, `MCSaleWebhook`, `MCSyncModel`, `MCMission`, `MCMissionScreens`, `MCMandateFlow`, `MCAnalysisQueue`, `MCPublishFlow` | the finite instances TLC checks | |

Names follow the code (`validate()` is `Validate`, `LISTING_TRANSITIONS` is `Targets`); `map` in
`PROJECT.json` gives the lines each definition stands for. A definition whose name has a suffix after
an underscore (`FailPublish_NoRefund`) is a mutant: a plausible bug used to show that a property would
catch it. It is not part of any specification.

### Modelling decisions

* **Transactions.** PostgreSQL runs them READ COMMITTED. The operations of the engine begin with
  `move()`, whose conditional update takes the row lock of the listing and holds it until the
  transaction ends; the wallet writes are conditional updates or increments, and uniqueness is a
  constraint of the schema. So an operation around `move()` is one action. `recharge()` and
  `editContent()` take no lock before they read: the read and the writes are two actions, and other
  requests run between them. `createListing()` and `reauthorize()` are not transactions at all and are
  three steps: the read of the wallet, the monthly reset, the write of the row.
* **Errors.** An exception inside a transaction rolls it back: the action is not enabled. An
  exception caught by the caller is a disjunct (`TolerantRefund`, the second disjunct of
  `ReauthorizeNext`).
* **Await.** Outside a transaction every `await` ends a step. Two reads with no write and no external
  call between them are merged when nothing reads the first in between.
* **Marketplaces.** `annonce[a]` is what the marketplace has, whatever the server knows: an offer, an
  annonce on line, how many of the calls that make it were made. Each call of a connector is a step of
  its publication: it may be done and answered, done and lost, or refused, and the next call follows
  only an answer. The upload of the eBay item is not a step: it is addressed by the listing and replaced
  each time. A retract may succeed, fail, or take the annonce down and report a failure. Buyers buy what
  is live; on Shopify, several annonces in one order, and Shopify tells of an order twice
  (`orders/create`, `orders/paid`).
* **Process.** A restart (`Crash`) forgets every request in flight and keeps database and
  marketplaces. A kill of the app (`Kill`, `KillApp`) forgets the stores that are not persisted and the
  runs of its functions; requests already sent are still executed.
* **Calls of the phone.** A call is executed and answered, or it fails, or it is given up and executed
  later or never: `late` holds those. Nothing cancels a function of a screen that was left, so it goes
  on; `hurried` and `hurries` record that the seller once did not wait, and the properties that need
  them to wait say so.
* **Files.** `writeFile()` empties a file when it opens it and then fills it, which are two steps; a photo
  is small enough for one write. A batch is a tray of the phone; a batch whose hashes do not match is
  refused before anything is read and is left out.
* **Money** is in units instead of cents, and one tier is on sale (`PREMIUM_TIER_ENABLED` is false);
  the price, bonus and threshold are constants. The free credits of the instances are small numbers.
* **Old rows.** Listings left in `USER_VALIDATED` by the version before fix F1 exist initially
  (`Legacy`): `queue()` and the editing of `USER_VALIDATED` are for them.
* **Reducer.** `STALE_DROP` is the trace of an input that changes nothing and is left out of the
  effects; the effects are the set that `replay` has collected. The reason of `CMD_RETRACT` is not
  read by the code and is left out.
* **Missions.** Every operation of `MissionNegotiationService` reads the row, decides, may await a
  count and a notification, and updates by id the columns it has computed. A request in `Mission` holds
  that patch, not the row; `Patched` is the update. `applyAction` counts the buyer before it decides and
  notifies before it writes, so these are steps. What no code reads back from the timeline (the
  wording, the kind of an answer) is one kind of event, `CONTACT`. A request for delivery is answered or
  declined, which differ in wording only. `hour` is what the throttle sees of the time, `overdue` what
  the expiry sees, and a month is longer than the hours counted. The end of a mission (finalized, expired)
  is an event of its timeline too, without a buyer.
* `overwritten` in `Mission` is a history variable: it becomes true when an update is written over a
  row that has changed since it was read. The code has no guard against that. In every interleaving, with
  it or without: no sale escapes the mandate (`HammerIsTheSellers`) or is undone (`WhatIsOverStaysOver`),
  a reason has its buyer and an offer its amount (`SlateIsCoherent`), and the count of buyers is at least
  that of the timeline and at most that of the messages (`BuyersAreCounted`). The other parts of these
  properties hold as long as no update overwrites another (in `WhatIsOverStaysOver`, for every step that
  does not do it itself), and `OneAlertPerHour` besides as long as nothing restarts. What fails because of
  it is stated too: `AcceptsOnlyWhatIsPending`, `SuspensionIsReversible` and `QuotaIsKept` (section 4).
* `newest` in `SignIn` is one as well: the link created last for each address.
* `owed` in `StripeWebhook` is a history variable: no action reads it.

## 3. Runs

| Run | Checks | Shows | States |
|---|---|---|---|
| `billing` | `BalanceMatchesLedger`, `MoneyFollowsStatus`, `DebitIsWhatWasAuthorized`, `FreeCreditsGrowOnlyWhenDue`, `ContractImplemented` | money, ledger, status and quota agree in every interleaving | 448,622, 42 s |
| `recharge_liveness` | `PaymentEventuallyCredited` | a payment always reaches the wallet | 7,655, 5 s |
| `publication_sale` | `PublishedIsBacked`, `RowsTellTheTruth`, `RowsNameCompleteAnnonces`, `SoldIsFinal` | PUBLISHED means a row, and the rows say what happened on the marketplaces | 1,073,708, 99 s |
| `sale_liveness` | `SistersAreDealtWith`, `PublicationSettles` | sister annonces and publications are followed to an end | 47,362, 47 s |
| `sync_model` | `SaleIsTheSoldLine`, `EffectsAreComplete`, `EventsCommute`, `TerminalsAbsorb`, `SoldOnce` | the reducer implements `OneSale` whatever it is fed | 18,066, 45 s |
| `mission` | `HammerIsTheSellers`, `SlateIsCoherent`, `BuyersAreCounted`, `OneAlertPerHour`, `WhatIsOverStaysOver` | no sale escapes the mandate or is undone; the slate can be shown, the buyers are counted | 2,929,061, 136 s |
| `analysis_queue` | `AnnoncesKeepToTheirPhotos`, `EveryRunningCardIsFollowed`, `ReadyStaysReady` | photos, cards and drafts do not mix; a card that runs is followed; one that is ready stays so | 1,684,353, 87 s |
| `publish_flow` | `CheckpointIsReached`, `OneThingOneListing`, `ClearedOnlyWhenOver` | resuming skips nothing; a seller who waits pays once, for one thing | 1,868,598, 65 s |
| `mission_screens` | `RecapTellsTheSale`, `ShownNeverGoesBack`, `SoldIsWhatWasShown` | the screens tell what happened, although they read it in two parts | 1,358,142, 118 s |
| `diffusion` | `ConsoleCatchesUp`, `SuccessLiftsTheError` | the alerts end up true; a success lifts the error of an account | 241,812, 103 s |
| `phone` | `MissionIsTheMandateConfirmed`, `NoMandateLeaks`, `SignsInOnce`, `NewestLinkIsLeft`, `EventsAreConserved`, `PhotosAreStored`, `ContentIsOneForm` | mandate, sign-in, recorder, photos and screens of an annonce, side by side | 2,020,634, 134 s |
| `jeton_global` | `NoRefundWhileOnline` violated | cancelled during publication: refunded and online | |

The type invariants are theorems, but for that of `Diffusion`:
its `TypeOK` holds when it is added to the cfg of its run. The inductive invariants of section 5 were
checked the same way before they were proved.

Other instances, for `tlc -config <cfg> <module>`:

| Config | Module | What it is for |
|---|---|---|
| `MCBonusRace`, `MCRechargeCrash` | `MCStripeWebhook` | counterexamples of section 4 |
| `MCSoldTogether` | `MCSaleWebhook` | counterexample of section 4; `MCJetonGlobal.cfg` with `PublishedPriceIsTheAnnonces` and `MCSaleWebhook.cfg` with `NeverDuplicated` are two others |
| `MCSyncLatePublish` | `MCSyncModel` | counterexample of section 4 |
| `MCMission`, `MCMissionScreens`, `MCMandateFlow`, `MCPublishFlow`, `MCDiffusion`, `MCPhone` | the same | with a refuted property of section 4 in the place of theirs: its counterexample |
| `MCAnalysisLiveness` | `MCAnalysisQueue` | `RunningCardsSettle` holds: 13,600 states, two restarts or kills |
| `MCMandateFlow` | `MCMandateFlow` | `PremiumHasItsMission` and the type, which `phone` leaves out |
| `MCDevSessions` | `DevSessions` | `EventsAreConserved` and `HeldSessionIsOpen` with three overlapping calls: 1,617,050 states; `OneSessionPerPassage` in their place: its counterexample |

### Bounds

* Billing: one user, two listings (one may be old), two requests, one payment delivered up to twice,
  one month, one restart. That is what every race here needs: two authorizations for one credit, two
  deliveries of one payment, a delivery against a request. Two payments that overlap are in
  `MCBonusRace`, by hand, and in the theorems of section 5, which remove all of these bounds.
* Sales: one listing, eBay and Shopify (the two whose publication takes several calls), two annonces,
  two publications and two sale deliveries in flight, one restart. Two annonces give either two sisters
  or a republication on one marketplace; the liveness run has two marketplaces, and the one of the sister
  (Vinted) cannot withdraw: of the ends `SistersAreDealtWith` allows, it reaches `WITHDRAW_FAILED` only.
  With a sister on Shopify and a redelivery for every restart, the run takes longer than a check should;
  that a withdrawal told of has taken place is `RowsTellTheTruth`, in the safety run.
  `PublicationSettles` starts once no restart is left to happen: nothing in the code takes up a
  publication that a restart has cut.
* Reducer: two channels, three event keys each, one retry and one republication per line. A third
  channel would only add a second loser; the theorems hold for any number of channels and keys.
  `MaxAttempts` and `MaxEpoch` bound the two counters, which nothing in the reducer reads.
* Mission: two buyers, two requests, two messages, three amounts around the floor, an hour that passes
  and a restart; three mandates, one of them refused, the two others with different policies for
  complex cases, one with the opt-in. The seller's requests are not bounded. Two messages and two
  requests give every overlap of an offer with an offer, an answer, a suspension, a stop or an expiry.
* Analysis queue: two photos of one thing and one of another, two jobs, one restart or kill, two photos
  to a job of which the model sees one. Two jobs are needed for a retry, and for an answer about one that
  arrives when the card has the other.
* Publication flow: two things, two listings, one run of `publish()` at a time, one call that is
  executed late and one kill. Two things give the mix-ups; a second listing is what a doubled creation
  makes; a late call and a kill meet in every order.
* Mission screens: one buyer, two amounts at and above the floor, two calls, two messages, two actions
  of the seller, four events per page: an offer can take the place of another under the sheet, and once
  the sale is closed the timeline may be one event longer than the page. With `Page = 1`, by hand, the
  first offer always falls off it.
* Accounts: one platform, as nothing relates two; one screen, which loads the accounts again at each
  focus and keeps what is selected; two attempts, two fetches, one change of
  mind of the platform, one restart. Two attempts give a refusal reported after a success, two fetches
  an answer overtaken by a later one.
* Phone: two things and two prices, one kill, for the mandate; one address, two links, two requests and
  two openings for the sign-in; two calls, a buffer of two, three events, three sessions for the recorder.
* Photos: three photos, two trays that share one, two requests, a quota of two, one cut: the trays
  together exceed the quota, and the shared photo is written by two requests. Annonce: two titles, a price
  that is flagged and one that is not, two calls, the chips `TOUT` and `ANNULEES`, each content asked for
  once: two edits overlap in every order, with a cancellation or a publication.
  The estimates and half of the postures are the same for each thing: nothing compares them.
* Event keys, channels, publishers, hooks, jobs, things, listings of a flow and slots are symmetric in
  safety runs; liveness runs use no symmetry.
* `CHECK_DEADLOCK FALSE` where every listing may end in a terminal status with nothing in flight, a
  mission is over, or a bound has been reached on the phone.

### Fairness

`StripeWebhook!FairSpec` and `SaleWebhook!FairSpec`: Node runs every continuation of a request it has
started, so the steps of a request are weakly fair; they are enabled until taken, unless a restart
ends the request. Stripe and the marketplaces redeliver what was not answered, so a delivery is
strongly fair: it is disabled while the event is being handled. Users, buyers, the calendar and
restarts owe nothing. Redeliveries are bounded by a number larger than the number of restarts, without
which no redelivery would be left after the last restart.

`Diffusion!FairSpec`: a connector's call ends and is reported (weak): the connectors set no timeout of
their own, and it is `fetch` that gives up in the end, by its default limits; the interval of the console
ticks (weak); the server answers and the answer arrives for some of the fetches that are repeated for
ever (strong: a fetch that fails disables them until the next tick). Sellers owe
nothing. `AnalysisQueue!FairSpec`: the promise of a job runs and time passes on the server (weak); the
timers of the phone fire (weak); one of the polls repeated for ever is answered (strong).

## 4. What is found

The disagreements between the code and a statement of the repository, each with the definition that
states it and TLC's way to refute it, are under `findings`, with the lines and the quotations:

| Property | What happens | Refuted in |
|---|---|---|
| `NoRefundWhileOnline` | cancelled during its publication: refunded, and on line | run `jeton_global` |
| `PublishedPriceIsTheAnnonces` | edited during its publication: two prices | `MCJetonGlobal` |
| `BonusOnFirstRechargeOnly` | two overlapping first recharges get two bonuses | `MCBonusRace` |
| `AckedRechargeResubmitsBlocked` | a restart after the credit leaves listings blocked | `MCRechargeCrash` |
| `EverySaleIsRecorded` | an order of two products records one sale | `MCSoldTogether` |
| `NeverDuplicated` | publishing again makes a second annonce | `MCSaleWebhook` |
| `LatePublishIsTakenDown` | a late publication of a cancelled line is dropped by the reducer | `MCSyncLatePublish` |
| `AcceptsOnlyWhatIsPending` | an acceptance sells an offer that was taken away in between | `MCMission` |
| `SuspensionIsReversible` | a message handled during a suspension writes it back after the seller resumed: nothing left to resume to | `MCMission` |
| `QuotaIsKept` | two messages at once, or a restart before the update: two alerts in an hour | `MCMission` |
| `NeverADeadOffer` | an acceptance that arrives late sells another offer than the one shown | `MCMissionScreens` |
| `MenuIsHonoured` | the menu stops a suspended mission, the server refuses | `MCMissionScreens` |
| `MandateSentIsValid` | the price is lowered under the floor, or changed by a resume: no mission after the debit | `MCMandateFlow` |
| `NewThingIsNotMixed` | a card opened during a publication: the photos of one thing on the listing of another | `MCPublishFlow` |
| `AccountIsOfferedAgain` | an account in error is not offered, and only a publication lifts the error | `MCDiffusion` |
| `OneSessionPerPassage` | shown again too early, a passage has no session; hidden too early, one stays open | `MCDevSessions` |
| `NoPhotoTwice` | the same batch sent again while the first is being written: two rows for a photo | `MCPhone` |
| `FrozenAtCommit` | the listing is validated between the check of the status and the rows: photos after the commit | `MCPhone` |
| `NoPhotoIsTorn` | a cut while a file that has a row is written again: it stays torn, and is never repaired | `MCPhone` |
| `OneActiveLink` | two requests that overlap both delete, then both create: two links to open | `MCPhone` |
| `FilterShowsItsOwn` | the chip is changed during a load, the reload is dropped: the list is the other chip's | `MCPhone` |

Observed while modelling:

* Reducer. It has no retry limit: `QUEUED` and `RETRACTING` count attempts for ever, where SYNC-FSM
  section 3 ends them at `max`; the model bounds the counter for TLC only. `EventsCommute` (P-17a) is
  stated for worlds created `PUBLISHED`, as the property tests do, and does not extend to `SUBMITTED`,
  where `LISTING_ENDED` before `PUBLISH_CONFIRMED` is dropped. A sale that reaches a line `QUEUED`,
  `FAILED` or over is dropped without an incident (P-18 forbids it; `generators.ts` leaves the case open
  as ERRATA E-5).
* Money. After a reset, the refund of a free listing of the previous month makes more free credits than
  the monthly quota; `FreeCreditsGrowOnlyWhenDue` allows it, since the code restores what was paid. Two
  overlapping edits write back an older price flag (`listing-engine.ts:223`). The wallet screen reloads
  the balance before the webhook has credited it (`wallet.tsx:112-119`).
* Shopify. The comment at `shopify.ts:302-304` does not hold when the call that sets the price fails: the
  product is on line already. `EBAY` and `SHOPIFY` are always `DISCONNECTED` on the Diffuser screen.
* Missions. A suspended or stopped mission still answers questions: `applyAction` looks at the
  transition table only for what changes the status. The recap compares with the first offer of the last
  50 events, and looks for the sale among them (`negotiation.service.ts:97`, `mission-dashboard.ts:196-200`):
  since a sold mission goes on answering, 50 later events make it tell a sale of the hammer as
  `SOLD_BY_HUMAN`. A refresh asked for while one is in flight is dropped. `router.back()` after the sheet was
  closed by hand leaves the dashboard.
* Analysis. `NextThingStartsBlank` (`vendre.tsx:131`) does not hold when the analysis is started while a
  photo is being taken: the photo joins the tray of the next thing.
* Publication. `ignoreAlreadyDone` (`validate.tsx:88-89`) takes every `INVALID_TRANSITION` for a step
  already passed: of a listing cancelled meanwhile, the publication reports a success. What is edited
  between the draft call and a resume is not sent (`validate.tsx:97`, `:200`). A listing left in `PENDING_AUTH` is not recorded on the phone
  (`validate.tsx:170-176`). The banner says "Rien n'a été débité" after a lost answer to validate
  (`PendingPublishBanner.tsx:49`). A publication that ends clears the session of another card
  (`validate.tsx:237-241`).
* Photos and annonce. Two overlapping batches pass the quota together (`PhotosAreBounded`, refuted with
  `MCPhone`). The answer to a form that was left pops whatever screen is on top
  (`listing-edit.tsx:101`; `AnswerClosesItsForm`, refuted with `MCPhone`).
* Mandate. After a kill, a resumed publication is Premium and has no mission (`mission.store.ts:13-14`).
  The tier can be changed while the creation is in flight. A price edited before a resume gives a mission
  and a listing of different prices.
* Sign-in. The mails of overlapping requests arrive in any order, so the last mail need not carry the
  link created last, and its link may be among the deleted ones. The 401 of an old call removes a newer token (`api.ts:141-143`). Signing out does not
  unregister the device.
* Console and accounts. A fetch overtaken by a later one shows older data until the next tick. A late 401
  overrides a newer success until the next success. The tunnel is not unique if two `startTunnel` overlap
  (`dev-actions.service.ts:58`).

## 5. Proofs

`StripeWebhookProofs`, for any users, listings, requests, payments, prices and bounds:

| Theorem | States |
|---|---|
| `TypeCorrect` | `Spec => []TypeOK`: no balance, no count of free credits below zero |
| `MoneyIsSafe` | `Spec => []MoneyFollowsStatus` |
| `DebitIsFaithful` | `Spec => []DebitIsWhatWasAuthorized` |
| `QuotaIsGrantedOnce` | `Spec => FreeCreditsGrowOnlyWhenDue` |
| `BillingKeepsItsPromise` | `Spec => ContractImplemented` |
| `LedgerExplainsBalance` | `Spec => []BalanceMatchesLedger` |

The inductive invariant is `IInv`: the three invariants together, with `FreeCostsNothing` (an
authorization by a free credit has cost 0, which is what its debit records) and `CreateIsExclusive`
(the row a request is creating does not exist, and no other request works on it: without it the write
of a creation could overwrite a listing that has been charged). `MoneyFollowsStatus` is a statement on
one listing at a time; `IInvByRow` restates it per row, and each action is shown to leave all rows but
one alone (`OneRow`) and to take that one along an edge of `Targets` with the money the edge calls for
(`MoveIsATransition`, `PlainMoveStep`, `RefundMoveStep`, `ValidateStep`). The refinement follows from the
same lemmas: `PhaseByStatus` reads the phase off the status under the invariant, and each step moves
one phase along the contract or none.

The ledger is a sum over the rows of three tables, hence a recursive function on sets. The theorems of
the library that state induction with an operator cannot be used here, but two that are first-order can:
inclusion is well-founded on finite sets, and a well-founded order has minimal elements. `SmallestSubset`
joins them, so every fact about sums is proved by looking at a smallest set where it fails: the recursive
function of the library exists (`RunningSumExists`), a sum can start from any element (`SumFromAny`) and
sees its own set only (`SumOfEquals`). A step then writes no row and moves no balance (`QuietLedger`), or
one row of one table whose amount is what the balance of its owner moves by (`DebitLedger`,
`RefundLedger`, `CreditLedger`). `LedgerIsFinite` goes with it: a table only grows row by row, from
the legacy rows, which are finite.

The assumptions are those of the modules: `WalletAssumption`, `EngineAssumption` (the rows the version
before left behind are finite), `WebhookAssumption` and the model values being outside the sets they extend; each holds of the configuration values of the
code.

`SyncModelProofs`, for any channels, event keys, initial states and counter bounds:

| Theorem | States |
|---|---|
| `SyncTypeCorrect` | `Spec => []TypeOK` of the reducer |
| `SaleIsRecorded` | `Spec => []SaleIsTheSoldLine` |
| `NoEffectIsLost` | `Spec => []EffectsAreComplete` |
| `TerminalsAreFinal` | `Spec => TerminalsAbsorb` |
| `OrderDoesNotMatter` | `Spec => []EventsCommute` |
| `ObjectIsSoldOnce` | `Spec => SoldOnce`: the reducer implements `OneSale` |

The inductive invariant is `SInv`: the type, `SaleIsTheSoldLine`, `EffectsAreComplete`, and
`NothingElseOnSale`, which says that behind a sale every other line is being retracted, oversold or
over (`Behind`). Without it an edge such as `FAILED` to `PUBLISHED` after the sale could not be
excluded. The argument has two halves. `StepCases` reduces the reducer, with its deduplication and its
table of edges, to four effects: nothing (`Quiet`), one edge (`Followed`), a sale that wins (`Won`) or
loses (`Lost`). `EdgeFacts` says of the table that no edge leaves a terminal, reaches `SOLD` or
`OVERSOLD`, or leads out of `Behind`. Each conjunct, the terminals and the refinement are then proved
by these four cases. `EventsCommute` compares two runs of the reducer: on lines that are published,
being retracted or over, an event that is not a sale is a function of the state of its line
(`PlainEvent`, `AfterEvent`), a first sale one of all states (`FirstSale`, `AfterSale`), and these
functions commute up to which terminal is reached (`TwoEvents`). The only assumption is `SyncAssumption`; that a world is not created with a line
`DIRTY`, `OVERSOLD` or over is used once, for the initial state.

`MissionProofs`, for any buyers, amounts, mandates, requests and bounds:

| Theorem | States |
|---|---|
| `MissionTypeCorrect` | `Spec => []TypeOK` of the mission |
| `NoSaleOutsideTheMandate` | `Spec => []HammerIsTheSellers` |
| `TheSlateIsCoherent` | `Spec => []SlateIsCoherent` |
| `OverIsOver` | `Spec => WhatIsOverStaysOver` |
| `EachBuyerIsCounted` | `Spec => []BuyersAreCounted` |
| `OneAlertAnHour` | `Spec => []OneAlertPerHour` |

The invariant is about the patches that requests hold. `PatchIsHonest` says that a patch that sells
does so at or above the floor and brings the event that tells of it, and that an acceptance was
submitted before; `RowIsHonest` and `EventsAreHonest` say the same of the row and the timeline.
Honesty survives the writes of the other requests (`HonestyLasts`), because the mandate never changes,
a sale is never undone and events are only added: that is why no interleaving can break it. The two
next theorems add what a request that nobody has overtaken (`fresh`) knows of the row: `FreshInv` and
`SlateInv`. What they say of every interleaving needs none of that: a patch that writes one column of the
slate writes what goes with it, so that no overwriting can part them (`WholeInv`, `PatchedIsWhole`), and
none empties the price of a sale. So do the last two. `CountInv`: every buyer of the timeline is counted,
because who writes its first event increments (`Counts`); a fresh request knows besides whether its buyer
has been seen, because the timeline has not changed since it looked (`CountsOnce`). `OwingInv`: a request
that has yet to increment stands for a message of its own. `AlertInv`: two requests may well notify in the same hour,
but both cannot write it down without one of them writing over the other, so that there is always a
stale request, or two that have notified, or no second alert. The assumptions are `MissionAssumption` and `NullAssumption`.

`SaleWebhookProofs`, for any listings, marketplaces, annonces, publications, deliveries, prices and bounds:

| Theorem | States |
|---|---|
| `SaleInvariant`, `SaleTypeCorrect` | `Spec => []SaleInv`, and the type it contains |
| `PublishedHasARow` | `Spec => []PublishedIsBacked` |
| `RowsAreTrue` | `Spec => []RowsTellTheTruth` |
| `RowsAreOnLine` | `Spec => []RowsNameCompleteAnnonces` |
| `SoldIsForever` | `Spec => SoldIsFinal` |

The invariant says what each publication and each delivery may believe of the marketplaces.
`JobIsHonest`: what a publication has got is half made while its connector runs, complete after, and
has a row before the listing is marked, the rows being written one by one; `ListedSomewhere` says that a
listing that is PUBLISHED has one, which is what marking it may rely on. It is one row on some
marketplace: another publication may have replaced the annonce it names (`NeverDuplicated`).
`SaleIsHonest`: a delivery tells of annonces that were sold, and what it has withdrawn is off line. These survive the steps of everybody else because an annonce never
goes back (`Grows`: it keeps its listing and its marketplace, gains calls, and what has been on line has
been). The one step that could break this is the second call of a publication, which puts the offer on
line: `JobsShareNothing` says that the annonce it works on is its own, so that it cannot be one that
another request has found complete and withdrawn. Of the engine nothing is used but what it does to the
statuses and the price (`EngineStep`), and `PriceIsSet` for the type.

`MissionScreensProofs`, for any buyers, amounts, mandates, calls under way, size of the page and bounds:

| Theorem | States |
|---|---|
| `ScreensInvariant` | `Spec => []ScreensInv` |
| `RecapIsTheSale` | `Spec => []RecapTellsTheSale` |
| `NoScreenGoesBack` | `Spec => ShownNeverGoesBack` |
| `SellsWhatWasShown` | `Spec => SoldIsWhatWasShown` |

What a screen shows is old, and the invariant says how old it may be. A row read once it was sold or
stopped is still sold at that price, or stopped (`Frozen`), and exactly one event tells the sale
(`RowTells`). The events are read after the row, so the sale is among those that were there, of which
the report has the latest (`Told`, `IsPage`). What a fetch reads is no older than what is shown, and one
fetch is under way at most, so it cannot be overtaken (`VersionsGrow`). While the seller waits for the
answers, the offer the sheet has read is pending, or the mission can sell nothing any more
(`StillThere`), except between the answer to a refusal and the moment the sheet is left
(`JustClosed`); a call that a screen waits for has that screen below it (`MineIsMounted`).

Two halves make the proof. `PlansAreSound` says of each of the operations of `MissionRules` what its patch
and its events do to these facts, and `ExecuteFacts` carries it to the server. `SoundLasts` then keeps what
a screen has read, whatever the server does, and one lemma for each event of a fetch (`LoadedIsSound`,
`FetchedIsSound`, `EventsReadAreSound`, `ArrivedIsSound`) does it for what the phone does. The stack of
screens takes five values only (`Stacks`). The report needs the first and the last event of a kind in a
sequence, hence the minimum of a finite set, which `SmallestSubset` gives (`FirstSale`, `LastPriced`).

`RecapTellsTheSale` has two strengths. That the mandate is not credited with a sale of the seller, and
the amount, hold with any page. That the mandate is credited with its own sale, and that the offer
compared with is the first, are claimed while the timeline fits the page, and the proof needs it: they
are false beyond (section 4). The run has a page of four
events, which a sale that was closed may pass by one.
`MCMissionScreens` with `Page = 1` holds too (1,351,102 states). The assumptions are
`ScreensAssumption` (amounts are numbers of cents, the mandates are rows of the table, `Null` is none of
them) and `NullAssumption`.

`PhoneProofs`, for any users, links, requests, tasks, photos, titles and bounds:

| Theorem | States |
|---|---|
| `PhoneInvariant` | `PhoneSpec => []PhoneInv`: an inductive invariant for each of the four systems |
| `LinkSignsInOnce`, `TheNewestLinkIsLeft` | `PhoneSpec => []SignsInOnce`, `PhoneSpec => []NewestLinkIsLeft` |
| `EventsAreKept` | `PhoneSpec => []EventsAreConserved` |
| `PhotosAreKept` | `PhoneSpec => []PhotosAreStored` |
| `OneFormIsKept` | `PhoneSpec => []ContentIsOneForm` |

Sign-in: `OneClaim` counts the claims to a link, of which there is one while the link is active or being
consumed, and `LinkIsComing` says that the link created last for an address is left, or that a request
for that address has deleted and is about to create another.
Recorder: every event is in one place (`InOnePlace`), and every event pushed fits in the places there
are (`EveryEventFits`), which the cap of the buffer needs. Photos: a request knows which files it has
still to write (`HandlerIsHonest`). Screens: an edit under way carries the content of one form.

The mandate, in the same module, for any things, prices and bounds:

| Theorem | States |
|---|---|
| `MandateInvariant`, `MandateTypeCorrect` | `Spec => []MandateInv`, and the type it contains |
| `MissionIsAsConfirmed` | `Spec => []MissionIsTheMandateConfirmed` |
| `PremiumGetsItsMission` | `Spec => []PremiumHasItsMission` |
| `NoMandateIsLeft` | `Spec => []NoMandateLeaks` |

The store of the mandate has no key that says which thing it is about. The proof shows why it needs
none as long as the seller waits: while a publication goes on, or can be resumed, the store holds the
terms confirmed for its thing, or nothing (`Settled`), and the wizard is only open when neither is the
case (`WizardIsFirst`).

`PublishFlowProofs`, for any things, listings, runs, late calls and kills:

| Theorem | States |
|---|---|
| `FlowInvariant` | `Spec => []FlowInv` |
| `NothingIsSkipped` | `Spec => []CheckpointIsReached` |
| `PaidOnceForOneThing` | `Spec => []OneThingOneListing` |
| `NoListingIsForgotten` | `Spec => ClearedOnlyWhenOver` |

The invariant has two parts. `ReachedInv` holds whatever the seller does: statuses only move forward
(`RowsGrow`), so that what a run, a late call, an answer or the record says has been reached stays
reached, with any number of them in flight. `AloneInv` holds while the seller waits: the only run is that
of the form and of the record, and no listing is about two things, no thing about two listings. It is
stated with `Holds(t, l)`, which counts the late calls and the record as well as the row: nothing makes
it grow (`HoldsLasts`) but the record of a listing that was just created and is still blank (`NewIsNew`).
`PhotosAreThere` needs the session, which a kill loses, so it is claimed without kills only.

`AnalysisQueueProofs`, for any photos, jobs, tray sizes and bounds:

| Theorem | States |
|---|---|
| `QueueIsInvariant`, `QueueTypeIsCorrect` | `Spec => []QueueInv`, and the type it contains |
| `AnnoncesAreTheirPhotos` | `Spec => []AnnoncesKeepToTheirPhotos` |
| `RunningCardsAreFollowed` | `Spec => []EveryRunningCardIsFollowed` |
| `ReadyCardsStay` | `Spec => ReadyStaysReady` |

An answer is shown by the card that has its id, so the heart of `QueueInv` is about ids. `IdsAreOwn`: an
id is the card's own first photo, or a job that was started for its photos, and no two cards, nor a
card and an answered start, have the same. `EachWaitsOnce`: a card has its request or its loop, never
both, and a loop that runs has a card that waits; so a retry or a rename meets no older loop of the
same card, and an answer that arrives finds one card, still waiting. `AnswersAreHonest` then carries the
draft from the row to that card, since a row never changes the photos it is of (`RowsStay`). The trays
need facts about sequences (`TrayGrows`, `TrayShrinks`, `TrayReordered`).

The assumptions are those of the modules, `NoEmail` outside the addresses and the model values outside
the sets they extend. The places of the recorder are counted, so its tasks are finite and it has a session.

So every safety property of the passing runs is a theorem. Left to TLC: the liveness properties
(`PaymentEventuallyCredited`, `SistersAreDealtWith`, `PublicationSettles`, `RunningCardsSettle`, and the two of
`Diffusion`, which is checked for nothing else), because fairness is a statement about `ENABLED`.

## 6. Plan

Done: the billing, sales, reducer and mission systems; the analysis queue, the publication flow, the
mandate, the screens of the mission, sign-in, accounts, console, recorder, the photos and the screens of
an annonce; the proofs of section 5. Left, in this order:

1. The device tokens and the push of `Notifications`.
2. What the safety properties of the accounts and the console (`Diffusion`) could be, beyond its type.

## 7. Not modelled

Layout, wording and logging; authentication of requests, signatures of webhooks and the challenge of
eBay's endpoint; the resizing and serving of photos;
the search box of the list; the content of drafts. `update()`, `list()` and `status()` of the
connectors, which nothing calls, and the mock. The wallet screen and the creation of a PaymentIntent,
which keep no state of their own: Stripe's sheet decides and the webhook credits. The tokens of the
devices and the push itself, which may be lost without any state depending on it. Admin, health and
metrics routes, which read and aggregate, but for the state of the connectors (`Diffusion`). The
developer's export, tunnel and restart of Ollama, which drive processes of the developer's machine. Legal
texts, lists and the remaining screens, which decide nothing. The redaction of outgoing text (R2) and
the reminders (R7) of a mission, which have no caller that changes state.
