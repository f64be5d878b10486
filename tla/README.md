# Role Organizado back end: TLA+ models, model checking and proofs

`backend-go-role-organizado` is the Go back end of an application for organising
group events: events and drafts, participants, shared costs, gift and bring lists,
and the payments that fund them.  It shares its MongoDB database with an older Java
back end, charges through the provider Asaas, and runs long-lived work as Temporal
workflows.  This directory models it in TLA+, checks the models with TLC and proves
with TLAPS every safety property that the passing runs check.

Source paths below are relative to `src/`; `internal/usecase/payment/` is abbreviated
to `payment/`.

## 1. Inventory

| component | state it keeps | what makes it correct | status |
|---|---|---|---|
| Payment processing, single and batch (`payment/process_payment.go`, `process_batch_payment.go`) | `payment_transactions`, `payment_installments` | one transaction per idempotency key; a charge is always traceable; COMPLETED only if paid | modelled but for amounts and cards |
| Asaas client (`internal/infra/asaas`) | charges, customers (external) | an answer that was lost must not lose the charge | customers, create and get modelled |
| Webhook and callback (`handler/payment_webhook.go`, `payment/handle_payment_callback.go`) | `processed_webhook_events`, and everything above | one handler per event; effects only for paid money | modelled but for payloads without a payment id |
| Allocation (`payment/installment_allocation.go`) | `installment_allocations` | an installment is allocated by nobody who comes after another | protocol modelled, the split is floating point |
| Subledger (`payment/subledger_dual_write.go`) | `ledger_entries` | idempotent by source event | modelled but for the snapshot events |
| Expiration workflow (`workflow/payment_expiration.go`, `payment/expire_transaction.go`) | workflow execution | no payment whose workflow waits stays pending | modelled |
| Confirmation workflow (`workflow/payment_confirmation.go`) | workflow execution | retries lost effects | modelled |
| PSP reconciliation (`payment/reconcile_psp.go`, `workflow/reconciliation.go`) | copies of pending transactions | a run that was started settles what is in its reach | modelled but for the age threshold and the report |
| Cancelling a participant's installments | installments | never undoes a payment | modelled |
| Installment and payment queries | none | two lists of one collection agree | the installment lists |
| Social features (`usecase/social`) | one document per event | one claimant per item, one check-in per guest, limits | modelled |
| Gift list (`usecase/listapresentes`) | `lista_presentes_itens` | never more reservations than the quantity | modelled |
| Cofrinho (`usecase/cofrinho`) | contributions | a confirmed contribution is not lost | modelled |
| Events, drafts (`usecase/event`) | events, drafts, participants | no lost update; cursors meet every event | modelled but for filters and guests |
| Rateio (`usecase/rateio`) | rateios and closing snapshots | closed means snapshot taken; closed is final | modelled |
| Finance (`usecase/finance`) | `finance_summaries` | where two screens differ is known; a summary is a sum that was once true | modelled but for the unreachable account routes |
| Monthly payments, payment configuration (`usecase/payment/payment.go`) | `pagamentos_mensais`, configurations | a confirmation is not undone; a version names its fees | modelled but for fields nothing depends on |
| Accounts, saved cards, customer links | one document each | one default; nothing deleted comes back; one customer | modelled but for bank and PIX fields |
| System configuration, domains (`usecase/config`) | one document per key | one document per key | modelled |
| Notifications, templates | one document each | a read mark lasts; badge and list agree | modelled but for rendering |
| File storage (`usecase/storage`) | GridFS file and metadata | no metadata without a file | modelled |
| Authentication, profiles (`usecase/auth`) | users, refresh tokens | a token is exchanged once; a linked account stays linked | modelled |
| Request handlers, middleware | none but the handlers in progress | | the pool of handlers, the public prefixes of `JWTAuth` |
| Java-backed proxies, stub workflows | none | | not modelled |
| Wiring, migrations, telemetry | none | unique indexes exist, routes are ordered | not modelled; its facts are cited |

**How components interact.**  They call each other only through shared state: MongoDB
documents read and replaced whole, the provider's charges, Temporal's executions.  A
payment request saves a transaction, calls the provider, stores the charge id, starts
an expiration workflow.  The provider emits an event whenever a charge changes status
and delivers it any number of times; a delivery stores an outcome, marks installments,
allocates them, writes the ledger, notifies, signals the expiration workflow and starts
a confirmation workflow.  Reconciliation reads all pending transactions, asks the
provider about each and corrects them.  The organiser may cancel installments at any
time.  The finance screens read installments, rateios and the ledger and keep a summary
of them.  Social features, gift list and cofrinho share the membership of the event.
Publishing a draft writes an event and deletes the draft.  The Java back end writes
events, installments and payment configurations in the same database.

**What is hard about it.**  No MongoDB transaction and no document version is used:
every read-modify-write is two steps, and most updates are `ReplaceOne` by `_id` of a
copy read earlier.  Several handlers hold copies of the same document at once, and each
of a handler's calls may fail or be the last before a crash.  Calls to the provider are
retried without an idempotency header.  Events are recorded as processed *before* they
are acted upon.  Uniqueness is checked by a lookup before the insert, mostly without an
index.  `PROJECT.json` lists these hazards with their lines and the properties that
cover them.

## 2. Modules

The payment core:

| module | models |
|---|---|
| `PaymentStore` | the shared state: collections, charges, sent events, workflow executions; domain rules; one operator per repository method that writes |
| `ProcessPayment` | the handlers of `/payments/process` and `/payments/batch`, and `Client.CreatePayment` |
| `HandlePaymentCallback` | the webhook endpoint, the callback use case, allocation, the confirmation workflow |
| `PaymentExpiration` | `PaymentExpirationWorkflow` and its activity |
| `ReconcilePsp` | a reconciliation run |
| `PaymentCore` | the composition with its environment (provider, organiser), the properties, fairness, the refinement of `Settlement` |
| `Settlement` | the abstract specification: a transaction is opened, collects money, is settled for good |
| `PaymentInvariant` | the inductive invariants: `Sound`; `Settling`, while no two requests share a key; `GroupsAreCovered` |
| `PaymentCoreProofs` | the theorems that rest on `Sound`, and `AllocationsAreBounded` |
| `PaymentRefinementProofs` | the theorems that rest on `Settling`, and the refinement of `Settlement` |

The rest, each composition served by one pool of handlers (`Handlers`):

| composition | its components |
|---|---|
| `Community` | `Membership` (who may do what), `SocialFeatures`, `GiftList`, `Cofrinho` |
| `Eventos` | drafts, events, organiser records |
| `Finance` | `Rateios` (splits and snapshots), `EventInstallments` (installments as the installment endpoints see them), summaries and screens |
| `Backoffice` | `Billing` (monthly payments, configuration), `PaymentMethods` (accounts, cards), `CustomerLinks` (the provider's customer of a user), `Settings` (lookup values, settings), `Notifications` (and templates), `Files` |
| `Sessions` | accounts, refresh tokens |

`CommunityProofs`, `EventosProofs`, `FinanceProofs`, `BackofficeProofs` and
`SessionsProofs` hold the theorems about them, `FoldFacts` the lemmas about sums, pages
and ordered lists that four of them use.

`MCPaymentCore`, `MCCommunity`, `MCEventos`, `MCFinance`, `MCBackoffice` and
`MCSessions` give functional constants their values and state the symmetry.

**State of the core.**  `txs` is `payment_transactions` by id: status, provider charge id,
whether `expiresAt` is set.  A request's name doubles as the uuid of the transaction
it creates.  `reqs`, `deliveries`, `workflows` and `runs` hold one program counter per
handler or execution and the Go variable `tx`, the copy it works on.  `charges`
are the provider's, named by request and HTTP attempt; `sent` are the events it
emitted, which never leave: any may be delivered, again, late or never.

**State of the rest.**  Each collection is a function from ids to documents, with
sentinels for an id not drawn yet and a document deleted (a summary not written yet is
`NewSummary`, which no request began).  `calls[s]` is the handler in
slot `s`: the operation it is at, the user of the JWT, the input, the documents it read.
`served` counts the requests accepted and bounds the behaviour (`MaxRequests`).  A
document field that only texts fill is one value, named by the request that wrote it,
so that a lost update shows as an older number.

**Steps.**  Each database or provider call that matters is a step; everything between two
calls belongs to the step of the call before it.  In the core, `StoreCharge` is
`txRepo.Update` of step 9 with the copy built by `AfterCharge` (the `switch` of step 8);
`LoadTx`/`StoreOutcome` are the lookup and the update of
`executeApproved/Failed/Cancelled`; `LoadExpiring`/`StoreExpired` the two halves of
`expireTransactionUseCase.Execute`; `FetchPayment`/`StoreCorrected` those of one iteration
of the reconciliation loop.  Elsewhere an operation is named as in the code
(`UpdateDraft`, `RefreshTokenExecute`, `ReservarItem` ...): its first step ends with the
last check that passed, its later steps are the writes; a request whose first write
follows its only read atomically (one `UpdateOne` with a filter) is one step.  A rejected
request changes nothing and is no step.  Read-only operations are operators that the
properties evaluate in every state.  A map from every definition to its lines is in
`PROJECT.json`.

**Failures.**  In the core, `Fault` injects one failure and counts it against
`MaxFaults`: a call that fails before its effect, a call whose effect happened but whose
answer is lost (`LoseChargeAnswer`, `FailAttempt` after `StoreExpired`'s write), an
`UpdateMany` that got only so far, or a crash of a handler between any two steps
(`AbortRequest`, `AbortDelivery`, `CrashRun`).  Elsewhere `Abort` ends a handler at any
step, without a bound; where an error is ignored and the code goes on (recalculation,
snapshots, customer link, deleting a published draft) that is a step too.  A handler's
state dies with it; documents, charges and workflow executions do not.

**Details that are easy to miss.**

- `/payments/process` never links installments: the HTTP handler
  (`handler/payment.go:514-559`) does not fill `InstallmentIDs`, though
  `port/in/payment_transaction.go:35` offers the field.  Only batches have items
  (`StoreAssumption`).
- Batches start no expiration workflow (`cmd/server/main.go:492`) and set no `expiresAt`.
- `Save` of a transaction whose key is taken copies the stored document into `tx` and
  returns nil; the caller goes on with that copy (`SaveTx`).
- An expiration workflow whose transaction is already terminal ends as FAILED.
- Reconciliation touches only transactions that know their charge, and writes no
  installment, ledger entry or notification.
- Installments with binary ids and those with string ids are never found by the same
  filter; finance screens and installment endpoints read disjoint documents.
- `payment_accounts` is served by two handlers; the one registered later wins
  (`cmd/server/main.go:598-599`), so `ManagePaymentAccounts` of the finance module is
  never reached.
- A configuration keyed by Java under another field name is found by both keys, but the
  Go replacement drops Java's.

## 3. What the runs check

Passing runs (distinct states; all complete):

| run | instance | properties | states |
|---|---|---|---|
| `pix` | one PIX payment, Temporal on, two webhook handlers, one reconciler, CONFIRMED, RECEIVED and OVERDUE, one failure | `TypeOK`, `CompletedIsFunded`, `EffectsAreFunded`, `ChargesAreRecorded`, `EventHasOneHandler`, `PaidWorkflowIsSettled`, `ImplementsSettlement` | 705 k |
| `progress` | one PIX payment, one webhook handler, one reconciler, two failures, fairness | `WaitingIsSettled`, `StartedRunSettles` | 155 k |
| `batch` | two card batches for the same installment, two webhook handlers, one reconciler, CONFIRMED and RECEIVED, no failure | `FundingHolds`, `AllocationsAreBounded`, `PaidIsFinal` | 2.5 M |
| `same_key` | two card requests, one of them a batch, with one key, two HTTP attempts, one failure | `FundingHolds`, `KeyNamesOneTransaction` | 497 k |
| `community` | organiser and two guests, two handlers, five requests | `TypeOK`, `SocialLimitsHold`, `CountIsHonest`, `ClaimsEndOnRequest`, `SaldoFallsOnlyToALateRemoval` | 195 k |
| `eventos` | two users, two drafts, two events, pages of one, four requests | `TypeOK`, `CursorMeetsEveryEvent`, `AutosaveDiscardsOnlyWhatWasRead`, `CancelledIsEditedOnlyByAStaleCopy` | 856 k |
| `finance` | one split, not drawn yet or stored already; three installments, filed under a participation record, under a user and under a text id; two users, two summaries, two requests | `TypeOK`, `ScreensAgree`, `SecondSummaryOnlyInARace`, `ClosedHasSnapshot`, `CollectedFallsOnlyInARace`, `ClosedIsWrittenOnlyFromAStaleCopy` | 1.4 M |
| `backoffice` | two users, two handlers, four requests | `TypeOK`, `VersionNamesItsFees`, `DefaultsOverlapIsBounded`, `DuplicatesAreBounded`, `BadgeAgreesWithPages`, `BrokenIsInterrupted`, `FoundConfigIsLostOnlyByJavaKey`, `OnlyStaleCopiesUndo` | 610 k |
| `sessions` | two accounts, two people, four tokens | `TypeOK`, `ExchangesAreBounded`, `AccountsAreKept` | 461 k |

What they show.  Whatever the interleaving of whole-document writes, and whichever single
call fails, a transaction is COMPLETED only when the provider reported one of *its*
charges paid; installments, ledger and notifications say paid only for such a transaction;
a settled transaction is never pending again; a paid installment is never cancelled; one
key leaves one transaction; an installment is allocated at most once by each handler that
overlaps; an expiration workflow that waits is settled, and a reconciliation run that was
*started* settles every payment in its reach.  What an older copy may still do is replace
COMPLETED by CANCELLED or FAILED, or the reverse: no property excludes it.

Outside the core the code accepts lost updates, so the properties say *exactly which
overlap* it takes.  One claimant keeps a bring-list item (the filter of the update
decides), while a playlist limit is overrun by the handlers that overlap and no more.
A gift is never listed with more reservations than promised.  The balance of the
cofrinho falls only to a removal that read the contribution while it was pending.  An
edit of a cancelled event, of a paid monthly payment or of a closed split undoes another
write only through a copy read before that write; so does an autosave that says when its
client read, while one that does not say discards whatever came since.  A summary never
shows more than was paid, and shows less than before only after a failed read or a race.

The finance screens do *not* all show the same money, and `ScreensAgree` says by what they
differ.  The totals of the event and of the user's installments are complete.  The
participants' rows, one for each participation record, miss what is filed under anything
else, a user id for instance; the hold balance misses payments without a date; a row whose
installments could not be read shows nothing, but never PAID; reminders go to the rows
with a debt and to whom unlisted installments are filed under; the event list leaves out
records that are still invitations and events that cannot be read, and otherwise shows
the overview, but for the sum that may be withdrawn, which it shows as stored.

Default accounts, settings of one key and customers of one user are duplicated at most
as often as handlers, and their attempts, overlap.  A listed file that cannot be
downloaded is one whose deletion was interrupted, and it stays so.  A refresh token is
exchanged at most once per overlapping handler, and no write takes the last provider
link from an account; a second link, or a role, may be lost to a copy read before it was
stored.

Composite properties put together what one instance checks at once: `FundingHolds`,
`SocialLimitsHold`, `ScreensAgree`, `DuplicatesAreBounded`, `OnlyStaleCopiesUndo`,
`AccountsAreKept`; their parts are stated and commented where they are defined.

**The abstract specification.**  `Settlement` knows transactions, a phase and whether
money was collected.  `ImplementsSettlement` maps a transaction's status to the phase
and the provider's reports to the money.  A step that reopened a settled transaction,
completed one before its money was there, or settled one that is not on record would
fail it.  The refinement is claimed for requests that share no idempotency key: with a
shared key a request goes on with the other's document and may write it back as
PENDING after it was settled.

Violation runs.  Each checks one statement that a comment of the source makes and finds a
behaviour of the code that breaks it:

| run | statement | what happens instead |
|---|---|---|
| `one_charge_per_key` | the key is enforced (`port/in/payment_transaction.go:38`) | two racing requests make two charges |
| `allocated_once` | concurrent allocations of an installment are no-ops (`installment_allocation.go:43`) | fresh uuids and no unique index among those this repository creates (v081 to v085): two callbacks that both count none insert a group each |
| `logout` | logout revokes all refresh tokens (`port/in/auth.go:60`) | its route lies under a public prefix, so it finds no user and revokes nothing |

Other statements of the source that the models contradict, met while modelling and by
earlier runs that are no longer kept; the passing properties are worded so as not to claim
them:

- a terminal transaction is "final, immutable" (`domain/payment/transaction.go:90`): a
  handler with an older copy replaces COMPLETED by CANCELLED or FAILED, or the reverse;
- what an event answered 200 left undone, "reconciliation will correct"
  (`handler/payment_webhook.go:144`): if the update that stores the charge id failed, the
  callback finds no transaction and reconciliation skips one without a charge id;
- an autosave applies only the fields it carries (`port/in/event.go:104`): the handler
  always builds a list of split items, and an autosave without it clears them;
- unmarked installments "can be corrected by reconciliation"
  (`handle_payment_callback.go:271`): reconciliation never writes installments;
- a settled payment makes the workflow SKIPPED (`payment_activities.go:82`): it becomes
  FAILED;
- the confirmation workflow retries downstream effects (`payment_confirmation.go:45`):
  its activity returns at the idempotency check.

**Bounds and why they are enough.**  In the core, one or two requests: all payment state
is per transaction, and requests meet only through a shared key (`same_key`) or a shared
installment (`batch`).  Two webhook handlers (`pix`, `batch`): a race of two events, or
of an event with its redelivery, needs two.  One reconciler is enough to hold a stale copy
across any other step.  `MaxFaults` 1 allows every single failure at every point, 2
(`progress`) a failure of the recovery from the first; `batch` injects none, since every
single failure of a batch is in `same_key`.  `MaxAttempts` 2 gives one retry
of the POST; the third attempt of the code adds one more orphan charge; `MaxPosts` 2 is
the same for customers.  `Outcomes` restricts the provider's moves to those the run is
about.  The theorems of section 4 hold for every value of all of these.

Elsewhere two handlers (`Slots`): every hazard of section 1 is one stale copy against one
other write.  `MaxRequests` is two to five, mostly one more than the longest story each
property needs: create, read by a slow handler, change by another, write of the slow one;
`finance` may start with the split already there, which saves the first of them. Ids are
as many as those requests can draw.  Bounds stated in terms of `Cardinality(Slots)` and
`MaxPosts` are checked at two; with more handlers they grow as stated.  Symmetry is used
for handlers, users, ids that are never compared by order, and only with safety
properties.

**Deadlock** is not checked: the system may stop when its requests are answered and
no charge moves again.

**Fairness** (`FairSpec`, used by `progress`).  Weak fairness of each started request
handler and webhook handler: a goroutine that was started runs until it returns or fails.
Weak fairness of each expiration workflow: Temporal drives open executions, fires timers
and schedules activity attempts.  Weak fairness of the steps of a reconciliation run once
it has started, *not of its start*: `worker/schedules.go:36` defines a daily schedule, but
`cmd/server/main.go` never registers it.  `StartedRunSettles` is therefore about a run
that exists: what it read and has not looked at yet, and what it is about to store.  Fair
actions take non-failing steps only (`faults` unchanged); nothing forces a user to pay,
the provider to move a charge or an event to be delivered.  `WaitingIsSettled` is claimed
for fewer failures than the activity has attempts (2 against 3).  The other components
have no background work: nothing in them must happen that no request asks for, so they
state no liveness.

## 4. What is proved

The theorems hold for every value of the constants: any number of requests, keys,
handlers, workers, documents, pages and failures.  Each states a property of a run
(section 3), except `SoundIsInvariant` and `SettlingIsInvariant`, which are the
invariants themselves, and `SummariesNeverOverstate` and `InstallmentListsStayAgreed`,
which are parts of `ScreensAgree`.

| module | theorem | property |
|---|---|---|
| `PaymentCoreProofs` | `SoundIsInvariant` | `Spec => []Sound` |
| | `TypesAreKept` | `TypeOK` |
| | `CompletionIsFunded` | `CompletedIsFunded` |
| | `EffectsStayFunded` | `EffectsAreFunded` |
| | `ChargesStayRecorded` | `ChargesAreRecorded` |
| | `MoneyIsAccounted` | `FundingHolds` |
| | `EventsAreHandledOnce` | `EventHasOneHandler` |
| | `OneTransactionPerKey` | `KeyNamesOneTransaction` |
| | `PaidStaysPaid` | `PaidIsFinal` |
| | `AllocationsStayBounded` | `AllocationsAreBounded` |
| `PaymentRefinementProofs` | `SettlingIsInvariant` | `Spec => []Settling`, if `KeysAreUnique` |
| | `PaidWorkflowsAreSettled` | `PaidWorkflowIsSettled`, if `KeysAreUnique` |
| | `SettlementIsImplemented` | `ImplementsSettlement`, if `KeysAreUnique` |
| `CommunityProofs` | `CommunityIsTyped` | `TypeOK` |
| | `SocialLimitsStayHeld` | `SocialLimitsHold` |
| | `CountsStayHonest` | `CountIsHonest` |
| | `ClaimsEndOnlyOnRequest` | `ClaimsEndOnRequest` |
| | `SaldoIsNotTakenBack` | `SaldoFallsOnlyToALateRemoval` |
| `EventosProofs` | `EventosAreTyped` | `TypeOK` |
| | `AutosavesDiscardWhatWasRead` | `AutosaveDiscardsOnlyWhatWasRead` |
| | `CancelledNeedsAStaleCopy` | `CancelledIsEditedOnlyByAStaleCopy` |
| | `CursorsMeetEveryEvent` | `CursorMeetsEveryEvent` |
| `FinanceProofs` | `FinanceIsTyped` | `TypeOK` |
| | `ScreensStayAgreed` | `ScreensAgree` |
| | `SecondSummaryTakesARace` | `SecondSummaryOnlyInARace` |
| | `FallTakesARace` | `CollectedFallsOnlyInARace` |
| | `ClosedSplitsHaveSnapshots` | `ClosedHasSnapshot` |
| | `ClosedSplitsAreWrittenFromStaleCopies` | `ClosedIsWrittenOnlyFromAStaleCopy` |
| `BackofficeProofs` | `BackofficeIsTyped` | `TypeOK` |
| | `VersionsNameTheirFees` | `VersionNamesItsFees` |
| | `DefaultsStayBounded` | `DefaultsOverlapIsBounded` |
| | `DuplicatesStayBounded` | `DuplicatesAreBounded` |
| | `BadgesAgreeWithPages` | `BadgeAgreesWithPages` |
| | `BrokenFilesWereInterrupted` | `BrokenIsInterrupted` |
| | `ConfigsAreFoundForGood` | `FoundConfigIsLostOnlyByJavaKey` |
| | `StaleCopiesAloneUndo` | `OnlyStaleCopiesUndo` |
| `SessionsProofs` | `SessionsAreTyped` | `TypeOK` |
| | `ExchangesStayBounded` | `ExchangesAreBounded` |
| | `AccountsStayKept` | `AccountsAreKept` |

**Assumptions.**  The `ASSUME`s of the modules say what a deployment has: typing of the
constants, sentinels outside the sets they stand beside, page sizes above zero, and
that handlers, splits, installments, participants, contributions, events and
notifications are finitely many, as documents and goroutines are.  TLC evaluates them in
every run.  The theorems of `PaymentRefinementProofs` have a hypothesis more, because the
code needs it too: `KeysAreUnique`, no two requests share an idempotency key.  With a
shared key the second request goes on with the document of the first and may write it back
as PENDING after it was settled.  The runs that check those properties instantiate it.

**The payment core.**  `CompletedIsFunded` is not inductive: a handler may write a copy
read long ago, so what is stored next depends on what handlers hold now.  `Sound`
therefore speaks of *every copy in flight*.  Each of the `SoundCopies` belongs to a stored
transaction, carries no charge or one made for that very transaction, and says
COMPLETED only if money was collected.  These three facts are monotone: documents are
never deleted, charges never change owner, and sent events are never taken back, so a
sound copy stays sound however long it is held, and writing it back keeps the store
sound.  What is left is to show that each handler *creates* sound copies: a request
from the provider's answer (`ChargesSound`: the provider announced every status a
charge has), a callback from an event that was sent (`DeliveriesSound`), the
expiration workflow by cancelling, a reconciliation run from the charge's present
status.  `EventHasOneHandler` needs one more fact: past `SaveUnique` the event is in
`processed`, so no second handler can pass.  `KeyNamesOneTransaction` and `PaidIsFinal`
need the unique index and the filter of `UpdateMany`, one step each.

`Sound` does not exclude that a settled transaction is reopened, and with a shared key
it may be.  Without one, `Settling` holds: until its request is done with it nobody
else writes a transaction, because its charge id is not stored yet and its expiration
workflow has not started; after that every copy anybody is about to write
is terminal and has the charge id that is stored (`FinalCopies`).  So no write reopens
it, and each step of `PaymentCore` maps to a step of `Settlement` or a stutter.  A step
of the provider maps to `Collect`, the write of a terminal copy to `Settle`.
`AllocationsAreBounded` is inductive with the handlers that are about to insert counted
in (`GroupsAreCovered`): only a handler that counted none joins them, and an insert
moves one of them into the count.

**The other compositions** share one shape.  Each component has an invariant of its
documents and of what its handlers keep (`calls[s]`): a handler that is about to write
holds a copy that *was* there, with the fact about it that its check established and
nothing can undo since.  A step of another component leaves both alone, so the step
lemmas combine.  The facts that make the invariants inductive are these:

- *Counting overlaps.*  `ExchangesAreBounded`, `DuplicatesAreBounded`,
  `DefaultsOverlapIsBounded` and `PlaylistsOverrunIsBounded` count what is written
  together with the handlers that may still write; a step moves one handler
  from the second set to the first, and only a look-up that found nothing adds one.
- *Reservations.*  The count a handler is about to write is at most one more than the
  guests were told they have, and never more than was wanted (`GiftCallOK`): the
  quantity of a gift does not change, and what guests were told stands.
- *Versions of splits.*  A closing that has no snapshot yet is a request that no snapshot
  of any split was taken for: `Len(fechamentos[r])` and the closings at work are together
  at most the requests served, so the next version is in range (`VersionsCounted`).
- *Summaries.*  What a recalculation gathered is at most what was paid and at least what
  any summary stored before it began says (`Gathered`), since money that was paid stays
  paid.  A summary that is inserted although another exists began before that one was
  stored, or failed to read.
- *Drafts.*  Between the two calls of an autosave the version read is either still there,
  with the content that was read, or older than what is stored (`CallOK`, `Fresh`).  What
  the check compared was the client's version only if the payload had one.
- *Money on the screens.*  Installments are partitioned by participation record, with
  those under none apart (`PartsSumUp`), and by status; dated payments are partitioned
  into held and available (`BalanceIsPaid`).  Paging and the badge follow
  from the state alone, for any list and any page size.

**Sums, pages and cursors.**  Totals are folds over finite sets, pages are put together
with a recursive function of the community modules, and the walk along the cursors is
a recursive function of the model.  The library's induction theorems take an operator as
a parameter and cannot be used, but its `WFMin` (every non-empty set has a minimal
element of a well-founded relation) can.  `FoldFacts` proves each such fact by taking a
smallest set, or a smallest number, for which it fails: what `SumFunctionOnSet` computes
whatever order is chosen, that the pages of a list put together are the list
(`PagesMeetAll`), that a finite set of numbers has a descending list which meets
each of them once.  The folds themselves are recursive functions chosen with `CHOOSE`;
`SumsExist` shows that there is one, `SumsAgree` that there is one only.
Sorted lists are described by what they satisfy (`NewestFirst`), because `SortSeq` and
`SelectSeq` are opaque to the prover.

**Only model-checked:** the liveness properties `WaitingIsSettled` and
`StartedRunSettles` (temporal proofs under fairness, and `ENABLED`, are out of the
prover's reach).  The three statements of the violation runs are refuted by TLC.

## 5. Not modelled, and why

In the payment core:

- Amounts, fees, dates and CPF validation: they only decide whether a request is
  refused before it changes anything.  The fee formula and the proportional split of an
  allocation round floating-point numbers, which TLC does not evaluate.
- Saved-card tokens of a charge: read, checked active, passed on.
- `ledger_snapshot_events`: written beside each ledger entry, never read.
- The webhook's fallbacks to `externalReference` and `providerTransactionId`: used only
  when the payment of the payload has no id, and Asaas always sends one.
- Other provider statuses (chargeback, dunning) and aliases (APPROVED, COMPLETED ...):
  they take the branches of the modelled ones.
- PROCESSING and OVERDUE installments: set by the Java back end; the overdue-installment
  activity here is a stub.
- The age threshold of reconciliation: a run may see any pending transaction.
- An activity attempt that outlives its timeout while its successor runs.  Temporal's
  heartbeat timeout allows it for reconciliation (`workflow/reconciliation.go:43`); as
  two overlapping runs it is covered by the theorems, which hold for any number of
  reconcilers.
- `StartWorkflow` sets no reuse policy, so a closed execution may be started again:
  `StartExpiration` allows that.

Elsewhere:

- Clock resolution: two saves of a draft always have different times here, while
  MongoDB keeps milliseconds (`domain/event/evento_draft.go:84`).
- Password hashing, signatures of provider tokens and JWTs: whether a credential is good
  is a fact about the request.
- Rendering of templates, translation, icons, bank fields, addresses: one value stands
  for them.
- Filters of event lists, guests pushed into an event, the transaction queries: single
  reads of one document or a filter of a list that is modelled.
- `usecase/finance` `ManagePaymentAccounts` (its routes are shadowed) and reminders
  (no dispatcher is configured, `cmd/server/main.go:524`).
- Proxies to the Java back end and stub workflows keep no state here; wiring, migrations,
  telemetry and configuration are start-up code.

## 6. Plan

Done: the payment core with its proofs; the refinement of `Settlement`; social features,
gift list, cofrinho; drafts and events; rateios, finance; billing, payment methods,
customer links, settings, notifications, files; sessions; the proofs of all their safety
properties.  Left, most important first:

1. Abstract specifications of the other components that several requests race for (a
   claim, a token, a split), each refined by its component.
2. What the core guarantees when a key is shared: which writes reopen a settled
   transaction, and that its money is then still accounted for.
3. The proportional split and the fee formula as integer relations that allow either
   rounding of a tie.
