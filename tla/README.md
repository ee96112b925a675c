# Verification of Family Financial Planning

TLA+ specifications, TLC model-checking runs and TLAPS proofs for the household
finance application in this repository (FastAPI, SQLAlchemy and PostgreSQL under
`app/`, a few long-running worker processes, a WhatsApp gateway, a browser UI).
Source paths below are relative to the repository root.

## 1. How the program runs, and what a step is

* `app/api.py` serves every HTTP request. Ordinary `def` handlers run in a thread
  pool, so two requests on the same rows overlap; `async def` handlers share one
  event loop and overlap only at an `await`. There is one server process
  (`scripts/entrypoint.sh`), restarted when it dies (`compose.yaml`).
* Workers are processes of their own: the capture reconciler
  (`app/cli/capture_worker.py`, run by cron or a systemd timer,
  `docs/ARCHITECTURE.md:45`), the alert worker (`app/cli/notification_worker.py`, a
  service with `restart: unless-stopped`), the CVM valuation worker and the WhatsApp
  gateway. The capture background tasks run inside the server process.
* Everything is shared through PostgreSQL at READ COMMITTED
  (`app/db.py`: `autoflush=False`, `expire_on_commit=False`). There is no version
  column: the ORM updates the changed attributes of a row by primary key, whatever
  the row holds by then. A query does not refresh a row the session already holds.
  What orders writers is explicit: compare-and-swap `UPDATE ... WHERE` statements
  (captures, alerts, MFA), a few `SELECT ... FOR UPDATE`, and two advisory locks.

So in every module **one action is one database transaction, or the read on which a
later transaction of the same handler acts**; what a session has read is part of the
model's state, because the code acts on it after others have committed. Where two
transactions wait for each other's locks, each lock is an action too.

## 2. Inventory

Status: **M** modelled, **P** partly, **–** not modelled. What is missing of each part
is in section 7 and in the notes of `PROJECT.json`.

| Component | | Code | State | Operations | What is hard |
|---|---|---|---|---|---|
| Capture queue | P | `services/capture_worker.py`, `cli/capture_worker.py`, `api.py` 3762–4785 | `capture_drafts`, `capture_processing_jobs`, background tasks | preview, claim, process, publish, fail, sweep, cancel, confirm, retry | workers and requests in any order, lost tasks, crashes, late workers, unlocked draft |
| Monthly close and revision | M | `services/monthly_close.py`, `services/financial_revision.py`, `models.py` 2095–2168, `api.py` 2263–2540 | `monthly_financial_closes`, `household_financial_revisions` | run, trust, reopen; every flush of a financial row | evidence gathered by several transactions, two locks in two orders, stale session rows |
| Financial snapshots | P | `services/financial_snapshots.py` | `financial_snapshots`, one current version per period | build, reuse, supersede | GET requests write; advisory lock; carried deficits |
| Financial integrity | P | `services/financial_integrity.py`, `financial_invariants.py`, `invariant_registry.py` | runs, findings, overrides | run checks, acknowledge, dismiss, resolve, reincidence | a run and a human decide on the same finding |
| Due-date alerts | P | `services/notification_scheduler.py`, `cli/notification_worker.py`, `services/email_delivery.py` | `notification_deliveries` | discover, claim, revalidate, send, record, sweep | SMTP uncertain, crash after acceptance, overlap, midnight |
| SMTP configuration, worker status | – | `services/notification_settings.py`, `smtp_config.py` | settings, recipients | update, test e-mail | (changes of recipients and settings are in the alerts' model) |
| Assistant | P | `services/assistant_actions.py`, `assistant_orchestrator.py`, `assistant_tools.py`, `assistant_conversation_context.py` | proposals, action events, conversation memory | propose, confirm, cancel, undo, plan, record a turn | one-time consumption, confirm against cancel, undo of changed rows, overlapping rounds |
| WhatsApp gateway | P | `whatsapp_gateway_app.py`, `services/whatsapp_gateway.py`, `whatsapp_media.py` | authorized numbers, inbound events, pending capture, rate bucket | receive, deduplicate, route, confirm | redelivery, stale row under a lock |
| Transactions and obligations | P | `api.py` 5009–5930, 7063–7990, `services/transfers.py` | transactions, obligations, balance observations | create, edit, delete, pay, unpay, cancel, fund, confirm a balance | check-then-act without locks, chains of balances |
| Card invoices and payments | P | `services/card_invoice_lifecycle.py`, `card_payment_reconciliation.py`, `card_competence*.py` | invoices, links, competences | upsert, pay, refund, link, unlink, repair, roll back | symmetric pairs, inherited balances, month arithmetic |
| Imports, duplicates, reconciliation | P | `services/importer.py`, `duplicates.py`, `reconciliation.py`, `api.py` imports | documents, artifacts, groups, totals | import, batch, read lines, group, decide, reopen | failure half-way, elections, ambiguous layouts |
| Classification | P | `services/classification_learning.py`, `classifier.py` | learned rules | correct, accept, edit, deactivate, apply | unlocked evidence, two administrators |
| Projection and planning | P | `api.py` `_forecast_*`, `services/financial_engine.py`, `projection_*.py`, `financial_invariants.py` | none (computed from obligations, instalments, salary, snapshot) | project, validate | overdue and recurring bills, repeated instalments, deficits |
| Investments and valuations | P | `api.py` investments, `services/privilege_valuation.py`, `cvm_client.py`, `cli/cvm_valuation_worker.py` | holdings, valuations, quotas, positions | contribute, value, undo, ingest, estimate | quotas out of order, overlapping passes |
| Batch commands | P | `cli/initial_load.py`, `backfill.py`, `reconcile.py` | the tables above | load, backfill, reconcile again | restart half-way, two at once |
| Authentication and MFA | – | `security.py`, `services/mfa.py` | users, factors, sessions | login, enrol, reset | left to a security review |
| Capture analysis, advisor | – | `services/codex_*.py`, `audit_sanitizer.py`, `smart_capture.py`, `advisor/` | none | external models, OCR, text | not stateful |
| Reports, UI | – | `services/report_export.py`, `static/`, `main.py` | none | formatting, routing | – |

Interactions: a confirmed capture, an import, an assistant action and every manual
endpoint write financial rows, and each such flush moves the household's revision,
which the monthly close compares. That flush also takes the revision's row lock, which
is why many handlers below read, wait, and then write what they computed from a copy. A
dashboard or forecast GET rebuilds the snapshot that the close points to; a forecast
also runs integrity checks. Bills feed the alert outbox and the projection; the WhatsApp
gateway feeds captures and assistant actions.

## 3. Modules

| Module | Models |
|---|---|
| `AttemptLease` | abstract: what both durable queues promise of numbered attempts |
| `CaptureQueue` | the capture queue, its workers and the household's requests |
| `PeriodReview` | abstract: what the monthly close promises about one period |
| `MonthlyClose` | run, trust and reopen among everything that moves under them |
| `NotificationOutbox` | the due-date alert outbox and its workers |
| `WhatsAppGateway` | deliveries, the pending slot, answers, and the web on the same drafts |
| `Ledger` | manual transactions, obligations, funding from the investment account |
| `OneShotDecision` | abstract: what the Assistant promises of a proposal |
| `Assistant` | proposals confirmed, cancelled and undone, over `Ledger` |
| `Conversation` | rounds of the tool layer and the memory they share |
| `CardPayments` | links between bank debits and card invoices, and their evidence |
| `CardInvoices` | invoices cycle by cycle: purchases, refunds, payments, inheritance |
| `CompetenceRepair` | the month of a card purchase, its repair and rollback |
| `Duplicates` | duplicate groups: election, decision, reopening, backfill |
| `FindingLifecycle` | integrity runs and findings against people's decisions |
| `ClassificationRules` | rules learned from corrections |
| `Imports` | batches of files, their artifacts and their report |
| `DocumentReading` | reading a statement or an invoice line by line, and its total |
| `InitialLoad` | the bootstrap command, interrupted and repeated |
| `Investments` | contributions, valuations and their undo |
| `FundQuotes` | a fund's quotas, unit positions and daily valuations |
| `Projection` | the projection, its validator, and the snapshot it starts from |
| `MC*` | instances for TLC |
| `CaptureQueueProofs`, `MonthlyCloseProofs`, `NotificationOutboxProofs`, `WhatsAppGatewayProofs` | theorems about the module they are named after |
| `PaymentsProofs` | theorems about `CardPayments` and `CardInvoices`, and with the ledger's about `MCPayments` |
| `LedgerProofs` | theorems about `Ledger` and `Assistant` |
| `BooksProofs` | theorems about `MCBooks` and its parts, `CompetenceRepair`, `ClassificationRules`, `Conversation`, `FindingLifecycle`, `Duplicates` |
| `SourcesProofs` | theorems about `MCSources` and its parts, `InitialLoad`, `Imports`, `DocumentReading`, `Investments`, `FundQuotes`, `Projection` |

Operators whose comment says *mutant* are wrong variants of the definition that
follows them (a dropped comparison, an off-by-one, a lock kept). The project file
`PROJECT.json` pairs each with the property that must fail when it is used, which
shows that the property depends on that piece of code. It also maps every definition
to the source lines it stands for. No module declares a recursive operator: what is
recursive in the code is a recursive function here.

Two forms are used again and again. A **session's copy**: a handler that reads,
waits for the household's revision row and writes is two steps; what it writes are the
columns that differ from its copy (the ORM's UPDATE), so `Duplicates`, `CardInvoices`,
`Ledger`, `ClassificationRules`, `FindingLifecycle`, `Investments` and `FundQuotes`
merge column by column. To keep them small most requests are served in one step there,
and a *slow* request at a time (`BeginSlow`, `StartSlow`, `ReadAsset`, `ReadFinding`, ...)
lets any others come between its read and its write. A **history variable** remembers
that something happened against which the code has no guard at all (an overlap of two
unlocked requests, a row erased under its owner); a property excepts exactly those
histories, and the exception is itself shown to matter by a claim in section 5.

### CaptureQueue

`draft`, `proposal`, `job` are the columns of `CaptureDraft` and
`CaptureProcessingJob` that control anything; `facts[c]` counts the confirmations that
created financial rows; `tasks[c]` the background tasks not yet begun. A worker
record has the position (`pc`), the ids still to do, what the claim observed, and the
lease, which the code learns only by `db.refresh` *after* the claim committed
(`Claim` and `Refresh` are two steps, as there). `handler[h]` is a cancel or confirm
request of the thread pool between its read and its commit; `retry` the retry
handler, which runs on the event loop and therefore excludes the await-free part of
a background task (`LoopFreeFor`, `OnLoop`). Staleness is a Boolean set by `Elapse`
at any time after a claim, whatever the worker does, so it covers a slow worker as
well as a dead one. `Publish` is one transaction with the job's compare-and-swap and
is rolled back whole if that is lost, as in `_finalize_or_discard`.

### MonthlyClose

`facts` carries two version numbers (rows the period's snapshot reads, rows it does
not) and whether the checks pass on them, which a change may alter either way.
`flagged` holds the sources of open findings: the close's own checks and the
forecast's. A snapshot's content is what its checksum covers. `revLock` is the row
lock of `HouseholdFinancialRevision`, taken by every flush of a
`FINANCIAL_REVISION_MODELS` row; `snapLock` the advisory lock of `build_snapshot`.
Trust and reopen first read the close for the audit event (`Read`), and then decide
on `Held(r)`: the row the session has, if it has one. `RunFail` and `RecordFailure`
are the two transactions of a run whose checks raise. `DeadlockVictim` is PostgreSQL
ending one of two crossed waiters.

### NotificationOutbox

An event is a bill, a recipient and a kind (D-1 or D0), the unique key of
`notification_deliveries`. A pass of a worker sweeps (`FailExhausted`), discovers,
lists, and for every id claims, refreshes, revalidates, sends and records. `Smtp`
answers ok, transient or permanent; a transient failure may hide an accepted e-mail.
`ChangeBill`, `ChangeRecipient` and `ChangeSettings` are the household; `Midnight` and
`SendTime` the local clock. `mails` and `doubts` are history variables for the claim
about duplicates.

### WhatsAppGateway

One authorized number. `event` is `WhatsAppInboundEvent.status`, every final status of a
processed message being "done"; `pointer` is the number's `pending_capture_id`; a draft
has the name of the message that made it. A delivery runs on the gateway's only event
loop (one uvicorn process) and gives it away only while the file is analysed in a
thread, so a delivery anywhere else excludes all others (`LoopFree`), and a database
call that waits keeps the loop (`MediaInsert`). `delivery[h].pending` is the pointer as
the session read it with the sender's row: `ClaimSlot` decides on it, because the
locking query does not refresh a row the session holds. The web application is another
process: `WebRead` and `WebCommit` are its cancel and confirm requests. `Crash` loses
the deliveries in progress and what they had not committed. `effects`, `raced` and
`lost` are history variables.

### Ledger, OneShotDecision, Assistant

`db` holds the transactions (`tx`), obligations (`ob`) and confirmed balances of the
investment account (`obs`); `request` is the one slow request with the rows it read.
Creation, edit, exclusion, deletion with the whole funding group, payment by an
existing or a new transaction, its undo, cancellation and the confirmation of a balance
are the handlers of `api.py`; funding creates the redemption row and an observation that
supersedes the latest, undoing it deletes the row and gives the observation back. Which
balance a payment spends depends on when it reads it (`Seen`): with a new transaction the
first flush, which locks the household's revision, comes before the read, so it is the
latest there is; with an existing transaction the read comes first, so the balance may have
changed before it is spent (`SpendsOutdated`, recorded as `"spent"` in `odd`).
`Assistant` extends it: a session finds a proposal without a lock (`Find`), locks and
rereads the row, and runs the ledger operation, the trail and the consumption in one
transaction; `AssistantActionEvent` rows are `action` and `undone` of the proposal.
`touches` counts the commits on the books made for a proposal.

### Conversation

`row` is the committed `AssistantConversationState`, `round` a request in progress, read
without a lock at its start; recording locks the row, or inserts it and joins the row of
a round that was faster. `proposals` are the drafts a plan's steps make, confirm and
cancel. `told` is the conversation as it was told, a history variable.

### CardPayments, CardInvoices, CompetenceRepair

`link` is `linked_transaction_id` of debits and invoices, `loaded` the identity map of each
session: a locking query without `populate_existing` returns the copy. `holder` has a row's
lock, an account's and the household's revision's, one at a time and in the order of the
code: link and unlink lock each row and its account (the query joins `Account` and has no
`of=`) by ascending row id and the revision at their flush; an import and a payment's new
row take the revision and then share the account through its foreign key; a delete takes the
revision, its row, and the rows that point at it. Sessions may wait in a circle, of which
`DeadlockVictim` is rolled back, as PostgreSQL does. `Evidence` and
`Status` are the two functions of the code that say whether a debit proves an invoice
paid, as they are, on the graph of candidates. `CardInvoices` keeps purchases, refunds,
payment legs and invoices of one card; `Synced` is the whole of `upsert_card_invoice`:
claim the cycle's purchases, add up, inherit what the previous cycle owes until a payment
freezes it. `CompetenceRepair` has the two inverse directions of the cycle (date to
month, month to days), and preview, repair and rollback against trusted months.

### Duplicates, FindingLifecycle, ClassificationRules

A group's members have the roles of the code; `Arrive` matches, groups, elects and
excludes as `assign_duplicate_group`, a decision is read and written in two steps, the
backfill is an action of its own. A new row takes an id that no request under way has
read (ids are random UUIDs), and a decision that would point a group, or the group a row,
at something deleted since it was read fails on the foreign key (`Overtaken`). `FindingLifecycle` has the one check an ordinary run
makes (a pair of possible duplicates), which may also be unknown, runs that evaluate
before they lock, and decisions read without a lock. `ClassificationRules` has one
merchant and one movement type; `proof` is who really confirmed the category a rule has
now.

### Imports, DocumentReading, InitialLoad

An import is `Check` (size and hash), `FlushDocument` (the row, the revision's lock, the
artifact), and `PersistDocument` or `FailDocument`; the files of a batch share a session
and follow one another. In `FailSave` the row rolls back, and what the save had written by
then stays on disk (`torn`), as the save is outside the `try` that removes an artifact.
`LoseAnswer` is a commit that was applied and reported as failed; `Kill` a process that ends. `DocumentReading` is the state machine of the Nubank
statement (days, sections, text before or beside its amount) and of the card invoice, a
line being its kind and its words its number, with the totals of `reconciliation.py`. An
invoice's row may begin and end on one line or on several. An amount whose joined words,
text left from lines before it included, are those of a disclosure (`_NON_TRANSACTION_TEXT`)
is dropped and its text cleared; whether they are is a choice at each amount. `InitialLoad` has processes of the command with their advisory lock, the transaction of
seeds, and documents that commit one by one among a household already at work: it enters
obligations and balances of a seed's key, changes obligations, supersedes a balance by
confirming another or by a redemption, and has a redemption given back. A load looks only at
balances nobody superseded (`Found`), as `_apply_balances` does. That a redemption is given
back only while its balance is the newest is not in the model, which allows more.

### Investments, FundQuotes

One asset with the log of its valuations, each a snapshot of the whole asset; undo puts
back the latest dated one. `FundQuotes` has publication, ingestion, the household's unit
positions (appended only) and a valuation per quota day; a pass of the worker is four
steps, and two may overlap, abort or be killed.

### Projection

Bills, instalments as statements show them, salary credits, and the month's snapshot.
The projection, the independent validator and the invariants' formula are three separate
definitions (`Projected`, `Validated`, `FirstMonth`), as they are three in the code.
`TurnMonth` opens the next month from the last one's closing, or from a confirmed
balance. Amounts are cents.

### Composition and abstraction

`CaptureQueue` and `NotificationOutbox` implement `AttemptLease` under the mappings
`Attempts`, `closed`, `proposal`/`Shown`: an attempt is closed at most once, only
while it is the newest, and a result appears in the step that closes its attempt.
`MonthlyClose` implements `PeriodReview` with `examined` taken from the close:
trusted only on the examined facts, and left only by a reopen. `Assistant`, which is
`Ledger` and the proposals together, implements `OneShotDecision` under `Decision`.

`MCPayments`, `MCBooks` and `MCSources` put components side by side that share no
variable. Their initial states choose a `part`, and every step is one of that part; the
reachable graph is the disjoint union of the components' graphs, and a run shows of each
what it would show alone. They are not a composition: what couples these parts in the
program is the household's revision, which is modelled where it matters (as the order of
flushes), and the interaction of a paid invoice with a repair of its purchases is left
out (section 7).

## 4. Runs

| Run | Instance | Properties | Result |
|---|---|---|---|
| `capture_safety` | 1 upload, 1 background task, 1 reconciler, 2 requests, 2 attempts, 1 retry, 1 crash; requests symmetric; 1.4 M states | `ProposalNotInFlight`, `TerminalJobsRest`, `ProposalsPublishedByNewestAttempt`, `ImplementsLease` | hold |
| `capture_live` | the same with one request at a time, `FairSpec`; 146 k states | `JobsEnd`, `FactsOnceInSequence` | hold |
| `close_review` | 2 overlapping requests of any kind, 3 revision moves, `FairSpec`; 85 k states | `RevisionStandsForFacts`, `TrustedOnEvidence`, `ImplementsReview`, `RequestsEnd` | hold |
| `outbox` | 1 bill due on day 3, 2 days, 2 workers, 2 attempts, 1 edit, 1 crash, `FairSpec`; 142 k states | `DuplicatesHaveACause`, `FinishedStays`, `ImplementsLease`, `DeliveriesEnd` | hold |
| `gateway` | 2 different files, a "confirmar" and a "cancelar", 2 deliveries at a time, 1 web request, 1 crash, `FairSpec`; 132 k states | `EachMessageOnce`, `RepeatedOnlyByRace`, `MessagesEnd` | hold |
| `payments` | links: 1 debit, 2 invoices, 1 leg, 2 symmetric sessions; invoices: 3 cycles, 2 purchases, 1 refund, 2 payments; obligations: 2, 5 rows, 3 balances; 501 k states | `CardLinksAgree`, `RowsNeverCycle`, `InvoicesSettle`, `ObligationsSettle` | hold |
| `assistant` | 2 proposals, 2 sessions, the ledger with 1 obligation; both symmetric; 231 k states | `ImplementsOneShot` | holds |
| `books` | duplicates of 4 rows, findings of a pair with 2 runs and 2 decisions, every cycle of 4 days over a month of 3 and one of 2, 3 corrections with 2 sessions, 3 rounds of a conversation; 542 k states | `EveryEventCounts`, `FindingsFollowTheBooks`, `MonthsHoldTheirPurchases`, `TrustedMonthKeepsItsPurchases`, `AppliedRuleWasConfirmed`, `RowRemembersTheConversation` | hold |
| `sources` | batches of 2 files in 2 requests, documents of 5 lines, 2 loads of 2 documents and 2 seeds, 2 contributions, 2 quota days with 2 passes, a projection of 5 months; 2.2 M states | `BatchesMatchBooks`, `NothingIsMisread`, `LoadedExactlyOnce`, `InvestmentsAddUp`, `ProjectionAddsUp` | hold |
| `capture_double_confirm` | two requests | `FactsCreatedOnce` | violated |
| `gateway_resend` | the same file twice, `FairSpec` | `ResentFileAnswered` | violated |
| `rule_unproven` | the rules of `books` | `EveryAppliedRuleWasConfirmed` | violated |

Every passing run but `assistant` and `capture_live` also checks its module's type
invariant, which holds the limits the code sets (rounds kept, sizes, counters).

**What the less obvious properties say.**

* `FactsOnceInSequence` – an upload's facts are created at most once as long as no two
  requests of the household, its retries included, are under way at a time.
* `CardLinksAgree` – linked rows point at each other, through any interleaving of link,
  unlink, pay and delete in which no unlink acted on an outdated copy (`stale`); and the
  two functions that decide whether a debit proves an invoice agree on every graph.
* `RowsNeverCycle` – whatever circle sessions wait in, one of them waits for something else
  than a row it names in a link, an unlink or a payment: an account, the revision, or the
  rows of a delete. This is all that locking by ascending id brings; that links never
  deadlock, as their docstring says, is finding 24.
* `InvoicesSettle` – an invoice's paid total is the sum of its legs; over all cycles the
  card is never paid beyond its purchases although unpaid balances are owed again; a paid
  invoice owes nothing unless its own purchases have grown. Excepted: overlaps, an erased
  leg, an invoice paid after a later one that inherited its balance (`back`), and one paid
  after others of which one is outdated (`stale`, finding 20).
* `ObligationsSettle` – a paid obligation has its transaction; no balance is spent twice,
  whatever overlaps; each reduced balance has the redemption that explains it. Excepted:
  the deletion of a funding group (finding 17); for the second, a give-back that overlaps and
  a payment with an existing transaction funded from a balance another request had changed
  (finding 25); and for the other two, overlaps.
* `EveryEventCounts` – of the rows that tell one fact, exactly one counts while nobody has
  decided, through arrivals, decisions and reopenings; after a backfill at least one does.
* `FindingsFollowTheBooks` – once a run that read nothing outdated has covered a row, its
  finding is active exactly when the check fails, until the row changes or somebody decides.
* `NothingIsMisread` – the total of a document is the one its rows lead to, and with one
  layout per document every amount with words of its own becomes a row, unless the words, or
  text left before them, are a disclosure's.
* `BatchesMatchBooks` – documents, artifacts and the batch's report agree, but for a killed
  process and a commit whose answer is lost; artifacts without a document are then exactly
  what failed saves had written (finding 27).
* `LoadedExactlyOnce` – however loads repeat, overlap and are interrupted, a seed has at most
  one row of theirs that was never superseded, and a load that finishes leaves every seed and
  document in the books. A seeded balance that was superseded is written again (finding 26).
* `InvestmentsAddUp` – an asset's cost is what was put in and stands, and one transfer pays
  for one contribution (the latter with overlaps); units follow the movements, and each
  valuation varies from the last valued day before it, through late quotas and repeated passes.
* `ProjectionAddsUp` – each unpaid occurrence of a bill, each instalment that is left, and
  one salary per month are in the projection once; no money appears or disappears from month
  to month, balance and deficit exclude each other, and engine, validator and invariant agree
  to the cent. Instalments are claimed for rows in the month of their invoice, of one amount,
  recorded in order (finding 21); a snapshot's sum excepts an older deficit that a deposit
  has not repaid (finding 23).

### Bounds, and why they are enough to make the interesting cases happen

* `MaxAttempts = 2` (3 in the code) has a first attempt, a reclaim and the exhausted
  case. Two workers are needed for every race on a lease; one upload or event is
  enough because the rows of different items never touch (workers do a list of them
  one by one). A background task of the server and a reconciler are different kinds
  of worker, so one of each gives all pairs.
* `MaxRetries = 1`, `MaxCrashes = 1`, `MaxEdits = 1`: one retry goes round the whole
  life of a job again; one crash may fall between any two steps.
* `MaxWrites = 3` bounds the changes of data, integrity runs, dismissals, monthly runs
  and forecasts together: run, change, run again, or run, forecast, dismiss, with a
  trust around them. The strengthened invariant was also checked with 4.
* `LastDay = 2` with a bill due on day 3 makes the D-1 event active and leaves the D0
  event inactive; with both active and every disturbance the graph exceeds ten
  million states. Both active were explored without edits and crashes (1.0 M states).
  The theorems of section 6 have no such bound.
* Two deliveries at a time are enough for the gateway: what a third could do between
  two steps of one, the second can. Four messages of three kinds let either answer
  meet either draft, and the provider may deliver each of them any number of times.
* *Payments*: a link race needs one debit wanted by two invoices and two sessions; the
  invoices' bound of 5 requests goes buy, close, pay, buy late, pay again; inheritance and
  refunds need a purchase and a refund of equal value in two cycles, and a balance inherited
  twice a third cycle. A payment after an outdated invoice takes 6 requests: 8 were explored
  without slow ones (446 k states). Obligations: 5 steps pay
  with funding, undo, confirm a balance, fund again, delete. Obligations are symmetric, and so are
  the sessions on links.
* *Books*: an election needs a row before groups, a card row and a typed row; the fourth row
  of another key merges into a group or makes its own. 3 corrections are the threshold of the
  code. The competence part takes **every** pair of closing and due day up to 4 over months
  of 3 and 2 days, so clipped ends and both orders of the two days are covered. Memory keeps 2
  rounds and 1 step (4 rounds, of two messages each, and 3 steps in the code), so 3 rounds overflow it.
* *Sources*: 5 lines hold a day with its section, two movements with text before, after or
  beside their amounts, and a boundary; or two rows of an invoice, one on several lines. The
  household enters or supersedes 2 rows, so a seed may be superseded, written again, and
  given back beside its copy. Two contents, one of which cannot be read before an upgrade, with limits of 2
  and 3 units. Quota days on both sides of a month's end. The projection's months are 5 with
  3 turns of the current one; amounts are chosen so that the estimate, the credit, the cap and
  a deficit are met exactly and missed by a cent or more, and the rate is a tenth.
* *Assistant*: one household step beside two proposals; the wide ledger is explored by
  `payments`.

Deadlock is checked in every run but five. In `gateway_resend` the gateway really may
stop, which is what its property is about. In `books` (and `rule_unproven`, on its rules), `sources` and `assistant` the
bounded requests are used up, and the state in which all have ended has no step. `payments`
checks it: its other parts step in place when they are used up, the links may not.

### Fairness

* *Captures*: `WF` of a worker's steps (the reconciler is started again and again by
  its timer, a living process goes on), of the commit of a retry that was begun, and
  of `Elapse` (time passes). Nothing is assumed of the household or of lost tasks.
* *Close*: `SF` of a request's step. PostgreSQL queues the waiters of a row or
  advisory lock and its deadlock detector breaks a cycle, so a request whose lock is
  free again and again obtains it. Beginning a request is never fair.
* *Alerts*: `WF` of a pass (polling for ever, restarted by the container runtime; the
  SMTP exchange has a time-out), of `Elapse` and of `BackoffEnds`. Nothing is assumed
  of the household, of the clock's midnight or of the SMTP server's answers.
* *Gateway*: `WF` of a living delivery's steps: an analysis ends, a transaction
  commits, an outbound call has a time-out. Nothing is assumed of the provider, the
  household, the web application or of a restart.

* The other modules state no fairness and claim safety only. Nothing in the code makes the
  household come back to a proposal, a group or a finding; the CVM worker's passes are
  polled like the alert worker's, and what they must reach eventually was not stated.

## 5. Findings

Places where the code does not do what the code, its documents or its tests say. The
first three are runs; each of the others is a claim stated in its module and shown
violated by the configuration named (a claim in a comment of the configuration is checked
in the place of its first one).

| # | Claim | Configuration | Source |
|---|---|---|---|
| 1 | `FactsCreatedOnce` | run `capture_double_confirm` | `app/api.py:4468` |
| 2 | `ResentFileAnswered` | run `gateway_resend` | `app/whatsapp_gateway_app.py:684` |
| 3 | `EveryAppliedRuleWasConfirmed` | run `rule_unproven` | `app/services/classification_learning.py:186` |
| 4 | `CancelledNotResurrected` | `CaptureQueueClaims.cfg` | `app/api.py:4072` |
| 5 | `AttemptBudget` | `CaptureQueueClaims.cfg` | `app/services/capture_worker.py:155` |
| 6 | `DecisionStands` | `MonthlyCloseDecision.cfg` | `app/api.py:2465` |
| 7 | `D1OnItsDay` | `NotificationOutboxLateD1.cfg` | `app/services/notification_scheduler.py:283` |
| 8 | `PendingSlotKept` | `WhatsAppGatewaySlot.cfg` | `app/whatsapp_gateway_app.py:545` |
| 9 | `UndoReversesItsOwnPayment` | `AssistantUndo.cfg` | `app/services/assistant_actions.py:1752` |
| 10 | `ReturnNeedsNewEvidence` | `BooksClaims.cfg` | `app/services/classification_learning.py:160` |
| 11 | `PendingPairCounts` | `BooksClaims.cfg` | `app/services/duplicates.py:386` |
| 12 | `OnlyRecurrenceReopens` | `BooksClaims.cfg` | `app/services/financial_integrity.py:663` |
| 13 | `ConfirmedWasPresented` | `BooksClaims.cfg` | `app/services/assistant_orchestrator.py:785` |
| 14 | `EveryMovementIsRead` | `SourcesClaims.cfg` | `app/services/importer.py:686` |
| 15 | `EveryCreditCounts` | `SourcesClaims.cfg` | `app/services/importer.py:1038` |
| 16 | `RefusedOnlyForTheHousehold` | `SourcesClaims.cfg` | `app/cli/initial_load.py:541` |
| 17 | `PaidHasItsTransaction` | `PaymentsClaims.cfg` | `app/api.py:5828` |
| 18 | `LinksReciprocal` | `PaymentsClaims.cfg` | `app/services/card_payment_reconciliation.py:1114` |
| 19 | `PaidLastMeansNothingForecast` | `PaymentsClaims.cfg` | `app/api.py:9004` |
| 20 | `FiguresNeverStale` | `PaymentsClaims.cfg` | `app/services/card_invoice_lifecycle.py:239` |
| 21 | `FactObservedTwiceCountsOnce` | `SourcesClaims.cfg` | `app/api.py:9111` |
| 22 | `OpeningFollowsClosing` | `SourcesClaims.cfg` | `app/services/financial_snapshots.py:214` |
| 23 | `UnmovedStaysOpening` | `SourcesClaims.cfg` | `app/services/financial_engine.py:259` |
| 24 | `LinksNeverDeadlock` | `PaymentsClaims.cfg` | `app/services/card_payment_reconciliation.py:540` |
| 25 | `EveryBalanceSpentOnce` | `PaymentsClaims.cfg` | `app/api.py:7455` |
| 26 | `SeedGivesOneRow` | `SourcesClaims.cfg` | `app/cli/initial_load.py:526` |
| 27 | `NoArtifactIsOrphaned` | `SourcesClaims.cfg` | `app/api.py:3146` |

1. **Facts created twice.** Two confirmations read the draft before either commits; the
   409 of line 4469 protects only against a later one. Section 6 tells of another way to it.
2. **The same file twice stops the gateway.** The second message's insert waits in
   PostgreSQL for the first one's transaction, on the event loop which that transaction
   needs to commit; both messages stay `accepted`, and no other is answered, until the
   process is restarted.
3. **A rule applies unconfirmed.** An acceptance that read the rule before another
   administrator changed its category leaves it active for the new one.
4. **A cancelled draft comes back.** `processing` is set on a draft read earlier; a cancel
   committed in between is overwritten. The comment at line 4026 promises the opposite.
5. **A claim beyond the budget.** The claim does not look at `max_attempts`, so a list made
   before the last attempt allows one more.
6. **A period trusted twice.** The close is read before the lock and the identity map keeps
   that row, so the second of two trusts overwrites `closed_by` and `closed_at`. No evidence
   is bypassed: `TrustedOnEvidence` holds and is proved.
7. **D-1 on the due date.** Only discovery looks at the day; a row discovered late, or
   waiting for its backoff, is sent after midnight
   (`docs/WORK_ORDER_DUE_DATE_EMAIL_ALERTS.md:317` excludes it).
8. **The pending slot is overwritten.** The row is locked, but read through the identity
   map: of two files analysed at once the second takes the slot of the first, and the next
   "confirmar" confirms the other draft. The repository's race test opens sessions that
   expire on commit and so does not see it.
9. **An undo of another payment.** The household undoes the Assistant's payment by hand and
   pays again by hand; undoing the Assistant's action takes back the payment made by hand.
10. **An old confirmation is new evidence.** Correcting a transaction away and back returns a
    deactivated rule to `pending_acceptance`.
11. **A pair of which neither counts.** After the row that counted is deleted, the next
    arrival makes an excluded row canonical and does not put it back in the totals.
12. **A finding reopened by an acknowledgement** that read it open before somebody resolved it.
13. **A proposal confirmed unseen**: one plan may draft and confirm.
14. **A dropped movement**: its words go to the movement before it, which was on one line.
15. **A fee given back is added to the fees**, and the invoice reads not reconciled.
16. **A load blocked by itself**: a statement of the manifest observes the balance a seed of
    it confirmed, and the next run of the same manifest may stop on the difference.
17. **A paid obligation without its transaction**: the delete checks the named row and deletes
    its group, so deleting the redemption deletes the expense that pays.
18. **A one-sided link**: the check after the locks compares the session's copy with itself.
19. **A paid balance is projected**: an older invoice left closed becomes the latest unpaid.
20. **A paid balance inherited again**: of three cycles, the third takes over what the second
    still says it inherited from the first, paid in the meantime, and is paid the same again.
    Only the invoice a request names is resynchronised.
21. **Instalments projected twice** when the first one carries the odd cent.
22. **A month opens with another figure than the one before closed with**: a balance confirmed
    within it is taken without the transfers made after it.
23. **A month in which nothing moved closes as zero** when an older deficit is carried.
24. **Two links end in a deadlock.** Each row is locked with its account, and the accounts are
    in no order: two links of one debit with two invoices, or of rows whose accounts cross,
    wait for each other. The docstring (line 568) says the order of ids prevents it.
25. **A balance spent twice.** Two overlapping payments with transactions that exist read the
    latest balance before the first flush of either; each spends it, although `api.py:7460`
    refuses a payment "para evitar dupla contagem".
26. **A seed written twice.** A balance the load wrote is superseded by a confirmation or a
    redemption; applied again, the manifest does not find it and writes it a second time
    (`docs/RUNBOOK_INITIAL_LOAD.md:135` says identical observations are skipped).
27. **An artifact without a document.** A save that fails after its first byte is rolled back
    without removing the file (`docs/ROADMAP.md:52` says that never happens).

Claims the modules state and the configurations show violated, of which no text of the
repository says that they hold: `PaymentSentTwiceCountsOnce`, `OwnExclusionStands`,
`UndoKeepsTheCost`, `CommittedKeepsItsArtifact` (only when a commit's answer is lost) and
`ReconciledMeansImported`. They are kept because the exceptions of the properties above
rest on them.

## 6. Theorems

All proofs are checked by TLAPS for every value of the constants under the assumptions the
modules name: bounds are natural numbers (attempts, retries and a log's length positive, the
edits of rows, findings and groups included); `None`, `Nobody`, `NoRow` and the like stand
outside the sets they extend; background tasks and reconcilers are different workers
(`CaptureActors`); the alert workers, the bank rows and the duplicates' rows, the
transactions rules learn from and the bills projected are finite sets; rows are locked in an
order without ties (`RankInjective`, the order of ids in the code); `Twin` pairs the
transactions of a finding; purchases and refunds of a card are finite sets and amounts paid
positive (`CardAssumption`); quotas are positive; the amounts, terms and evidence a
projection reads are whole cents and months, with a monthly rate of at most the whole
(`ProjectionRows`, `ProjectionAmounts`). None of them bounds how many captures, requests,
sessions, rows, proposals, rules, files, lines or days there are.

| Module | Theorem | The property of a run it states |
|---|---|---|
| `CaptureQueueProofs` | `CaptureTypeCorrect`, `CaptureProposalNotInFlight`, `CaptureTerminalJobsRest`, `CaptureImplementsLease` | `TypeOK`, `ProposalNotInFlight`, `TerminalJobsRest`, `ImplementsLease` |
| | `CaptureProposalsByNewest`, `CaptureFactsInSequence` | `ProposalsPublishedByNewestAttempt`, `FactsOnceInSequence` |
| `MonthlyCloseProofs` | `CloseTypeCorrect`, `CloseRevisionStandsForFacts`, `CloseTrustedOnEvidence`, `CloseImplementsReview` | `TypeOK`, `RevisionStandsForFacts`, `TrustedOnEvidence`, `ImplementsReview` |
| `NotificationOutboxProofs` | `OutboxTypeCorrect`, `OutboxFinishedStays`, `OutboxDuplicatesHaveACause`, `OutboxImplementsLease` | `TypeOK`, `FinishedStays`, `DuplicatesHaveACause`, `ImplementsLease` |
| `WhatsAppGatewayProofs` | `GatewayTypeCorrect`, `GatewayEachMessageOnce`, `GatewayRepeatedOnlyByRace` | `TypeOK`, `EachMessageOnce`, `RepeatedOnlyByRace` |
| `PaymentsProofs` | `LinksAgree`, `RowLocksNeverCycle`, `InvoicesAlwaysSettle`, `PaymentsAreTyped` | `CardLinksAgree`, `RowsNeverCycle`, `InvoicesSettle`, `PaymentsTypeOK` |
| | `CardPaymentTypes`, `CardBooksTyped` | two parts of `PaymentsTypeOK` |
| | `PaymentsHold` | the safety properties of `payments`, of the run's own specification |
| `LedgerProofs` | `ObligationsAlwaysSettle`, `ProposalsAreDecidedOnce` | `ObligationsSettle`, `ImplementsOneShot` |
| | `LedgerTypes` | the ledger's part of `PaymentsTypeOK` |
| `BooksProofs` | `EventsCountOnce`, `FindingsAreCurrent`, `AppliedRulesAreConfirmed`, `MemoryIsTheConversation` | `EveryEventCounts`, `FindingsFollowTheBooks`, `AppliedRuleWasConfirmed`, `RowRemembersTheConversation` |
| | `PurchasesStayInOneMonth`, `TrustedMonthsAreLeftAlone`, `BooksAreTyped` | `MonthsHoldTheirPurchases`, `TrustedMonthKeepsItsPurchases`, `BooksTypeOK` |
| | `DuplicateTypes`, `FindingTypes`, `CompetenceTypes`, `RuleTypes`, `ConversationTypes` | the parts of `BooksTypeOK` |
| | `BooksHold` | the safety properties of `books`, of the run's own specification |
| `SourcesProofs` | `BatchesAgree`, `DocumentsAreRead`, `InitialLoadOnce` | `BatchesMatchBooks`, `NothingIsMisread`, `LoadedExactlyOnce` |
| | `InvestmentsAlwaysAddUp`, `ProjectionAlwaysAddsUp`, `SourcesAreTyped` | `InvestmentsAddUp`, `ProjectionAddsUp`, `SourcesTypeOK` |
| | `FundingIsSound`, `HoldingsFollow`, `ForecastAlwaysAddsUp` | of a component alone: the halves of `InvestmentsAddUp`; what `ProjectionAddsUp` says |
| | `InitialLoadTypes`, `InvestmentTypes` | two parts of `SourcesTypeOK` |
| | `SourcesHold` | the other safety properties of `sources`, of the run's own specification |

**Capture queue.** `TypeOK` is not inductive: a step reads `job[worker[w].cap]`, so
`TypeInv` adds that a worker on a job and a request in progress name a real capture, and
that an observed job was queued or processing. `ProposalNotInFlight` needs `RetryHolds`:
while the retry handler is between its check and its commit the job stays failed (only it
can re-queue), hence no draft it is about to re-queue is being offered – `FlightInv`. Every
step then is one of a few *job steps* (kept, claimed, closed, queued, refused;
`EveryJobStep`), from which `TerminalJobsRest`, `ProposalsPublishedByNewestAttempt` and the
refinement follow. The refinement also needs `LeaseInv`: a closed attempt is at most the
current number, and a running job's attempt is not closed. `FactsOnceInSequence` rests on
`ConfirmInv`: a draft that is offered, or whose facts exist, has a job that is over, and a
cancelled one has no job in flight, so nothing offers it again. Retries count as requests in
it, and they must: an attempt to prove `FactsCreatedOnce` for one cancel or confirm request
at a time failed, and TLC found why with two retries. A cancel that overlaps a retry may
leave an offered draft with a failed job; confirmed, retried and confirmed again it creates
its facts twice (another way to finding 1).

**Monthly close.** `CloseInv` adds to the type invariant (which says who holds which lock)
that recorded revisions never exceed the household's, that a session's stale close agrees
with the current one when it has its revision (`SessionsBehind`), and the *barrier*: a trust
request holding the revision row has seen the current revision, and its rebuilt snapshot
shows the current rows. `RevisionStandsForFacts` is a conjunct: whoever moves the revision
leaves every recorded one behind (`RevisionMoves`). `TrustedOnEvidence` is then the gates
plus the barrier; the stale row of finding 6 is harmless for it exactly because of
`SessionsBehind`.

**Alerts.** `SeenInv` says what a claim has observed is still true unless the row moved on
(same attempts and seen pending: still pending and not waiting; seen sending and still
sending: still stale). `LeaseInv` is as above. `CreditInv` is the inductive form of
`DuplicatesHaveACause`: e-mails accepted, plus workers that may still send under a live or
stale lease, plus one when the row may be claimed without new doubt, never exceed one plus
the doubts. Each step moves one unit between these terms (`Balance`), with cardinalities of
the set of holders, which is why the workers are assumed finite.

**Gateway.** `TypeInv` adds that only media messages are saved and analysed (`MediaWork`).
`EachMessageOnce` holds because a message without an event, or at work before its one
effect, is untouched, and only one delivery works on it (`Alone`); the effect moves its
delivery past that point. `RepeatedOnlyByRace` counts the confirmations that began alone: at
most one is in progress on a draft (`OneFirst`), the draft's rows are not above its races
while it is (`FirstUncounted`), and a draft still open has no rows (`OpenUnconfirmed`),
which needs that an analysis never reopens a draft – `EachMessageOnce` again.

**Card payments** (`CpInv`). A session has locked exactly the rows of its request that come
before the one it is at, in the order of `Rank` (`LocksInOrder`); hence of any group of
sessions that wait for such rows alone, the one whose next row has the highest rank waits for
nobody in the group (`RowLocksNeverCycle`), and every circle passes an account, the revision
or a delete. `CpInv` needs neither: that a session writes what it checked rests on the rows'
locks, whichever of its waits end in a rollback. `LinksPaired` says both rows of a link name each other, and a linked invoice has proof, as long as no unlink
acted on an outdated copy; `CopiesHold` is what makes the other writes safe: an empty link
that a session loaded under its lock is empty still. That paying by hand and listing the
debits decide alike (`OnePolicy`) is a statement about any graph of candidates, with a lemma
on sets of exactly one element.

**Invoices** (`CiInv`). What a request does is described once by what its synchronisations
(`SyncLeaves`) and its payments (`PayLeaves`) leave of the books, and three parts of the
invariant are carried through them and through the merge of a slow request's columns.
`LegsAgree`: the payments recorded on an invoice add up to what it says was paid. `Settled`:
a paid invoice was paid something and owes at most the tolerance, unless its own purchases
have grown since. `Within`: no invoice is paid beyond what it inherited and its own
purchases (`PaidForOwn`), and what an invoice that was paid had inherited, with all that was
paid on the cycles before it, does not exceed what was bought in them, but for one cent a
cycle (`InheritedOnce`). The bound over all cycles is these two at the last cycle that was
paid. `Within` needs a step's figures to be those of the books, which is what the histories
`erased`, `back` and `stale` except; that an invoice synchronised too early is reported
(`Outdated`) came out of this proof. Sums over purchases are one recursive function over
subsets (`SumOf`), whose lemmas (taking one element out, two disjoint sets, monotonicity)
are proved by a smallest set at which they would fail.

**Obligations** (`LedgerInv`). What a request leaves is what its operation does to the rows
it read, merged column by column into the rows as they are (`Commit`), and a deleted row is
taken out of every reference. The proof is in two layers. *Whatever overlaps*,
`LedgerSound`: unused ids come last, and what was never recorded is not referred to; and
`Since`, between a request's copy and the tables: no used row has become unused, an
observation that is recorded keeps its trace and the balance it stands on, and one that is
invalid stays so. Each operation is shown to change the observations in one of three ways –
`Spends`, `Confirms`, `Restores` – and each way to survive the merge, so that `SpentOnce`
(no balance under two standing redemptions, and the balance under one is superseded or
invalid) is kept by every commit but an overlapping give-back and a payment that spends a
balance changed since it read it. What it spends otherwise is the latest, read before or
after its flush (`Seen`). *While nothing overlapped*,
`Undisturbed`: groups are closed and have their first row in them, a trace belongs to one
observation, a funded obligation's redemption is a row of no group that its observation
names, and a transaction pays one obligation. It is what a deletion needs to take the
redemption of exactly the balance it gives back (`GroupClosed`). Deleted rows keep their id
for good, which is why a reference is compared to a row and never to a number reused.

**Assistant** (`AsInv`). A locked row still allows what its session was asked
(`LockedIsOpen`), because one session holds it (`OneHolder`): together, the session's reread
is the row. The refinement maps each row to `Fate` and shows every step is a step of
`OneShotDecision` on one item, or a stutter; what the operation does to the books is not
needed.

**Books.** *Months*: the one fact not in the formula is that a snapshot shows the rows of
its month as they are (`SnapshotsShowTheRows`); that the window of a cycle holds what is
expected in it is arithmetic of clipped days, for every calendar. *Rules*: `RulesSound`
bounds a rule's count by the confirmations of its category, and `SessionSound` says the same
of each copy a session holds of a rule no edit raced. *Conversation*: the row is the last
rounds told since the last silence longer than the TTL (`Remembers`), shown through lemmas
on the `Kept` suffix of a sequence. *Findings* (`RunsSound`): what a run has evaluated is
still so unless the row changed since it read, which `FindingsFollowTheBooks` excepts.
*Duplicates* (`DupInv`): `Shape` of groups and members, rows in at most one group, rows of
no group as their owner left them (`LoneRows`), an elected row first in its order
(`Ordered`), and every other member excluded while nobody has decided (`OthersOut`). A slow
decision writes from an older copy, so `DecisionSound` is about the pair of what it read and
what there is now. The backfill is a function over the groups it walks; that it keeps
`SoundBooks` is shown by taking the first group of the walk where it would fail. *Types* are
more than shapes here, and none is inductive alone. A rule counts its evidence (`SoundRow`)
even where an edit raced it, because a request writes count and evidence together or neither
(`Together`), although the ORM writes only the columns that differ from the session's copy.
A finding has no more occurrences than there were commits (`FlCounted`). A memory is never
empty, and no round was told after now (`CvWithin`), which is what keeps it within its
limits. For groups, `Shape` gives the types of what is committed, and `GroupsTyped` carries
those of copies through slow decisions and the walk.

**Sources.** *Initial load* (`LoadInv`): the advisory lock shuts others out while the
transaction of seeds is open (`LockedOut`), so of what was found missing no load has entered
a row that stands (`StillMissing`), although the household may supersede and give back
balances throughout; one that is given back is marked so and does not stand again. *Imports* (`ImInv`): the flush of a document takes the household's
revision, so one session at a time writes (`OneWriter`), its content is new to the books
(`NewToTheBooks`), and documents, artifacts and reports follow (`OneOfAContent`,
`ArtifactsHeld`, `ReportsTrue`); what a failed save wrote is never taken away (`TornStays`),
and its id is not used again. *Reading* (`DrInv`): an invoice's row has the sign its words
give it; while a document has shown one layout, what has words, and not a disclosure's, was
read into a row; the totals are sums balanced row by row. *Investments* (`InvInv`): the cost is the sum of
the log's contributions that stand (`CostsFollow`), unless requests overlapped or dates went
backwards. *Fund* (`FqInv`): positions follow the movements in order of day (`FollowsOn`,
`InDayOrder`), and a movement or a pass that nothing overtook has read the latest position
or quota (`MovingSound`, `PassesSound`).

*Projection* (`PjInv`): of the state, only that the current month's snapshot adds up,
whatever snapshot it was opened from (`SnapshotIsSound`). The rest is about functions of the
state. `MoneyIsConserved` goes month by month: each position has no balance beside a deficit
and differs from the one before by the month's result and what the balance earned, and the
validator, which starts from the same snapshot, has the same months (`ValidatedAgrees`).
`BillsAreForecastOnce` exchanges the order of a sum: what falls in the months shown, month
by month, is what falls within them, bill by bill, because an occurrence falls in one month
(`SumOfCounts`, over disjoint sets). `PartsAreForecastOnce`: when instalments are recorded
in order the one a projection continues from is the last one seen (`LastOfGoods`), so the
parcels that forecast a month are one of each purchase that has parts left.

**Parts side by side.** `MCPayments`, `MCBooks` and `MCSources` take a step of one part at a
time, and the part that steps leaves the others' variables alone; hence each part behaves as
it would by itself (`PartsAlone`), and whatever a component's specification implies the
run's does. It is what `PaymentsAreTyped`, `BooksHold` and the others of that kind rest on,
and it says nothing of an interaction the parts do not have (section 7).

Sums in the code are loops; here they are recursive functions (`f[n] == ... f[n - 1] ...`),
and a fact about each of their values is proved by *least counterexample*: if it failed
somewhere it would fail at a least place, which the equation contradicts. It takes the
existence of a least number from `WellFoundedInduction` and no induction rule.

**Only model-checked.** `JobsEnd`, `RequestsEnd`, `DeliveriesEnd` and `MessagesEnd`:
liveness under fairness is out of the prover's reach. Every other property of a passing run
has its theorem. That a claim of section 5 fails is shown by TLC's counterexample.

**What a proof changed.** `FactsCreatedOnce` is told above. The bound on what a card is paid
(`NeverPaidBeyondPurchases`) holds of two cycles; looking for its invariant showed that it
fails of three (finding 20), which the run now has, and that the histories to except are
those of `stale`. `ObligationsSettle` was not so either: `BalanceSpentOnce` used to be
claimed whatever overlaps, and with larger bounds than the run's TLC shows it is not so when
a *give-back* overlaps. A slow deletion of a funded expense reads; the expense is deleted,
another takes the freed balance, and a third the next; the household confirms a balance of
an earlier day in place of the last; the slow deletion then frees the first balance for a
second time. Such histories are now excepted by name (`"return"` in `odd`), and only those.
`ProjectionAddsUp` was wrong of a household without a configured salary and with a credit of
a cent marked as one: the projection then looks for no credit (`api.py:9293`) and forecasts
none, where the property wanted the cent. The run's salaries are not zero, so TLC had
nothing to show; the property now says what the code does.

## 7. What is left out

Of the modelled components:

* *Captures*: the text analysis (its outcome is a choice), the document's display
  status, the per-item validation of a confirmation (accepted or refused), and the
  row locks between a worker's and a request's transaction on the same capture
  (PostgreSQL may end one of them: here a crash or a request that did not commit).
* *Close*: the figures in a snapshot, the individual checks, the creation of the
  first revision row, other periods (each has its own close, snapshot and lock; the
  revision is shared and moved by `ChangeFacts`).
* *Alerts*: templates, the length (100) and order of a pass's list and the heartbeat row.
* *Gateway*: the rate limit's counter and the linking of numbers (whether a sender is
  refused is open), several messages in one delivery (the provider's deliveries are
  taken one message at a time), the free-text orchestration, web uploads of the same
  file, and whether a reply arrived (sending is best effort).
* The synchronous web capture is one action of `CaptureQueue`; like the gateway it
  inserts a document before it awaits the analysis, so the waiting of finding 2 can
  happen to the server too.
* *Assistant*: the actions that create income, refunds, assets and card invoices; which
  proposal a message refers to is a choice; the language model's plan is any plan. *Conversation*:
  the text of turns, and the filtering of what is remembered.
* *Ledger*: commissions, payroll, recurring obligations (they are in `Projection`),
  foreign accounts, balances that documents observe, and the profile form (`api.py:8783`),
  which supersedes the latest balance with one of today. *Card payments*: edits of linked
  rows, and the waiting of an import or a payment for rows its search for duplicates touches.
  *Invoices*: declared totals (shown, never decided
  on), reports; a repair of a purchase of a paid invoice is not composed.
* *Duplicates*: how a pair is scored (confidences are constants). *Findings*: the other
  checks' arithmetic and the integrity score. *Rules*: the built-in patterns, templates and
  recurring income.
* *Imports*: the text of lines (a line is its kind, and which words are a footer's or a
  disclosure's is a choice), spreadsheets, the pairing of transfers.
  *Initial load*: the plan's workbook and the diagnostics export.
* *Investments*: one asset, one household. *Quotes*: the HTTP client and the CSV format.
* *Projection*: extra payroll (a constant), purchase scenarios, anomalies, rounding below the
  cent; the code feeds no commission to the projection, so its three scenarios are one.

Not modelled at all: authentication and MFA (left to a security review), the external models
and OCR, the advisor, SMTP configuration, reports and the user interface.

Hazards seen in the code that no property covers, beside those `PROJECT.json` lists: an alert
already discovered is sent after alerts are switched off (`notification_scheduler.py:313`);
a capture's preview that never arrived is confirmed by the next "sim"
(`whatsapp_gateway_app.py:753`); a killed import leaves an artifact without an owner
(`api.py:3146`); two movements of units, or two contributions, that overlap lose one amount
(`privilege_valuation.py:469`, `api.py:8401`); a rollback of a competence looks at closes and
not at duplicates (`card_competence_repair.py:557`); a step that fails after a committed
confirmation is reported as a failed request (`assistant_orchestrator.py:830`); a movement
whose words name the bank is dropped as a footer (`importer.py:671`).

## 8. Plan

Every invariant, action property and refinement the runs check is proved. What is left:

1. A composition of `CardInvoices` with `CompetenceRepair`: a purchase repaired out of a paid
   invoice.
2. Liveness of the CVM worker's passes under the alert worker's fairness.
3. The Assistant's remaining actions; spreadsheets and the pairing of transfers.
