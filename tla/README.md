# KaspaLinks in TLA+

TLA+ models of the parts of KaspaLinks whose correctness depends on what several
processes do at the same time, with TLC configurations that check them on small
instances and proofs, checked by TLAPS, of what matters most for every size.

Every definition is read from the source. `PROJECT.json` maps each one to the
lines it models (`map`), lists the runs, the mutations of the code that each
property detects (`mutants`), the hazards the properties are for, the
disagreements between code and documents that came up (`findings`), and the
theorems.

## The system

A Next.js app (`apps/web`) and a worker (`apps/agent-worker`) share a Postgres
database. They never talk to each other except through it and through a few
internal HTTP ticks; both read the Kaspa chain through an indexer or a wRPC node,
and both talk to Telegram. Any number of app processes and any number of workers
may run: what keeps them apart is database transactions, advisory locks
(`pg_advisory_xact_lock`), guarded updates (`updateMany` with the expected state
in `where`) and unique constraints.

| Component | State it keeps | Operations | What is hard | What makes it correct |
| --- | --- | --- | --- | --- |
| Payment requests and attribution (`payments.ts`, the payment-requests and status routes, `agent-worker/src/index.ts`, mock-confirm) | `PaymentRequest`, `PaymentEvent`, `Action.invoicePaidAt`, `payment_request.created` audit rows | create or reuse, expire, check against the chain, confirm, mock-confirm | several open requests fit one chain payment; polls and the worker check at the same time; expiry takes no lock; windows are extended; the audit row follows the commit | a payment is credited once, to the request that was paid; every check agrees; a settled request is final; a paid invoice opens no request |
| Telegram outbox (`agent-worker/src/outbox.ts`) | `TelegramOutbox`, leases (`lockedAt`), attempts | enqueue with the event, reset stale locks, lock, authorize, send, mark sent, record failure | crashes, workers that stall past their lease, lost answers, failed writes, settings that change in between | final delivery, bounded retries, no row left behind, a chat that was shut gets no more than what was on its way |
| Giveaway reminders (`giveaway-notifications.ts`, `agent-worker/src/giveaways.ts`) | `GiveawayResultSubscription`, `resultQueuedAt` | opt in, opt out, `/stop`, queue results | concurrent opt-ins at the limit; off and on again while the result is being delivered | the limit; a result is not sent twice |
| Telegram connection, settings, rules | `TelegramConnection`, connect codes, `NotificationRule` | connect by code, disconnect, block, enable, add, pause and complete rules | attempt counter read and written apart; rules completed while they are edited | opt-out is final for later rows; a rule completes with a delivery only |
| Telegram webhook and AI intents (`agent/telegram/webhook/route.ts`, `packages/application/src/ai.ts`, `actions.ts`) | `TelegramUpdate` and its lease, `AgentIntentDraft`, `AgentQuotaBucket`, links and rules | process an update: make a link, interpret a request, confirm a draft; reserve and record quota; expire drafts | redelivery, a lease that ends, errors before and after the write that counts, a chat that changes accounts, the turn of the month | a link or rule is made once and for the right account; no update is dropped; the budget covers what was spent |
| Claimable links (`claimable-onchain.ts`, `claimable-return.ts`, `claimable-status-refresh.ts`, their routes) | `ClaimableLink` and its chain outputs | register, fund, claim, return, refund, adopt, remove, refresh the status | a claim and a keyless return race for one output; stale refreshes | a link is funded once and ended once, for a spend; no status goes back; what is not claimed goes back |
| Claim batches (`claimable-batch-*.ts`) | batches, their links, a manifest | create, update, return | one batch, many outputs, partial failure | totals agree with the links |
| Giveaways V6: slots, creation, funding, activation (`creator/giveaways/v6`, `giveaway-v6-slot-store.ts`, `-funding.ts`, `-bootstrap.ts`, `-activation.ts`, `-advance.ts`) | `GiveawayDrawSlot`, `Giveaway`, `GiveawayV6Bootstrap` | resolve the slot, create, look up the payment, bind, plan, submit and record the activation | creators race for a slot; a page and a pass bind and activate the same giveaway; reorganizations; lost answers | one set of terms for a slot; one family for a giveaway; a funded giveaway goes live |
| Giveaways V6: projection (`giveaway-v6-sync.ts`, `-projection.ts`, `packages/kaspa-indexer`) | `GiveawayV6Projection`: cursor, journal, `syncRevision`; the status of the giveaway | claim, read a page, advance, persist, record a failure | workers that overtake each other; reorganizations; entries at the close | the journal is what the chain holds; it agrees with the contracts; it is never rewound or given up without cause |
| Giveaways V6: entries and settlement (`-registration.ts`, `-executor.ts`, `-settlement.ts`, the prover, the contracts in `labs/claimable-script`) | `executionNextAt`, `GiveawayV6TransitionDelivery`, proof jobs, the covenant family | relay an entry, freeze, prove, draw, return | crashes between plan, relay and record; late entries; reorganizations; a prover that does not answer | planned before it is sent; the prize is paid or goes back |
| Escrows (`labs/claimable-script/escrow_v1.sil`) | one chain output | fund, release, refund, arbitrate | timeouts against signatures | funds only move as agreed |
| Legacy giveaways (`giveaway-draw.ts`) | entries, draws | enter, draw | one draw | one winner for frozen entries |
| Rate limits (`rate-limit.ts`) | fixed windows in memory | check | window boundary | at most the limit in one window |
| Account-free links, wRPC relay, indexer clients, SDK, wallet adapter, web pages | browser storage, or none | formatting and forwarding | little that is concurrent | not part of the models |

How they interact: a POST opens a payment request; a payer pays on chain; the
status poll or the worker credits the payment in one transaction that also
writes the outbox row; the worker delivers the row by the settings the creator
has at that time, and completes one-shot rules with the delivery. Claims and
giveaway results reach the outbox in the same way. A giveaway is created under a
slot, bound to a payment and activated; the projection follows the chain from the
block that accepted the payment; the executor acts on what the projection holds.

## Modules

| Module | What it is |
| --- | --- |
| `Payments`, `MCPayments`, `PaymentsProofs` | payment requests, from the public POST to the ledger, under concurrent calls, expiry and the clock |
| `Outbox`, `MCOutbox`, `OutboxProofs` | the outbox, its workers, the settings, rules and reminders they depend on |
| `LinkLifecycle` | what the registry promises about a claimable link |
| `ClaimableLink`, `MCClaimableLink`, `ClaimableLinkProofs` | one claimable link: its row, its outputs and their spends, and every call that broadcasts, refreshes, adopts, removes or returns; it implements `LinkLifecycle` |
| `TelegramAgent`, `MCTelegramAgent`, `TelegramAgentProofs` | the webhook of one chat: updates, their leases, links, drafts and the AI budget |
| `GiveawayLaunch`, `MCGiveawayLaunch`, `GiveawayLaunchProofs` | a draw slot and its giveaways, from creation to the first block of the family |
| `GiveawayFamily` | the contracts of a giveaway, and the reconstruction of the same history by the indexer, written apart |
| `GiveawayChain`, `GiveawayChainProofs` | the chain that accepts the transactions of a family and reorganizes, and the page of it that a reader takes |
| `GiveawayProjection`, `MCGiveaway`, `GiveawayProjectionProofs` | the journal that workers keep of the chain, and the row that follows it |
| `GiveawaySettlement`, `MCSettlement`, `GiveawaySettlementProofs` | entries, executors, deliveries, relay and prover on top of the same chain |

`GiveawayProjection` and `GiveawaySettlement` both extend `GiveawayChain`, which extends
`GiveawayFamily`. The settlement takes the projection as its cursor only: that the
journal is the chain up to the cursor, and that its reconstruction is the state
of the contracts, is what `GiveawayProjection` shows (`JournalIsExact` and
`ReconstructionMatchesContract`, both proved), and `ProjectionIsRestored` carries it over. The launch ends where the projection
begins, at the block that accepted the payment.

### Payments and the code

The variables are the tables: `req` holds the `PaymentRequest` rows, `events` the
`PaymentEvent` rows with a flag for the outbox row written with them, `createdBy`
the client hash of the audit rows, `invoicePaid` and `closed` the state of the
actions. `handler` holds the POST calls in progress, `expiring` and
`mockExpiring` the expiry updates that were decided on a row read before and are
not written yet, `chain` the payments on the chain with the request their payer
was shown.

* A POST is `StartCreate` (reads outside the transaction), `BeginCreate` (locks
  taken, invoice and reusable request read), `CommitReuse` or `CommitNew`, and
  `WriteAudit`; `AbandonCreate` is a crash or a rolled-back transaction. The
  transaction is two steps because expiry takes no lock and the clock goes on
  while it runs.
* `ConfirmPayment` is `confirmPayment`'s transaction with every check it makes
  under the locks (`Confirmable`) and every row it writes (`Settle`). It may offer
  any transaction that fits as a candidate, because the status route accepts a
  reported transaction id: the order in which candidates are found only matters
  without one.
* `DecideExpiry` and `WriteExpiry` are the lazy expiry of the status route and the
  expiry of the worker, two steps with a guarded write; `DecideMockExpiry` and
  `WriteMockExpiry` are the mock-confirm route, whose write has no guard.
* The lock of an action is always taken with the lock of its recipient, which
  never changes, so `Unlocked` speaks of the recipient only.
* `Reusable` leaves open which of several reusable requests is handed back. The
  code takes the newest audit row among ten; the model allows each.
* `CloseAction` and `ReopenAction` are the creator's manage route: a link is
  switched off and on at any time, also between the reads of a POST and its
  transaction.
* The detection schedule (`nextDetectionAt`, the probe cooldown) only delays
  checks. A check may happen at any time.

### Outbox and the code

`out` holds the rows. Time is left out: `waiting` says that `availableAt` is
ahead, `lapsed` that `lockedAt` is more than five minutes old, and both may
change at any step. A lease (`id`, `PROCESSING`, `lockedAt`) is the holder's name,
since a worker has one row at a time. `worker` holds what `deliverOutbox` keeps
across its awaits: the candidates with the attempts it read, the row in hand, the
rules it is about to complete.

* One turn of the worker is `Reset`, `Fetch`, then for every candidate `Lock`,
  `Authorize`, `Suppress` or the sending, and `MarkSent` or `RecordFailure`.
* Telegram's answers are `Accept`, `AcceptUnheard` (taken, the answer lost) and
  `Refuse` with a temporary, permanent or unavailable error.
* `faults` counts what goes wrong: crashes, stalls past the lease, lost answers,
  failed writes. A statement that fails outside the `try` block ends the turn and is
  `Crash`; one inside it, of the authorization, the suppression or the mark, is
  `StatementFails` and goes to `RecordFailure`.
* `Enqueue` and `QueueResult` are the writes of the transactions that report
  something; `BeginWatch`/`CommitWatch` are the opt-in under the user's advisory
  lock, read and write apart because workers and `/stop` take no lock.
* Authorization (connection, settings and rules) is one step. The labs flags are
  on, and the payload of a row is always readable.

`late` is a history variable: which worker has got a message through to which
chat since that chat was disconnected, blocked or (a reader's) turned off; it
forgets a chat that is opened again. A settings check can always be
overtaken by an opt-out, so the promise that the code can keep, and keeps, is
`ShutChatGetsOneMore`: one message that was on its way, not the whole batch.

### Claimable links and the code

Every write of the code names the id of one row, so one link is modelled, a link of
its own: the children of a claim drop and the prizes of giveaways are rows of the same
table that other routes write too (see the end), and nothing is said of them. `row` is
its `ClaimableLink` row, `paid`, `spentBy` and `pending` are the payments at its
one-time address, their accepted spends, and the transactions that some node has
and the chain has not accepted. `call` holds what the calls under way keep across
their awaits. `owned` stands for `creatorId`, `funding` for the two columns of the
outpoint, `expired` for the lock time. The stored status "shared" is never
written by this code and is left out.

* A signed claim or refund is `Broadcast` (the checks of the broadcast route),
  `Submit` (the relay answers, or says that it was already accepted) and
  `MarkBroadcasted`, which closes the row if it is not closed already.
* A keyless return is `ReturnNow` by a visitor, or `Touch` and `TakeRow` by the worker,
  then `ListUtxos` and, for each output in the order of `Rank`, `SendReturn`; only the
  first is recorded (`MarkReturned`). `FindStale` and `DeleteStale` clean up anonymous
  links. The code waits a week for that; the model does not tell the week from the
  time before and allows more.
* `age` is how long `updatedAt` is ago, up to `Recheck`; every write of the row makes it 0
  (`WriteThen`). The worker takes only links that nobody has written for five minutes
  (`Due`, `claimable-return.ts:192`), so a refresh of a list puts a return off.
* The creator's list is `Refresh`, `Resolve`, `WriteStatus`; the operator's page is
  `RefreshStats`, `Resolve`, `WriteStats`. `Resolved` is `resolveClaimableOnChain`, its two
  reads of the chain in one step. The first write is conditional on `updatedAt` and
  the status (`SameRow`, with `fresh` for `updatedAt`: two writes in one millisecond are
  told apart); the second names the id only.
* `AdoptFunding` and `WriteFunding` are the PATCH, `Remove` and `WriteRemoved` the DELETE
  with and without `removeFromList`, `AdoptLink` the adoption of an anonymous link.
  A row and the chain may be read in one step where the write is conditional on
  the row not having changed.
* `SendOutside` is anyone who spends the output without this server, `Accept` and
  `Drop` are the chain and the mempools, `Refuse`, `LoseAnswer` and `Fail` the ways in which
  a submission or a call ends badly. A node that holds another spend of the output
  may take a second one or refuse it.

`dropped` is a history variable: the outputs of whose spends every node forgot one. A
link that was closed for such a spend is the one case in which a closed row has no
spend behind it. `lost` is another: the row as it was when the operator's page first
wrote over a change it had not seen. `Record` is the row until then and `lost` after
that, and the safety properties speak of `Record`: they say what holds as long as
that one route does not spoil it, and `claimable_stats` shows that it can.

`LinkLifecycle` is the abstract specification, with the status, the claim and the
refund of `Record` as its variables: funded at most once, refundable after that,
ended at most once and with one transaction, forgotten only before it was funded.

### The Telegram webhook and the code

One chat and its user. `post` is what Telegram thinks of an update, `row` its
`TelegramUpdate` row (`held` is `processingAt`), `handler` the requests under way
with what they keep across their awaits; a step is one statement or transaction of
the database or one call outside.

* `Deliver` is the start of POST: the row is created or taken if it is free, or if its
  lease of two minutes has ended, which is a free choice; a duplicate of a row that
  somebody holds is answered with 200, as the code does.
* A link command is `Look` and `Insert` of `createActionTool` under its idempotency
  key; a request is `ReserveAiQuota`, `RecordAiUsage`, `RespondToAiIntent`; a button is
  `ClaimDraft`, the same `Look` and `Insert` (or the rule), `ConfirmDraft`. `FailDraft` is the
  `catch` of `confirmIntentDraftTool`.
* `Fail` is an error in a step, before or after its write took effect (`Written`);
  `MarkProcessed` and `Free` are the ends of POST; `Exit` is a process that ends, or a request
  whose error path fails; `HangUp` is Telegram not waiting.
* `Expire` and `GiveUp` are `expireAgentData`. A draft's own expiry, which the
  confirmation looks at, is the same write, only earlier. The counters of requests
  per minute, day and month are `Refuse`. Amounts are units and an interpretation
  costs at most what was reserved, as the code's ceiling does.

`broken` is a history variable: the updates for which a request was cut off or not
waited for.

### The launch of a giveaway and the code

One draw slot. `left` is the time until it and `daa` the score of the chain, which may
run ahead of the clock; `slot` is the closing score in the `GiveawayDrawSlot` row (the other
two terms are this one and constants), `row` a giveaway with its bootstrap and the
phase of its projection, `call` the creations and `actor` the passes and routes
under way. `host` gives each payment the block that accepted it, `act` the
activation that spends it: a transaction is determined by the output it spends,
as `buildGiveawayV6ActivationTransaction` rebuilds it from the row.

* `Begin`, `ReadChain`, `Look`, `Insert`, `Save` are the POST that creates a giveaway, with
  `resolveGiveawayV6DrawSlot` in the middle: `Inserted` is the `create` whose loser reads
  the winner's row. The limit of unfunded giveaways is a count per creator
  (`Unfunded`) before all that and guards nothing; it is modelled as it is.
* `Claim` is a pass that touches a due bootstrap (the wait between two looks only
  delays), `Load` the row it reads and the guards of `activate`; `AskFunding` and
  `AskActivation` are the creator's routes. All go on with `ReadUtxos`, `ReadTx` and `Bind`,
  or with `Plan`, `Send` and `Record`.
* `Bind` is `persistGiveawayV6BootstrapBinding`, which creates the projection in the same
  transaction. `SendRefused` is the relay's refusal of an activation whose funding
  has left the chain; `SendUnheard` a lost answer; `Fail` any other end of a call.
* `Follow` is the projection that finds the activation; it reads from its anchor,
  and so only if that block is still the one.
* A confirmed activation is not reorganized here: that is `GiveawayProjection`'s
  question. A payment is in the model when a block accepts it.

### The giveaway's chain, projection and settlement and the code

A transaction is named by what it spends and commits to; a block accepts at most one
transaction of the family; its height is its DAA score and its blue score, and the
branch it lies on its sequence commitment. `Spend` and `MayRegister`, `MayFreeze`, `MayDraw`,
`MayReturn` are the two `.sil` contracts; `Applied` with `Activated`, `Registered`, `Frozen`,
`Drawn`, `Returned` is `giveaway-v6-reconstructor.ts`. They are two translations of two
sources, so that comparing them is not comparing a definition with itself.

* `Switch` drops up to `MaxDepth` blocks for a longer branch: the branch with the most
  blue work wins, and height stands for blue work and blue score alike. So a page
  that removes blocks always has a confirmed block to add, and the case of
  `RESET_REQUIRED` in `giveaway-v6-journal.ts:205`, a confirmed cursor removed with nothing
  confirmed to put in its place, takes a change of difficulty across the branches
  and does not arise. `PageError` has the case all the same. As a block commits to its
  past, a cursor is the chain up to it. `ForkAt`, `Reach`, `Kept` and `Advanced` are a page of
  the virtual selected parent chain applied to the journal, `PageError` the codes with
  which the code refuses it.
* `Find`, `Claim`, `Read`, `Persist`, `RecordFailure` are `syncDueGiveawayV6Projections`. `fresh` is
  the comparison of `syncRevision`: it ends for all others when somebody writes.
  `RowAfter` is what a page writes to the giveaway in the same transaction.
* `CallFails` is a read that the relay fails or a transaction that the database fails:
  whatever is thrown reaches `recordFailure`, and its code decides whether there is
  another attempt (`Retried`). `Faults` and `StorageFaults` are the codes of the two.
* `Enter` is the route that relays an entry it prepared; `Find`, `Claim`, `Freeze`, `Return`, `Draw`,
  `AskProof`, `Wait`, `Submit`, `Record` and `Close` are the executor. `Deliver` is `persistDeliveryPlan`:
  the plan is stored under the identifier of the transaction, which does not cover
  the proof (`Id`), and must be the stored one the next time.
* The executor's `CallFails` is an error of the relay, of the prover or of a statement
  inside the `try` of `executeOne`. `exec` is `executionNextAt` and, once that is null, the
  code it ended with.
* The prover is a job with a result that it may forget (`ProofLost`).

## What the runs check

| Run | Instance | Shows |
| --- | --- | --- |
| `payments_ledger` | one link that closes and opens, two requests, two calls at a time by two clients, one payment, windows that end and are extended, the mock-confirm route | `TypeOK`, `CreditedOnce`, `HandedToItsClient`, `CreditFits` |
| `payments_links` | a tip link and an invoice at one address, two requests, two clients, two payments | `NoMisattribution` and `EveryCheckPicksTheSame` with and without amounts, `PaidInvoiceStaysClosed`, `SettledIsFinal` |
| `outbox_workers` | two workers, one result, two opt-in calls of a reader at the limit, two faults | `TypeOK`, `RetriesAreCounted`, `WatchLimitKept`, `OneMessageWithoutFaults`, `SentIsFinal` |
| `outbox_batch` | one worker, two rows of one chat read together, one fault | `EveryRowIsSettled` under fairness, `ShutChatGetsOneMore`, `RuleCompletesOnDelivery` |
| `claimable` | two payments, the planned amount and a larger one, one user call and one pass of the worker at a time, one fault | `TypeOK`, `ClosedIsSpent`, `FundingFits`, `FollowsLifecycle` (the refinement), `UnclaimedReturns` under fairness |
| `telegram_agent` | two updates, one draft, two requests at a time, one account with a code besides the bot's, one fault | `TypeOK`, `MadeOnce`, `DraftsAreHonoured`, `AcknowledgedIsHandled`, `SpendingIsBooked`, `EveryUpdateIsProcessed` under fairness |
| `giveaway_launch` | two giveaways of one slot, two payments for the first, one pass, one call of a creator at a time, one fault | `TypeOK`, `SharedTerms`, `OneFamily`, `FundedGoesLive` under fairness |
| `giveaway_projection` | two workers, one entry, a chain of six blocks, one reorganization of up to two, one crash, failed read or failed transaction | `TypeOK`, `JournalIsExact`, `ReconstructionMatchesContract`, `CursorStandsOnChain`, `GivenUpForCause`, `NeverRewinds` |
| `giveaway_settlement` | one executor, one entry, a chain of seven blocks, one reorganization of one, one fault | `TypeOK`, `PlannedBeforeSent`, `SettlementIsSubmitted` under fairness |
| `outbox_reenabled`, `claimable_stats`, `giveaway_prover_restart` | | expected violations, see below |

### Bounds

`Payments`: ids are used in ascending order (`IdsInOrder`: ids are cuids and only
their order is used). In `payments_ledger` the clock runs to `MaxTime` = 2 with `Lifetime` = 2,
so that a window opened at 0 ends, one opened at 1 is cut short, and one is
extended; in `payments_links`, with two payments to one address, both are 1, which still
lets a request expire while a stranger's is open; no window moves there, which is why
`CreditFits` is checked in `payments_ledger`. `OneExpiry` lets one expiry, of either kind, be
under way at a time, `AllPlain` leaves out notes, and `AlwaysOpen` (`payments_links`) leaves
out closing. `RoomForCalls` gives up the calls that wait for an id when both
are in use: they can do nothing any more. `Symmetric` permutes clients, calls, transactions and memos, which no
definition tells apart, and is used for safety only. Three requests (two
repetitions and a stranger) are more than TLC does in the time; the theorems of
`PaymentsProofs` hold for any number. `SettledIsFinal` is checked with the mock-confirm
route off, as it is in production.

`Outbox`: `MaxAttempts` = 2 makes the first failure retry and the second kill; with two
workers two faults are enough for a stalled worker and a failed write of the
other.

`ClaimableLink`: two outputs are the fewest with an adopted amount, a mismatched
refund and a return of several; one user call next to one pass of the worker is
enough for a write between a read and a write. `Recheck` = 1: one step of the clock is the
five minutes, and a row is either just written or not. The constraint `NotLost` stops where the
operator's page has written over a change, as nothing is asked of what follows;
the step itself is checked.

`TelegramAgent`: two updates are a request and the button of its draft, or two presses; two
requests are one that holds a row and one that takes it over. `Budget` and `Reserve` are 1
and the true cost is 0, so that one interpretation fills the budget and gives it
back; two months have one turn between them.

`GiveawayLaunch`: two creators race for the slot; two payments are the fewest that can be
ambiguous or replace one another in a reorganization. The slot is two steps ahead
and the cutoff one, so that a creation may be in time by the clock and too late
by the chain (`MaxLead` = 1). Each creator opens one giveaway, so the limit `MaxUnfunded`, which
is per creator, holds nobody back: no property speaks of it. The constraint `CreatedFirst` lets payments and passes begin when no creation is under
way: what follows a creation reads nothing of it but the row. The proofs do
without it.

`GiveawayProjection`: the entries close at 3, the target is 4, the return is possible from 5 on,
and the chain ends at 6, so that an entry may be in time, late or the last of its shard,
and the prize drawn or returned. `Conf` = 1 and `MaxDepth` = 2 give reorganizations within
and beyond the confirmations. `FewEmpty` leaves out chains with more than three blocks
without a transaction of the family. `GiveawaySettlement`: the same with the return at 6 and a
chain of 7; `MaxDepth` = `Conf`, as nothing is promised beyond; `MaxRestarts` = 0 keeps the prover from
forgetting a finished proof, which is the subject of `giveaway_prover_restart`. That run has
`MaxFaults` = 0, so that nothing but the restart can end the execution.
In `giveaway_projection`, `Faults` has one code of the relay that is retried and one that is not
(another network), `StorageFaults` the code of a transaction that lost a conflict.

Deadlock is checked for `Outbox`. It is off where a model may stop: when ids,
transactions, updates or ticks are used up, when the row of a link was deleted, or
when the chain has its full height.

### Fairness

`Outbox` (`outbox_batch`): each worker's steps are weakly fair because `main` in
`apps/agent-worker/src/index.ts` loops for ever and catches what a turn throws; a back-off
and an abandoned lease end because time passes. Nothing is assumed of users, of
Telegram's good answers or of faults. A worker may be refused for ever: the
attempts then run out.

`ClaimableLink`: time goes on (`Age`), each pass of the worker is weakly fair, since
`apps/agent-worker/src/claimable-returns.ts` asks for one every minute and a failed pass is
repeated, and the chain accepts some pending transaction as long as there is
one. `UnclaimedReturns` then says that what nobody claimed leaves the address or the link
closes, even if the creator removed it from the list, unless lists or the
operator's page write a status to the row again and again for ever (`Rewritten`). Without that
exception it is false: see the findings.

`TelegramAgent`: Telegram delivers an update again until it is answered with 200, and a
request goes on until it ends. Nothing is assumed of the user or of the daily
job. `EveryUpdateIsProcessed` excepts updates for which a request was cut off or not waited
for: a duplicate is answered with 200 while the row is held.

`GiveawayLaunch`: a pass takes the bootstraps that were looked at longest ago (`orderBy: updatedAt`)
and so comes to each that stays due, hence strong fairness of `Claim` for each
giveaway; its steps, the projection, and blocks that take what the relay holds
are weakly fair. Nothing is assumed of the creator.

`GiveawaySettlement`: the chain grows, `tick` synchronizes and executes again and again, and time
passes (`Mine`, `Sync`, `Due`, `Work`, `Age`). Nothing is assumed of the prover, of the miners' choice
of transactions, or of participants. `SettlementIsSubmitted` therefore says that in the end the
giveaway is over or the next block could accept a transaction that the relay
holds. It is checked with one executor; the proofs are for any number.

## Findings

* `outbox_reenabled`: an opt-in that overtakes a worker about to suppress a result
  leaves the reminder on and the result dead, which `docs/telegram-giveaways.md:44`
  says cannot be.
* `claimable_stats`: the operator's page refreshes statuses with an update by id only
  (`operator-stats/page.tsx:241`) and may turn a claimed or returned link into a
  funded one, which "Terminal states never change again"
  (`claimable-onchain.ts:36`) excludes. The next refresh repairs a claimed link, as
  its `claimTxId` is still there.
* `giveaway_prover_restart`: the identifier under which a draw is planned does not cover its
  proof. A prover that lost a finished proof in a restart makes another one; the
  plan then differs from the stored one, `DELIVERY_PLAN_MISMATCH` is not retryable, and the
  giveaway is neither drawn nor returned. `docs/deployment.md:98` calls the executor
  restart-safe.

What the models show without a run of its own, and which the properties name as
exceptions:

* One failed statement of the database stops a projection for good. What
  `persistGiveawayV6ProjectionAdvance` throws reaches `recordFailure` with a code of Prisma,
  which is not among the two that are retried, so `nextSyncAt` becomes null
  (`giveaway-v6-sync.ts:97`, `:129-136`); so does the relay's answer from another network. The
  comment on the retries (`giveaway-v6-sync.ts:18-20`) gives as their reason that
  "stopping for good would leave a funded Giveaway unattended over a fault outside
  its own lineage", which is what happens here. `GivenUpForCause` names the codes.
* The same holds of the executor: what a statement inside `executeOne` throws is
  caught at `giveaway-v6-executor.ts:132-141` with a code that is not `retryable`, and
  `executionNextAt` becomes null. The prize is then neither paid nor returned by this
  server. `SettlementIsSubmitted` excepts `exec = "P2034"`.
* A link that is due is not returned as long as somebody's list is open: a
  refresh writes "refundable" over "refundable", which makes `updatedAt` new, and the
  worker waits for five minutes without a write (`claimable-return.ts:192`).
  `docs/claimable-links.md:43` promises the return "usually within a minute or two of
  expiry". TLC finds `Unclaimed ~> ~Unclaimed` violated by refreshes that never stop.
  Anybody may still trigger the return, as the document says.

* Delivery of notices is at least once, as `docs/agent.md` says, while `docs/adr/0002` speaks of
  avoiding duplicated messages (`OneMessageWithoutFaults`).
* The POST of a payment request extends the request it found by its id only
  (`payment-requests/route.ts:179`); if that expired in between, the payer is handed a
  request that nothing will confirm.
* The mock-confirm route expires a request by its id only (`mock-confirm/route.ts:48`) and
  may turn a confirmed one into an expired one. The route is off in production.
* A duplicate update is answered with 200 while the first request holds the row
  (`webhook/route.ts:946`). If that request then fails, Telegram does not deliver the update
  again, although the comment at `route.ts:1004` counts on it.
* A draft may end as failed although its link was made, if the error comes after the
  insert.
* An activation that the relay took, that was recorded and that the relay then lost is
  never submitted again: both activators skip a bootstrap whose `activationSubmittedAt`
  is set (`giveaway-v6-advance.ts:169`, `activation/route.ts:76`). A reorganization of the block that
  accepted the payment loses the anchor of the projection, which takes it without
  confirmations (`giveaway-v6-bootstrap.ts:306`). A payment that comes after two days is not
  looked at by the passes (`giveaway-v6-advance.ts:88`), and two exact payments before the
  binding are ambiguous for good (`giveaway-v6-funding.ts:103`). In these cases a funded giveaway
  does not go live by itself, and `FundedGoesLive` excepts them (the last one as
  `Funded` asks for one payment).
* The limit of unfunded giveaways is a count and a later insert
  (`creator/giveaways/v6/route.ts:195`): calls at the same time may pass it.

Known places that no property speaks of: whether a goal is reached or a link
disabled is not read again under the locks (`payment-requests/route.ts:93`); the first ambiguous
candidate ends a check (`payments.ts:122`); requests are expired before they are checked
(`agent-worker/src/index.ts:118`); the attempts read with the batch may be old when two workers
write them (`outbox.ts:198`, bounded by `RetriesAreCounted`); a refresh between a broadcast and its
write may find a spend it cannot name (`claimable-status-refresh.ts:59`); an anonymous row
is deleted just after its address was found empty (`claimable-return.ts:236`); and failed connection
attempts are counted by a read and a write (`telegram-connect.ts:147`).

## What is proved

The theorems hold for every value of the constants that the named assumptions
(`PaymentsAssumption`, `OutboxAssumption`, `TelegramAssumption`, `LaunchAssumption`, `FamilyAssumption`,
`ChainAssumption`, `ProjectionAssumption`, `SettlementAssumption` and that of `ClaimableLink`) admit; the
assumptions say what kind of thing each constant is and little more.

`PaymentsProofs`: the invariants of the runs are not inductive. `CreditFits` is
about the window a row has now, and `CommitReuse` moves it with a value computed
before the locks were taken; `NoMisattribution` would break if that moved a
payment credited to somebody else into the window of the request it was made
for. The inductive invariant `IInv` adds what a call in its transaction relies
on: no other call has the recipient's lock, its target is not credited yet and was open
when the locks were taken, and every payment credited at that recipient is in a
block no later than that moment, hence inside the old window or before it (`HoldsLocks`, `CallsOK`); and that
credits, rows and audit rows agree (`Ledger`, `References`). From `Invariance`
follow `TypeCorrect`, `Attribution`, `CreditsAreSound`, `LedgerOnce`, `OwnRequests` and `OnePick`.
The action properties need the same invariant. `InvoiceStaysClosed`: a call opens a request only
with the invoice's lock and after it has read it again, so no credit comes between. `CreditsStay`: what
a row was credited with stays, even under the mock-confirm route. `SettledStays` has the hypothesis
`~MockEnabled`: that route is off in production, and it is the only writer that touches a row
that is not pending.

`OutboxProofs`: `Typed` (types; what a worker read is still there, with attempts
left; the rules it is about to complete are its row's) gives `TypeCorrect`,
`RetriesCounted`, `SentFinal` and `RuleCompletion`. `RowSteps` says once which rows a
step may touch, and `Leases` (as long as nothing failed a row in hand is under
its worker's fresh lease) gives `OneAtATime`; with `Taken` (a row Telegram has taken
is sent, or in the hand of the worker that knows) it gives `OneMessage`.
`ShutChatSpared` has an invariant of its own (`LateInv`): `late` names shut chats only, and a worker
that is named there has nothing on its way to that chat. A message reaches the hand of a worker only by a
read of the settings that finds the chat open, at which moment `late` does not name it.
`LimitKept` rests on `Reserved`: an opt-in past its reads has room for its giveaway
and is the only one of its user, while everything that takes no lock only makes
the pending set smaller.

`ClaimableLinkProofs`: the properties of the row are not inductive because calls
write what they found out earlier. `IInv` adds what a call knows (`CallOK`): the row it read
was right then, its finding fits that row and the chain, what it saw on the chain
is still so, and if nobody wrote since, the row is the one it read. Payments and
spends only grow (`Grows`), so a finding stays true. Every step of a call leaves the row alone or
rewrites it by `Turn`, which says in terms of rows what `LinkLifecycle` allows
(`Rewrites`); this gives `Refinement`, and the invariant gives `ClosedForASpend` (the output of a closed link is
spent, or a node holds a spend of it, or one was held and forgotten by all; a call that failed or an answer
that was lost is no reason to close), `FundingIsRight` and `TypeCorrect`, for any number of outputs, users, workers and
faults. The write of the operator's page is part of the proof: if it writes over
the row it read it is harmless, otherwise it sets `lost`.

`TelegramAgentProofs`: `Typed` (a request that works on an update fits its row and its kind) gives
`TypeCorrect`; `Honest` (a draft that was claimed is in the hand of one request, which makes for the
owner of the draft; a key that was used has made its link) gives `NothingTwice` and
`DraftsHonest`; `Watched` (an update that Telegram thinks answered is processed, in
hand or broken) gives `NothingIsDropped`; and `BudgetHolds` is an induction on the set of requests
that hold a reservation. `ConfirmedStays` is an action property of the same invariant.

`GiveawayLaunchProofs`: `SharedTerms` and `OneFamily` need to know what calls under way have at hand.
`Inv` adds `Calls` (a call about to save has the slot's terms, and its giveaway is not
stored), `Rows` (a bound row has an output that pays it, and plans no other) and `Hands` (whoever plans,
sends or records does so for the row's output, after the plan). All of this stays
true because every step is `Steady`: rows stay, and what a row is bound to and plans
does not change. `Steady` also gives `BindingStays`.

`GiveawayChainProofs` has what the two next modules share. `Outputs`, `Reconstruct` and `Snapshot` are
recursive functions, about which the prover knows nothing; the library's induction theorems take an
operator, which it cannot instantiate. So induction is stated for sets: `LeastElement` (every set of
numbers that is not empty has a least one, from the well-founded order of the library) gives
`SetInduction`, and with it a function that satisfies the recursive equations exists
(`HistoryExists`, `ReplayExists`, `BranchesExist`), so the one that a definition chooses satisfies
them. `OutputsGrow` and `ReconstructionGrows` then say what one block more does, and `OneBlockMore`
puts them together. A chain is `Legal` if the contracts accept every block on the outputs of those
below; `GrowIsLegal`, `SwitchIsLegal` and `PrefixIsLegal` say that miners, reorganizations and
pages keep that. The main lemma is a simulation: `Agree` relates the unspent outputs to the indexer's
state (same phase, same tips, the pending entry is the last of the tip, the same freeze), it holds at
first, each kind of transaction keeps it (`AgreeOnRegistration`, `AgreeOnFreezing`, ...), and so
`ReconstructionAgrees` on every legal chain. `Listed` is a fold; `ListedIsList` and `ListedHolds` say what
it lists. `AlwaysFair` is a second induction over the blocks, about the contracts: a tip holds every entry of its shard
once, all but the last by the closing score, and the freeze drops the last one exactly if it is late. Carried over by
`Agree` this is `FairDraw`, about what the journal shows.

`GiveawayProjectionProofs`: `IInv` has `Shape`, `Exact` (every journal, stored or in a worker's hand, is that of
its cursor), `Guarded` (a worker that may still write has read the stored cursor), `Following`
(the status of the giveaway), `Stands` (a cursor lies on the chain with its confirmations, unless
a reorganization was deeper), `Lawful` (the chain and all cursors are legal, and the cursors confirmed but for
the anchor), `Typed`, and `Stopped` (why a projection was given up, or is about to be). From `Lawful` and
`Exact` follows `ReconstructionMatches`: what the indexer makes of the stored journal is what the contracts
enforced, for any number of shards, entries and blocks. They also give `OnlyTimelyEntriesWin`: the list that
the draw selects from holds exactly the entries that the journal shows accepted by the closing score, each
once, the winner on the row is one of them, and a giveaway that was returned is stored as NO_ENTRIES exactly
when there is none. A page is refused only if the anchor
left the chain (`PageFailsOnlyUprooted`), which with `Stopped` gives `StopsForACause`, for any set of codes with
which the relay and the database may fail: no sequence of reorganizations, pages and workers makes the journal
refuse a lawful chain, so what stops a live projection is a lost anchor or a code from outside that the code does
not retry. (The last part is what `GivenUpForCause` admits, not a promise of the code: see the findings.)

`GiveawaySettlementProofs`: `IInv` is `Shape`, `HoldsPlanned` (an executor holds a plan that is stored) and
`PlannedBeforeSent`; the chain only accepts what the relay holds. `Lawful` (chain, cursor and what executors have
read of it are legal, and not longer than the chain) gives three more theorems. `ProjectionIsRestored`: the module
takes the projection as one step and replays the chain in the order of its blocks, and this is what the
reconstruction computes from the journal, and it is never refused. `PlansAreAcceptable`: a freeze, a return or a draw that
is planned while the family's outputs are those that the executor has seen is one the contracts accept, with the same tips,
lists and winner; for a return this needs that a prize is not frozen before the closing score
(`FrozenIsLate`). `EntriesAreAcceptable`: an entry is prepared exactly when the contract of its shard accepts it. These
are the safety half of `SettlementIsSubmitted`: what executors do when they get to act is right.

The assumptions that matter there: `NoneAssumption` (`None` is neither an entry nor a transaction),
`IsFiniteSet(Shards)`, a score of closing before that of the draw before that of the return, and a chain of
at least one block (`MaxScore`), the anchor.

Proved and not run: `OneDeliverer`, `RowFollowsProjection`, `ConfirmedIsFinal`, `BindingIsFinal`, `CreditStays`,
`TimelyEntriesWin`, `RestoredInFull`, `PlansFit`, `EntriesFit`.

Only model-checked: the liveness properties (`EveryRowIsSettled`, `UnclaimedReturns`, `EveryUpdateIsProcessed`,
`FundedGoesLive`, `SettlementIsSubmitted`), which are beyond the prover, as is the absence of deadlock. Every
invariant and every action property of a passing run is the statement of a theorem. What the
violated runs show is a trace, and has no proof.

## What is not modelled

* Claimable links that are not on their own. The children of a claim drop are written by its
  routes as well (`creator/claimable-batches/route.ts:51-62`, `:86-93`, `:390-398`,
  `batch-activate/route.ts:289`, `batch-refund/route.ts:310`, `claimable-batch-return.ts:70-78`), and
  the prizes of giveaways by theirs (`giveaway-prize.ts:54`, `:79`, `claim-prize/route.ts:122`). These
  writes are not in the model, so `ClosedIsSpent`, `FundingFits`, `FollowsLifecycle` and
  `UnclaimedReturns` are about the rows that no such route writes.
* Claimable links on their own: deletion of accounts, limits and validation at
  registration, the notices (each is written after the write that closes the row,
  by the call that made it), reorganizations, and an indexer that lags by more than
  the ten seconds the code allows for.
* Telegram: connect codes and their attempt limit, commands that only read or set a
  value, menus; which payments a rule matches.
* Giveaways V6: Merkle proofs, amounts, fees and mass, the zero-knowledge proof
  itself, the encoding of scripts and pages, more than one family on a chain, settlements
  submitted by third parties.
* Claim batches as such (their manifest and totals, and the writes above), escrows, legacy
  giveaways, editing of payment links, account-free links and rate limits.
* Address formats, amounts in sompi beyond equality, message texts, the parsing of
  indexer answers, web pages, the SDK, the wallet adapter and the embed button, which
  keep no shared state. They are most of the repository's lines.

What would come next: claim batches over `ClaimableLink`, with the promise of
`docs/claimable-links.md` that every output goes back; the escrow covenant as a state
machine of one output; a composition of `Payments` with `Outbox` in which every credit
of a creator who takes notices reaches the outbox once; connect codes and rate
limits as counters at their limits.
