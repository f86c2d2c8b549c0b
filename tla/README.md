# Artificial Brain: verification

TLA+ models of the backend of Artificial Brain (`src/backend`), the TLC runs that
check them, and TLAPS proofs about them. The backend is a Go modular monolith: an
API process and a Worker process over one PostgreSQL database, with River as the
durable job queue. This document says what the system consists of, which module
models which part, what the runs and the proofs show, and what is left.

## 1. The system

Each bounded context owns a schema and talks to the others through shims wired in
`cmd/api` and `cmd/worker`. A context's writes join the transaction of its caller
through the context (`platform/database/tx.go`); the isolation level is read
committed, so a transaction is a sequence of statements that meets others at row
locks, unique keys and conditional updates.

| component | state | operations | interacts with |
|---|---|---|---|
| todo | a todo: status, due instant, `Version`, `ReminderVersion` | create, update, complete, delete, restore | calls reminder to plan and revoke inside its transaction |
| reminder | plans per reminder version, deliveries per idempotency key, River jobs | plan, revoke, send (Worker), receipt webhook | reads todo and channels when it sends; providers |
| conversation | sessions, transcript, confirmation requests | turn, draft and consume a confirmation, session commands | calls the model; todo through a gateway |
| portability | imports (preview, report), source registrations | upload, confirm, export | inserts into every other context in one transaction; reads them page by page |
| investment account | balances, positions, orders, ledger, NAV points | place, cancel, pause, execute, reconcile, value | Worker jobs every 15 minutes; market data |
| investment evaluations | configuration, pending change, evaluations and their jobs | configure, pause, queue, freeze, decide, issue orders | account; River |
| investment research and backtest | backtest runs over frozen data, replayed books | create, run, interrupt, retry | the domain rules of the account; River |
| identity | login challenges, users, workspaces, sessions, channels | request and verify a challenge, channels, provision | outbox for codes |
| worker status, health | heartbeat rows, readiness flag | record, remove, report | the Worker's life cycle |
| platform, HTTP, web | none of their own that others change | configuration, routing, pages | - |

What is hard, and what has to hold:

- **reminder.** A command revokes and plans in its transaction while executions,
  whose statements commit one by one, run against the same rows, and cancels jobs on
  River's own pool outside the transaction. Executions crash, are rescued and
  retried, and lose the provider's answers; the receipt webhook writes back whole
  rows. Plans must follow the todo, rows and jobs must exist together, a stale
  reminder must not be sent, a send must not be repeated once it is recorded, and
  every job must end.
- **conversation.** A turn reads its session, waits seconds for the model, and writes
  afterwards; meanwhile the session may be deleted. Confirmations of one delete race
  with one another, with edits of the todo and with the clock. A todo must be deleted
  only through exactly one confirmation of the very version it was shown at.
- **portability.** A confirm decides from what it read before its transaction; other
  imports of the same source, session deletions and new channels come in between.
  Nothing may be imported twice, nothing may lack its parent, and the report must be
  true to the rows and to the preview. An export pages by offset without a snapshot
  over tables that change; what was there all the time must be in the bundle.
- **investment account.** Bars, splits and dividends are published late and out of
  order, and fills are recorded after the session they belong to. The account must
  come out as if everything had been recorded at its effective time; money and
  shares must be conserved, and a valuation once saved must not be outdated.
- **investment evaluations.** An evaluation is prepared, frozen, and turned into
  orders at three different times by jobs that are retried, with pauses,
  configuration changes and the market's open between them: at most one batch of
  orders per session, in time, and authorised by the settings that will be in force.
- **backtest.** The replay walks over data that is all there already, and must use
  none of it early; orders planned at one close are executed at the next open, late,
  in part or not at all, and must still keep to the policy; the curve must be what
  the recorded fills are worth.
- **identity.** Counting and saving challenges, checking and consuming them, and the
  rows of a first login are separate statements without a transaction; a channel's
  code is sent before it is saved.
- **worker health.** One failed heartbeat ends the Worker, and its last heartbeat
  outlives it; nothing in the system decides by it.

`PROJECT.json` lists these as hazards, each at its line with the property that
covers it, or a note where none does. Some smaller ones of the same kinds are left
off that list: the conversation's history cursor compares ids that were assigned
before their commit; a sync run that a crash interrupts stays `running` for ever
(`jobs.go:202`); and two requests with one idempotency key are serialised by
`INSERT ... ON CONFLICT` and `FOR UPDATE` (`investment/application/mutations.go`).

## 2. The modules

| module | models |
|---|---|
| `TodoDomain` | the todo's transitions (`todo/domain`), as operators |
| `DeliveryDomain` | the delivery state machine (`reminder/domain/delivery.go`), as operators |
| `RiverQueue` | a River job's states as the code's use of River shows them (external) |
| `TodoPlans` | abstract: each todo command is one step over todo, plans and requested channels |
| `ReminderLoop` | the detailed todo and reminder system; implements `TodoPlans` |
| `Conversations` | the conversation context beside the todos it commands |
| `ImportFlow`, `ExportFlow` | the two halves of portability |
| `Portability` | the imports beside an instance of the exports |
| `AccountBook` | the rules of an account's books (`investment/domain`), as operators on books |
| `PaperAccount` | one simulated investment account, live; uses `AccountBook` |
| `RiskRules` | the risk limits and the rebalance plan (`risk.go`, `rebalance.go`), as operators |
| `Backtest` | a backtest's run, job and replay; and a copy of its data that tells only what is known |
| `TradingDesk` | abstract: what the automation of an account promises |
| `Evaluations` | evaluations, their jobs and the configuration; implements `TradingDesk` |
| `Identity` | logins, provisioning and contact channels |
| `MC...` | an instance of each for TLC |
| `ReminderLoopProofs`, `ConversationsProofs`, `PortabilityProofs`, `AccountBookProofs`, `PaperAccountProofs`, `EvaluationsProofs`, `IdentityProofs`, `BacktestProofs` | the theorems about each |

Each `MC` module gives one specification (`MCPortability`: two that share no state)
its values, symmetry and, where there is one, its constraint. The definitions that
are named after a fault (`DeleteSessionOnly`, `BlockedNow`, ...) stand next to the
definition they vary; nothing uses them but the checks that a property fails when
the code is wrong in that way.

**ReminderLoop.** One todo; everything in the code is scoped by workspace and todo,
so one is enough. The API's transaction (`tx`) is opened by one of the four commands
(`CreateTodo`, `UpdateTodo`, `CompleteTodo`, `DeleteTodo`) and goes on statement by
statement: `CancelJobs` (River's pool, takes effect at once and survives a
rollback), `ReadScheduled`, `SuppressRow` for each row read (whole-row writes, and a
row lock until the end), `PlanReminder`, `Commit` or `Rollback`. An execution is
`Fetch`, `ReadPlan`, `ReadTodo`, `LoadDelivery`, `SaveSending`, `ResolveChannel`, one
of the outcomes of `Notify`, `RecordOutcome`, `CompleteExecution`, and at any point
`StatementFails` or `ExecutionDies`; `RescueJob` makes the job of a dead execution
available again. A receipt is read in one step and written back in another.
Channels may be found usable or not at every read. Timing is not modelled: a
scheduled job may run at any moment after it was inserted, which includes every
schedule River could produce.

**Conversations.** A turn is `StartTurn`, `ModelAnswers` (any answer, by the classes
that `ValidateModelTurn`, `ValidateProposal` and the router tell apart),
`SearchCandidates` for a delete, and `CommitTurn` in one step: it inserts fresh rows
and meets others only at the session it refers to. The confirm transaction is
statement by statement (`GetConfirmation`, `Consume`, `CheckTodo`, `DeleteTodo`,
`AppendOutcome`, `CommitConfirm`) with the row locks of confirmation, todo and
session. `ConfirmFails` and `TurnFails` roll back anywhere. The todo API edits,
completes and creates todos meanwhile; `Expire` is the clock passing a
confirmation's expiry.

**ImportFlow.** One owner and source instance, since registrations are keyed by both.
`Upload` stores a bundle with its preview; a confirm is `StartConfirm`, `DecideAgain`
and `ReadTargets` before its transaction, then one step per record in the order of
`execute` (channels, todos, deliveries, sessions, messages), then the conditional
`Commit`. Registrations conflict on a unique key that waits for the other
transaction, hence a record another open call has registered blocks the step.
Records with registrations from before registrations had an owner are in the
instance, and so are a malformed record and children without their parents.

**ExportFlow.** The bundle is written entry by entry, each entry page by page with
`OFFSET` and `LIMIT`. Between two pages rows are inserted anywhere in the order (an
imported todo keeps its `created_at`; a transaction commits late), and sessions are
deleted. What the bundle ends up with is read back the way the parser of an import
reads it. `Portability` puts it beside `ImportFlow`; the two share no state. A row's
place in a page is the number of rows of its kind that sort before it.

**AccountBook, PaperAccount.** `AccountBook` has the rules of the books that live
trading and the backtest both call: reservations, fills, settlement, splits,
dividends, cost basis. In `PaperAccount` every command locks the account row and
keeps the lock, so transactions are serial: a command of the API is one step, and
Execute and Reconcile are one step per order or corporate action with the lock held
(`job`). Time runs in three ticks a day (midnight, open, close); midnight matters for
settlement. The market publishes bars (`BarArrives`) and the source corporate actions
(`Publish`: incomplete, complete, revised) at any later time. The risk limits need
the whole market and are an arbitrary bound on the matched quantity. Reconcile may
have read its time a tick before it got the lock. History variables: `navs` keeps
what a saved NAV has valued, and `books.splits` which splits were recorded before an
action.

**RiskRules, Backtest.** `RiskRules` translates `ValidateOrder` and
`BuildRebalance` as pure operators: exposure limits of a holding, an industry and all
stock, turnover, the drawdown pause, stop losses, the order of reductions and
purchases. `Backtest` is the run's row with its job (`CreateBacktest`, `Fetch`,
`Start`, `Finish`, `Interrupt`) and, inside an attempt, the replay: `Decide`
(reconcile the actions known by the evening before, plan, reconcile at the open),
`ExecuteNext` for one order at a time, `CloseSession`. The frozen data (a past of
each session and a publication history of each action) is chosen when the run is
created. What reads it takes it as a parameter, so that `NoLookAhead` compares each
step with the same step over `Censored`, in which everything that was not available
yet is gone.

**TradingDesk, Evaluations.** `TradingDesk` is the abstract specification, over the
clock, the settings, the pending change, the orders that stand and the sessions that
have had their batch: `Change`, `Adopt`, `Issue`, `Resolve`. `Evaluations` has runs
with jobs, attempts and rescues, and workers: the account job is `Maintain`,
`ReadInput` and `SaveRun` (the computation between the last two holds no lock), the
evaluate job `Fetch`, `Decide`, `Complete`; `Configure`, `StartResearch`, `Tick`,
`Fail` and `Crash` come between. It maps its account's settings to the desk's
variables, and the sessions of the runs that have issued orders to `done`.

**Identity.** Challenges are requested and verified (`RequestChallenge`,
`SaveChallenge`, `VerifyLogin`, `UpdateChallenge`) and first logins recorded
(`FindUser`, `SaveUser`, `SaveSession`) statement by statement; the channel handlers
that check a code hold the channel's row. `Fail` ends a request between any two
statements, `Stop` all of them; a start of the API provisions the admin
(`Provision`) or not (`StartPublic`). `Init` has three databases: an empty one, one
with a user and a session, and one with an imported channel as well. A start without
a schema ("degraded"), which skips the provisioning, is left out: the Compose files
run the migrations first.

`TxRunner` itself has no module: begin, join, commit and rollback are the opening,
`Commit` and `Rollback` (or failure) steps of the modules whose transactions
interleave.

## 3. The runs

| run | question | instance | distinct states |
|---|---|---|---|
| `reminder_safety` | are suppressions, sends and settled jobs right, and what costs a reminder its job? | 2 reminder versions, 2 instants (symmetric), 1 channel, 2 attempts, one job retried | 1.25 M |
| `reminder_liveness` | do todo, plans and rows change as `TodoPlans` says, do jobs end, does the first receipt stand? | 1 instant, 3 River and 2 Worker attempts, 2 receipt calls | 202,791 |
| `reminder_terminal` | are final deliveries immutable? (violated) | as `reminder_safety` | - |
| `reminder_orphan` | is a revoked send re-read? (violated) | as `reminder_safety` | - |
| `conversation` | is every delete confirmed once and in time, a turn atomic, the transcript anchored? | 1 todo with 3 versions, 1 session, 2 confirmations, 1 turn, 2 confirm calls | 1.28 M |
| `portability_import` | is an import single, complete, truthful, and what the preview showed? is a bundle faithful? | 6 records, 3 bundles, 3 imports, 2 calls; apart from it 8 rows in pages of 2, 2 changes | 317,051 |
| `investment_account` | is the account what its events, in their effective order, make it? | 1 instrument, 2 orders, 4 sessions, 1 dividend and 1 split | 463,696 |
| `investment_nav` | does a NAV value the shares held at its session's close? (violated) | as `investment_account` | - |
| `investment_evaluations` | does the automation keep what `TradingDesk` promises? | 2 sessions, 2 configurations, 2 workers, 2 attempts, 1 request | 776,355 |
| `backtest` | does the replay look ahead, keep to the policy, report the right curve? | 3 stocks in 2 industries and the benchmark, 3 sessions, 180 pasts, 9 action histories, 2 attempts | 57,661 |
| `backtest_fill_keys` | has every fill an event key of its own? (violated) | as `backtest` | - |
| `identity` | do overlapping and failing requests keep users, sessions, limits and channels right? | 1 phone, 2 emails, 2 requests at a time, 3 in all, 2 starts, 2 clock steps | 874,073 |

What they show:

- `CommandsAtomic`: what a command commits, the todo, its plans and the rows that
  exist (to which `requested` is mapped), changes in one step of `TodoPlans`, whatever
  runs between the command's statements, and not at all when it is rolled back. Jobs are no part of it, nor can they be: the cancels are not
  in the transaction. What that means is `OnlyRollbackCostsJobs`: an unfinished reminder
  of the todo's current version loses its job to a cancel only when the command is
  rolled back, never to a committed command, a failure, a crash or a rescue.
- `SuppressionTruthful`: a row's suppression reason is true of the committed todo
  and plan, also when a command and an execution both wrote it.
- `StaleNeverNotifies`, `OnceUnlessUnrecorded`, `CompletedJobSettled`, `JobsEnd`: the
  send protocol under crashes. `FirstReceiptStands`: a stored verdict changes only
  under a call, or a revoke, that read the row before and writes its copy back; later
  calls and executions leave it.
- Three plainer invariants of the loop have no run of their own, because they are
  proved: `PlansMatchTodo` (a live plan is the current version's), `RowsMatchJobs` (a
  row and its job exist together; a cancelled job exists) and `ReceiptsBelong` (a
  receipt stands on a succeeded row, which the provider has accepted; a stale receipt
  may turn a row that was suppressed meanwhile into a succeeded one again).
- `DeletionsConfirmed`: a todo is deleted exactly when one confirmation of it, bound
  to that version, is consumed; of the expiry it says nothing. `LateNeverDeletes`
  does: a confirm that comes after the expiry deletes nothing, also when it waited for
  a call that rolled back (one that came before it may). `TurnsAtomic`: a turn is all
  or nothing, as its transcript records. `TranscriptsAnchored`: no row without its
  session.
- `ImportedOnce`, `ReportTruthful`, `ParentsExist`, `PreviewKept`: the last says
  that a confirm decided on a newer state than the preview's never imports what was
  shown as skipped, in conflict or invalid. `BundleFaithful`: a completed bundle has
  what was there all the time, and a record twice only when an earlier row came
  meanwhile.
- `LedgerBalances`: balances and holdings are the sums of the ledger and every
  event key is booked once. `ReservationsBacked`: reserved cash and shares are
  exactly the live orders', receivables exactly what has not been paid.
  `HoldingsReplay` compares positions and dividends with a replay of all fills and
  splits at their effective times. `CapacityShared`, `NavComplete`,
  `OrdersEndOnce`: volume limits shared by orders, a saved NAV that misses no
  fill of its session, and orders that end once.
- `DeskKept` (refinement of `TradingDesk`): one batch a session, before its target
  opens, with no earlier order open, by an enabled account and under the settings in
  force then; a pause or a change withdraws what it should. `InputMatches`: a
  readiness computed without the lock is saved only for the settings it was computed
  for.
- `WithinPolicy`: what is planned keeps to the policy at the closes, and what is
  executed at the opens whatever the gap; `CurveHonest`: the curve is what the fills
  and the data say the account was worth; `NoLookAhead`: the replay over censored
  data is the same.
- `SignInsRight`, `ConsumedForGood`, `HourlyLimit`, `AdminNeverForked`,
  `ChannelWritesKept`: one user per identifier, sessions of the right user,
  consumed challenges, the limit exceeded only by requests that overlap, one admin,
  and no acknowledged channel write lost.

The four violated runs are disagreements between the code and its documents:

- `TerminalImmutable`: `DeliveryStore.Update` writes the whole row by id, whatever
  state it is in. A revoke suppresses a scheduled row whose job it could not cancel;
  an execution of that job reads the row before the command commits, waits for its
  lock, and then writes `sending` over the suppressed row. The domain calls terminal
  states immutable.
- `RevokedSendIsReread`: the revoke cancels jobs of sending rows that wait for a
  retry and leaves the rows; nothing will ever read them again. The comment says
  sending rows keep their re-read.
- `NavAtClose`: a NAV that is late enough for the next session's split to have been
  reconciled multiplies the new shares by the old session's unadjusted close. The
  design places the split before its own day's open, after that close.
- `FillKeysUnique`: two sales of one holding, for different reasons, have one order id
  and so one fill key, as no two fills of the ledger may. `rebalance.go` can plan both:
  it cuts a holding again for the next limit it breaks.

**Bounds.** `MaxReminderVersion`: two versions give a plan to revoke and one to
replace it; the interference between versions is pairwise. `RiverMaxAttempts` stands
for River's default of 25 and `MaxAttempts` for the configured limit; the liveness
run has the one above the other as in the code, the safety run has them equal to
reach the last attempt sooner. `OneRetried` keeps the safety run small: at most one
job runs a second time, while the liveness run has no such limit. `MaxVersion` limits
the edits of a todo in `Conversations`: a draft at one version, an edit, and one
more. Two confirm calls, of either context, suffice for their races: each property
speaks of one record or one todo, and each conflict is between two writers. One turn
is enough against the other kinds of process: two of them meet nowhere but at the
session, which those also change. Two receipt calls meet in one row, each
with a copy of it.
`MaxSelectable` is the code's 10, so with one todo the branch of too many candidates
is reached by no run: the proofs cover it. `TwoPending` has a third import uploaded
only after another is committed. The export's two pages of sessions and of todos,
with two changes between them, are the least that shift one page past another.
`PaperAccount` ends at `Horizon`, in its fourth session (`Last` = 3), with an
`InitialCash` of 6: two sessions an order can be placed for, one before and one at a
split and a dividend, and a tick of every kind after both. Quantities, prices and
capacities are single small numbers chosen so that a buy fills in part and 3-for-2
leaves a fraction. `Crowd` in `Evaluations` allows one account job at a time, which
River makes unique for a quarter of an hour while its time is ten minutes, and two
evaluations; its `VIEW` forgets what cannot matter any more. The backtest's days are
chosen so that gaps, a stop loss, an exit, late, unopened and missing bars, partial
fills and each order of publication occur. `OneAtWork` in `Identity`: logins and
channel requests share only a user's sessions, so a behaviour has one of the two at
work. Deadlock is checked for `PaperAccount` (each state has a tick or a job to run),
because an executor that can do nothing with an order would block the account for
ever. In the other models a system at its bounds may stop, so deadlock is not checked
there; `JobsEnd` covers what would be one in the reminder loop.

**Fairness**, in `reminder_liveness` only: an open transaction goes on (its request
ends), River fetches available jobs and rescues abandoned ones, and an execution
goes on. The last is strong fairness: an `Update` waiting for a row lock is enabled
only between two holders, and PostgreSQL serves the waiter when the lock is
released. Commands, failures, and receipts are not fair. The other contexts promise
nothing that must happen: a failed last attempt leaves an evaluation or a backtest
queued for ever (section 5).

## 4. The proofs

All theorems hold for every value of the constants that satisfies the named
assumptions of the modules (limits are positive naturals, `None` is none of the ids,
the ids of calls and turns are apart, and the slots in which requests run are finitely
many, as the requests a server runs at one time are); `HoldingsAreReplayed` has one
hypothesis more. None uses the instances' constraints.

| theorem | module | says |
|---|---|---|
| `TypeCorrect` | `ReminderLoopProofs` | `Spec => []TypeOK` |
| `LoopInvariance` | | `Spec => []LoopInv`, the inductive invariant |
| `PlansFollowTodo` | | `Spec => []PlansMatchTodo` |
| `RowsFollowJobs` | | `Spec => []RowsMatchJobs` |
| `Atomicity` | | `Spec => CommandsAtomic`: every step maps, in todo, plans and existing rows, to a step of `TodoPlans` or a stutter |
| `OutcomeInvariance` | | `Spec => []OutcomeInv`, the second inductive invariant |
| `SuppressionsAreTrue` | | `Spec => []SuppressionTruthful` |
| `StaleRemindersStop` | | `Spec => []StaleNeverNotifies` |
| `RecordedSendsAreFinal` | | `Spec => []OnceUnlessUnrecorded` |
| `CompletedJobsAreSettled` | | `Spec => []CompletedJobSettled` |
| `ReceiptsStandOnSends` | | `Spec => []ReceiptsBelong` |
| `ConversationInvariance`, `ConversationTypes` | `ConversationsProofs` | `Spec => []ConversationInv`, `Spec => []TypeOK` |
| `DeletesAreConfirmed` | | `Spec => []DeletionsConfirmed` |
| `LateConfirmsDeleteNothing` | | `Spec => []LateNeverDeletes` |
| `TurnsAreAtomic` | | `Spec => []TurnsAtomic` |
| `TranscriptsStay` | | `Spec => []TranscriptsAnchored` |
| `ImportTypes` | `PortabilityProofs` | `Spec => []TypeOK` |
| `NothingTwice`, `NoOrphans` | | `Spec => []ImportedOnce`, `Spec => []ParentsExist` |
| `ReportsAreTrue`, `PromisesAreKept` | | `Spec => []ReportTruthful`, `Spec => []PreviewKept` |
| `BundlesAreFaithful` | | `Exports!Spec => []BundleFaithful` |
| `AccountTypes` | `PaperAccountProofs` | `Spec => []TypeOK` |
| `LedgerAddsUp` | | `Spec => []LedgerBalances` |
| `ReservationsAreBacked` | | `Spec => []ReservationsBacked` |
| `CapacityIsShared` | | `Spec => []CapacityShared` |
| `NavsAreComplete` | | `Spec => []NavComplete` |
| `OrdersEndJustOnce` | | `Spec => OrdersEndOnce` |
| `HoldingsAreReplayed` | | `SplitsApart` implies `Spec => []HoldingsReplay` |
| `DeskInvariance`, `EvaluationTypes` | `EvaluationsProofs` | `Spec => []DeskInv`, `Spec => []TypeOK` |
| `ReadinessFits` | | `Spec => []InputMatches` |
| `AutomationKeepsDesk` | | `Spec => DeskKept`: the refinement of `TradingDesk` |
| `IdentityTypes` | `IdentityProofs` | `Spec => []TypeOK` |
| `SignInsAreRight` | | `Spec => []SignInsRight` |
| `AdminIsNeverForked` | | `Spec => []AdminNeverForked` |
| `ChannelWritesAreKept` | | `Spec => []ChannelWritesKept` |
| `ConsumedStaysConsumed` | | `Spec => ConsumedForGood` |
| `HourlyLimitHolds` | | `Spec => []HourlyLimit` |
| `TypeCorrect` | `BacktestProofs` | `Spec => []TypeOK` |
| `NothingAhead` | | `Spec => []NoLookAhead` |
| `WithinThePolicy` | | `Spec => []WithinPolicy` |

**ReminderLoop.** Neither `PlansMatchTodo` nor `RowsMatchJobs` is inductive: whether
`Commit` keeps them depends on what the transaction is about to write. `LoopInv` adds
`TxCoherent` (the intent of the open transaction is the command applied to the todo
as it still is, since the transaction holds its row lock; it rewrites only rows that
exist and inserts only rows of one new version), `FuturePlansUnwritten` (no plan
above the todo's version exists, so the inserted rows are fresh) and `CopiesBacked`
(an execution or a webhook call that will write a row back holds a copy of one that
exists, so it cannot create a row without a job). The proof has a lemma per kind of
step; `ExecutionKeepsFrame` states once what any worker step leaves alone.
`Atomicity` maps `Commit` to the command it carries and every other step to a stutter.

The outcomes of executions need a second layer, `OutcomeInv`, because every one of
them writes back a row it has read earlier, over whatever has happened since.
`ExecutionFits` says what an execution still knows at each of its steps: the reason
it is about to record is true, a send it is about to record was accepted, an attempt
has begun before the provider is called, and a row that it believes open is final in
the table only if a command suppressed it. `RowFits` says the same of the row at
rest, with the number of acceptances bounded by those that were lost; `TxFits` of the
reason a command revokes with, and `ReceiptFits` of the copy a webhook call holds.
That reasons stay true is proved apart (`ReadingsLast`: a todo that was completed,
deleted or rescheduled, and a plan that was revoked, stays so), so that a stale read
may be acted upon. What each kind of step leaves alone is a lemma (`GotoKeeps`,
`EndsKeep`, `SavingKeeps`, `RowsKeep`), and the actions are instances of them.

**Conversations.** `DeletionsConfirmed` depends on what a confirm has checked still
being true when it commits. `ConversationInv` says so: `ConfirmSound` (a call that
has consumed its confirmation finds it open, one that has deleted its todo finds it
live at the confirmation's version), which holds because of the row locks, and
`Exclusive` (no two calls hold one lock). `TodoSound`, `ConfirmationSound`,
`MessageSound` and `TurnSound` tie every row to the turn that wrote it, and a turn's
draft to nobody else. Four lemmas carry most steps: `TodoChange`,
`ConfirmationChange`, `ConfirmChange` and `TurnGoesOn` say which changes of one row
keep the invariant, and the actions are instances; the two commits (`CommitKeeps`,
`TurnKeeps`) are proved conjunct by conjunct. `LateConfirmsDeleteNothing` has a small
invariant of its own beside it, `LateInv`: a late call finds the confirmation expired
when it takes its clock, because no step takes an expiry back (`ExpiryLasts`), and is
not in time from then on.

**ImportFlow.** `ImportedOnce` and `ParentsExist` follow from `ImportInv` = `TypeOK`,
`CallsSound` (what a call has decided, and the parents it has looked up, are still
true while it runs), `KeysDisjoint` (two open calls never hold one registration: the
unique key), `RowsRegistered`, `TodosKept`, `ParentsExist`. The report is a second
layer on top of it, `ReportInv` = `CallsPlanned`, `LegacyUnregistered`,
`PromisesStable` (a promise is still what deciding the row again would say),
`RowsReported`, `ReportsTrue`.

**ExportFlow.** The invariant is about one entry of the bundle at a time.
`EntryOpen` speaks of the entry being written: of the rows that were there from the
beginning and still are, it holds each that has fewer rows ahead of it than the
offset, unless one ahead was deleted (`Pulled`); and unless one was inserted ahead
(`Pushed`), it holds no row twice and none that is still to come. `EntryDone` is what
is left of this once the end is reached. An insertion can only raise the number of
rows ahead of those it pushes, a deletion only lower it for those it pulls
(`RowInserted`, `RowsDeleted`), so both stay true under either. `PageIs` says what a
query answers (by `SortedIs`, the sorted rows are the rows, each at its place), and
`PageWritten` that a page moves the entry on, to its end when the page is short. That
a short page is the end needs that no query cuts a page below what was asked for,
which is the assumption `RowAssumption` makes of the limits.

**Evaluations.** The refinement needs to know that a step of the evaluations is a step
of the desk, that is, what each run and worker still knows: `DeskInv` = `RestTyped`,
`RunsFine` (a run has its own key, waits only while its job can still end it, and
issues orders only if it is automatic, has ended, and its session was ready),
`WorkersFine` (`AtRun`, `InputFine`: a worker's run exists and its
input is of a version not newer than the account's, and of the same settings if of
the same version), and `OrdersStand` (every order that stands is either already the
market's or authorised by the settings that will be in force). Each action is then one of the desk's actions or a stutter.

**AccountBook, PaperAccount.** What the commands do to an account is arithmetic on
sums, and which sums hold depends on the order in which late things were recorded.
`AccountBookProofs` has the invariant of a book, `BookInv`, and one lemma per
operation of `AccountBook` that it is kept (`ReserveKeeps` and so on to `ApplyKeeps`),
so that the proofs do not depend on who calls them. Its parts: `BookTypes` (each
ledger row belongs to an order or an action in the state the row tells of, and no
two rows tell the same), `Balanced` (balances and holdings are the sums of the
ledger's columns), `Backed` (what is reserved or owed is what orders, sales and
accruals account for), and `Covered`, without which a position could fall below what
is reserved of it: for every moment, the shares held as its events begin, as far as
they have been recorded by now, are at least those reserved by the sales that opened
before. A fill or split that is recorded late lowers both sides or neither. Sums are
taken over all orders and all rows, with terms that are 0 where they do not count, so
that a step changes one term (`OrderChanges`, `RowAdds`).

`AccountInv` of `PaperAccountProofs` adds the world (`WorldFine`), the remaining work
of a job (`JobFine`), and beside `BookInv` that no row lies in the future, that trades
of a session stay within the capacity of each of its orders (`WithinCapacity`, which
needs that only sessions that have closed are traded in), and that no live order is
left of a session that a saved NAV has valued (`NavsFinal`). What an operation leaves
alone is stated once as `Quiet` (no trade, no new order, no order revived). That
`SaveNAV` finds no live order is its guard; that none comes afterwards is that orders
are placed for sessions that have not opened.

`HoldingsReplay` needs a third layer, `Replays`: what every recorded split and dividend
counted when it was recorded is still what the ledger says was held before it. Each
split's row holds what `AfterSplit` makes of the sum of the earlier rows
(`SplitRight`), each accrual's row the amount for the shares held as its time began
(`AccrualRight`), the splits known to an accrual leave out none that precedes them
(`KnownSplits`), and no order is left that could still be filled before an action
recorded for its instrument (`OpensAfter`), which is why no later row disturbs the
earlier sums. It is kept because a split is refused when a fill or a split has
overtaken it, an action while an order before it is open, and a session that has
opened takes no order. `ReplayIs` then says that the recursion of `Replayed` is a sum
over the ledger: that sum solves the recursion, and a smallest time at which another
solution differed would not exist. The theorem assumes `SplitsApart`, that no
instrument has two splits at one effective time. Nothing in the code rules that out,
but `Replayed` is not defined to apply both: their order, and with it the fraction
lost, is that in which they were found.

`AccountBookProofs` also proves what the sums of `FiniteSetsExt` are. The induction over finite
sets that this takes is obtained from well-foundedness of the subset ordering, with a
set of the sets for which a claim holds in the place of a predicate, and the existence
of the recursion from a smallest number of elements for which it would not exist.

**Identity.** Requests run statement by statement beside each other, so that the
invariants are about the copies they hold. They are layers, each proved from those
before it. `Carried` types every request and says which rows it refers to;
`RequestsApart` says that two of them never carry one new user, challenge or locked
channel; `Registered` says the ids and identifiers of users are apart and every
session is of a user it belongs to (the three are `IdentityInv`). On top of these stand
`AdminOne` (who the admin is, as seen by a start that has not written it yet),
`Contacts` (a channel is what its acknowledged requests have made it, and the copy of
a handler that holds the row is the row), `Challenged` (challenges are finitely many
with ids of their own, and a verification holds a copy of one that exists) and
`Limited` (the challenges saved in any hour and those still to be saved are together
fewer than the limit and the number of slots). The last is a statement about
cardinalities: a request that has counted fewer than the limit adds itself to those to
be saved, of which there are no more than the other slots.

**Backtest.** `ReplayInv` is the inductive invariant: the run's row and job (`RunFine`),
and of each book in the Worker's memory `BookAt`, that it is sound (`BookInv` of
`AccountBookProofs`, whose lemmas about each operation serve here again), holds no row
from after the moment reached, has applied every action known by then, and reports
fills only of orders that are over. A session's evening, open, executions and close
lead from one such moment to the next (`PlannedTo`, `OpenedTo`, `NextExecuted`,
`ClosedTo`). That what takes effect between two moments is applied in its order is
shown along the fold over `ActionOrder`.

`NothingAhead` compares the replay with one over censored data. `Alike` says that two
data sets agree on everything available by a time, and the censored ones do; every
reader of the data (`Selected`, `Closes`, `Opens`, `ActionsBy`) returns the same of
data that are alike, hence so do planning, executing and reconciling.

`WithinThePolicy` has two halves. Of a plan: `PlanInv` is kept by each pass of
`BuildRebalance` (`SalePass`, `EntryPass`), and after the reductions of a level no group is over that
level's limit, which later passes keep because they sell only, or buy what is
admitted; `PlansAreKept` draws the conclusion. Of an execution: `SessionKept` says of
the fills of the session so far that they keep the limits at the opening prices and
that what is left to do cannot break them, since orders go by session, then sales,
then purchases: once something is filled only this session's orders are left, and
once something is bought no sale is. The NAV at the opening prices with fees and
slippage added back is the same before and after every trade (`Opening`), so that all
fills of a session are judged by one NAV.

Only model-checked: `JobsEnd` (liveness and fairness are outside the prover's reach);
`OnlyRollbackCostsJobs` and `FirstReceiptStands`, which speak of one step and whose
proofs would need more than `OutcomeInv` about the copies that transactions and
executions hold; and `CurveHonest` (sums over all fills and actions of a whole run,
against a replay in effective order). `LateInv` is proved on top of the checked
`ConversationInv`. The invariants `LoopInv`, `OutcomeInv`, `ConversationInv`,
`ImportInv`, `ReportInv`, `ExportInv`, `DeskInv`, `AccountInv`, `Replays`, `PolicyInv` and those
of `Identity` were checked by TLC, as invariants of the instances, before they were
proved.

## 5. What the models show besides

These are consequences of the code that no run is needed to show; the
properties are stated so that they allow exactly them.

- **Export.** A row inserted before the page that is next (an import restores an old
  `created_at`, or a transaction commits late) shifts the pages, and a record is
  exported twice, although `todo/adapters/outbound/postgres/store.go:128` and
  `reminder/.../deliveries.go:268` call the paging stable. A todo or delivery that is
  twice in a bundle is classified as new twice, and its confirm then fails on the
  unique key each time; a repeated session or message is "invalid". A session deleted
  meanwhile shifts pages to the left, so that others are omitted. Messages and
  deliveries whose parents were created after the parents' entry was written are in
  the bundle without them, and invalid when it is imported. An export that is cut off
  has no manifest and is refused.
- **Backtest.** `MatchAtOpen` gets no peak NAV in the replay (`backtest.go:542`), so
  the drawdown pause is judged by the initial cash (`risk.go:202`), whereas live
  trading passes the peak. A late fill overtaken by a split of its instrument is never
  split, and one overtaken by a dividend never receives it: the replay has neither
  `PriorOpeningUnresolved` nor `InventoryChangedSince` (`CurveHonest` leaves such fills
  out). The plan leaves out `SessionTurnover`. Live trading executes nothing when a
  held position has no opening price; the replay goes on. All of it, although the
  design says that both share one version of the rules
  (`docs/superpowers/specs/2026-10-07-investment-us-equities-design.md:178`).
  A plan may sell one holding twice, for different reasons, and both orders have one
  id (`FillKeysUnique`); it never does so for one reason (`OrdersApart` of
  `BacktestProofs`).
- **Evaluations.** `Configure` compares with the current configuration only
  (`configure_automation.go:62`): going back to it leaves the pending change in place.
  A crash at the last attempt, or a failure to mark it, leaves an evaluation, and in
  the same way a backtest's run, `queued` or `running` for ever.
- **Identity.** Provisioning does not replace an occupied phone or email, so a
  configured identifier of the same kind can log in as another user, other than the
  comment in `provision.go` suggests (`AdminNeverForked` leaves that case out).
  Requests that overlap exceed the hourly limit, each by one. Two overlapping wrong
  codes count as one attempt; no property bounds the attempts.
- **Conversation.** A confirm compares the expiry with the clock it read before it
  waited for the row, so a call that came in time may consume a confirmation after it
  has expired; one that came too late never does (`LateNeverDeletes`).
- **Reminder.** An accepted send whose record was lost (`send.go:161`) is sent again by
  the retry, although the comment on the handler (`send.go:56`) says that retried
  executions never send twice. `OnceUnlessUnrecorded` is what does hold.
  The revoke's cancels go to River's pool (`revoke.go:51`), outside the command's
  transaction. A rollback after them brings back the todo, the plan and the scheduled
  row, but the job stays cancelled and the reminder, though wanted, is never sent; the
  plan of the iteration calls the cancels "best-effort and never load-bearing"
  (`docs/superpowers/plans/2026-08-19-iter-0003-reliable-reminder-delivery.md:19`).
  `OnlyRollbackCostsJobs` says that nothing else does so. Of two webhook calls that
  both read a row without a receipt (`receipt.go:51`) the later write wins, although
  the handler says that the first receipt does (`receipt.go:23`); a stale receipt may
  also bring back a row that a revoke, itself with a stale copy, had suppressed.
  `FirstReceiptStands` says when a verdict is safe.

## 6. What is not modelled, and what is left

- Worker health: heartbeats feed a status page and the readiness answer; nothing
  decides by them, and a stopped Worker is, to all models, an execution that dies.
- Sync runs and idempotency records: each is one row that one statement guards.
- Archives, the canonical encoding of fingerprints, and configuration: pure
  conversions without state.
- The factors of a score (`scoring.go`, `indicators.go`, `financials.go`): numeric
  code over floating-point series; the scores' classes are inputs of `Backtest`.
- Providers, market-data clients, the model, HTTP, migrations and the web
  application: input and output; where they can fail, the models let them.
- Of `PaperAccount`: the choice of the quantity matched within the risk limits
  (`RiskRules` has them) and the versions callers compare, which only refuse.

What would come next, in this order: the proof of `CurveHonest`, which needs the lemmas
of `PaperAccountProofs` about a replay (moved to `AccountBookProofs`) and three
assumptions on the market's data: splits of one instrument lie apart, no action takes
effect exactly at a close, and signals name instruments of the universe only; and an
abstract ledger, with events applied in their effective order, which `PaperAccount`
implements when no split arrives after trades of its own session.
