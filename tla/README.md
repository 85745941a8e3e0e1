# A verification project for the AI CIO trading tools

The repository (`robinhood_tools/`, `scripts/`) researches stocks and options,
asks for or grants itself authorisation, places orders at a paper or live
broker, watches positions, and reports over Slack. Its state lives in one SQLite
file that several processes share, in files under `outputs/`, at the broker and
in Slack threads. No process is in charge: command-line calls, scheduled
sessions, guards, a webhook and monitors meet only in the database and at the
broker, and each of them may die between two writes. This directory models the
parts of the system where that matters, checks them with TLC and proves the
central results with TLAPS.

## Inventory

| Component | State it keeps | Operations | Interacts with | What makes it hard, what makes it correct |
|---|---|---|---|---|
| Approval ledger (`database.py`) | table `approvals`: status, fingerprint, review ID, expiry | create, approve, reject, reserve, mark executed, mark reconciliation required, reconcile | every flow that places orders | racing writers, lapsing rows, late writes; an approval authorises one order, once, as reviewed |
| Order placement (`service.py`, `workflow.py`, `paper_flow.py`, `options_flow.py`) | the arguments of a running call | prepare, approve, guard, reserve, submit, record | ledger, broker, kill switch | lost answers and deaths between submit and record; no second submission, no row left behind |
| Fills and reconciliation (`reconciliation.py`, `operations.py`, `alpaca_paper.py`) | table `order_fills` | poll, record, cancel, compare | broker, daily review | pollers that race, a page that forgets; results are whole, fills count once |
| Broker backends (`alpaca_paper.py`, `alpaca_options.py`, `mcp_backend.py`) | none; the broker's book | review, place, look up, cancel | service | client order IDs that are shared, answers that never come |
| Slack replies (`slack_replies.py`, `operations.py`) | tables `slack_reply_windows`, `processed_slack_messages` | open, claim, transition, answer, resolve, expire, clean up, resume, claim and mark by hand | ledger, Slack, operator | several monitors on one thread, stale claims, failing calls; a NO stands, an amount is reported once |
| Daily review (`orchestrator.py`, `daily_controls.py`) | `daily_runs`, checkpoints, shadow recommendations, review states | claim, preflight, screen, record, decide, complete, fail | lifecycle, learning, drift check, host callbacks | resumption by another process; one summary, a whole record |
| Watchdogs (`cli.py watchdog`, `standalone_watchdog.py`, `notify.py`) | `health_alerts`, state files | check, claim, send, store | daily review, Slack | lost messages and answers, deaths with a claim; a missed review is reported, nothing is told twice |
| Trade lifecycle (`paper_autonomy.py`, `workflow.py`) | table `trade_lifecycles`, leases | begin, attach, open, sell-pending, close, lease | placement, daily review, the account's other flows | racing sessions, late fills, leases that expire, positions that others trade; the row follows the task's own orders |
| Pre-trade rules (`risk.py`, `risk_engine.py`, `policy.py`, `universe.py`, `safety.py`, `paper_autonomy.py`) | none; a portfolio somebody read | validate | placement | rules evaluated on what was true earlier; limits hold up to the sessions in flight, the engine mirrors the path |
| Share desk (`paper_position_guard.py`, `overnight_pilot.py`, `alert_webhook.py`) | JSON files under `outputs/` | evaluate, place, save | placement, broker | files written after orders, passes ended by an error; stops are offered, entries are on file |
| Options desk (`options_guard.py`, `options_pilot.py`, option leg of the session) | a JSON file | scout, count, buy, guard | placement, broker | equal orders share a client order ID; last days are offered |
| Desk debate (`agents.py`, `tradingagents_paper_auto.py`, and the two pilots that write the same tables) | tables of candidates, opinions, risk decisions | record, judge, check, settle, trade; propose, order, approve | risk engine, session, broker | ten transactions that may break off, writers that ask no judge; the tables tell how a candidate was decided |
| Learning checkpoints (`learn_from_trades.py`) | `learning_checkpoints`, `strategy_observations` | schedule, observe, complete | lifecycle, daily review | overlapping sessions; observations are accounted for |
| Research governance (`research.py`, `governance.py`, `replay.py`) | experiments, runs, decisions | register, run, transition, record | learning | runs that arrive while status moves; acceptance is earned, decisions replay |
| Tax lots (`portfolio.py`, `accounting.py`) | none | rank, allocate | reporting | order and boundary; a sale is covered, losses first |
| Simulated broker (`sim_broker.py`) | cash, holdings, brackets, orders per review | review, place, cancel, mark, settle | service | partial failure of a loop; cash and holdings balance |
| Signals, settings, CLI, reporting, dashboards, offline tools | configuration, rendered files | read and render | all | no property of a protocol |

`PROJECT.json` lists every component with its sources and what is modelled of
it, and the hazards of the code at their lines.

## Modules

| Module | Models |
|---|---|
| `ApprovalLedger` | the `approvals` table: one operator per transaction, with its guard, used by the modules below |
| `SingleUseAuthorization` | what the ledger promises: a request is granted or refused once, a grant is consumed at most once, and only a consumed grant is submitted, once |
| `OrderSpine` | placement from review to settled row, over `ApprovalLedger`, with the broker, operator, kill switch, clock and crashes; implements `SingleUseAuthorization` |
| `ReplyWindows` | reply windows, claims, monitors and the operator's commands over `ApprovalLedger` |
| `DailyRun` | `run_daily`: claim, nine checkpoints and rows, resumption, completion |
| `Watchdogs` | the three programs that tell a person what happened, over the day's row, their files and Slack |
| `TradeLifecycle` | the lifecycle row, entry, exit and monitoring sessions, leases, the position at the broker with the other flows that trade it, and the drift check |
| `FillLedger` | executions, the broker's page of fills, pollers, cancellations |
| `LearningLoop` | checkpoints and the sessions that turn them into observations |
| `ResearchLedger` | experiments, runs, acceptance, decision records and their replay |
| `TaxLots` | ranking and allocation of lots |
| `SimBroker` | `SimulationBroker`: cash, holdings, orders per review, brackets, settlement |
| `EntryRules` | the rules of the executor, the workflow and the risk engine, and sessions that evaluate them on what they read |
| `DeskShares` | guard, overnight pilot, webhook and session over the shares of one paper account |
| `DeskOptions` | two buyers and the guard over its option contracts |
| `DeskDebate` | the desk's debate, the session that trades on it, and the programs that approve candidates of their own |
| `OrderSpineProofs`, `ReplyWindowsProofs`, `TradeLifecycleProofs`, `FillLedgerProofs` | theorems about the module of that name |
| `DailyRunProofs` | theorems about `DailyRun`, `Watchdogs` and `DeskShares`, and about `MCDailyRun`, their composition |
| `LearningLoopProofs` | theorems about `LearningLoop`, `ResearchLedger` and `TaxLots`, and about `MCTradeLifecycle` (with `TradeLifecycleProofs` and `FillLedgerProofs`) |
| `DeskProofs` | theorems about `SimBroker`, `EntryRules`, `DeskOptions` and `DeskDebate`, and about `MCSimBroker`, their composition |
| `SumTheorems` | what a sum over a finite set is, for the two modules before |
| `MC...` | small instances for TLC |

### How the models correspond to the code

*A transaction is a step.* `CioDatabase` opens a connection per call, and every
method is one SQLite transaction, so every method is one action (or one operator
inside an action). Python code between two calls that touches nothing shared is
merged with the call that follows. A call to the broker or to Slack is a step
with its outcomes: answered, refused, or taken with the answer lost.

*Rows.* Identifiers are model values: an approval and the broker review it was
created from have one name, because the review ID is minted per review and
unique. The fingerprint of an order is the order itself. A row that was not
written is `absent`, `none` or `None`.

*Time.* No clock is modelled. `expires_at`, the thirty minutes of a daily run,
the thirty seconds of a claim, the ten minutes of a window and the five minutes
of a lease are single steps that may happen whenever the row is in the state in
which the code compares the time (`Lapse`, `RowAges`, `ClaimAges`,
`WindowLapses`, `LeaseExpires`). `status = "expired"` is never stored: `_expire`
writes it in the transaction that the raised exception rolls back, so the model
keeps the row's status and a separate flag that its time is over. The desks have
the parts of a trading day as phases, because their windows differ.

*Deaths.* `Crash` ends a call between any two of its steps. It also stands for
the database write that fails after the broker took an order.

*Reconciliation.* `CioWorkflow.reconcile` is given an order by its caller; the
model assumes that the host found it by the client order ID, which is what
`docs/trade_lifecycle.md` tells it to do.

*Several components in one run.* `MCDailyRun`, `MCTradeLifecycle` and
`MCSimBroker` put components that share no state side by side. A behaviour
follows one of them (`side` says which), so their states add up and do not
multiply; each component's specification is used as it is.

*OrderSpine.* A worker's `pc` walks create, approve, reserve, submit, and then
accepted or uncertain. `BeginReview` covers `prepare_purchase`,
`place_signal_order` and `place_long_option` up to the review, `BeginExecute`
covers `execute_approved` with arbitrary arguments, so that a wrong review or a
changed request is tried. `ClientKey` keeps the difference between equity orders
(the ID hashes the review) and option orders (the ID hashes the order only).

*ReplyWindows.* A monitor polls, claims the oldest reply it may claim, makes the
transition, answers, marks, and decides what to return. Windows are watched one
after the other after a restart (`Resume`), as in `resume_open_slack_monitors`;
an error ends the loop (`Dies`). The operator's commands work on the same tables
outside any monitor: `expire` and `clean`, `process-slack-reply`, which claims a
reply and answers nothing (`OperatorClaims`), and `mark-slack-reply-acknowledged`,
which marks a reply that no monitor may have seen (`OperatorMarks`). What was
marked by hand is in the history variable `byHand`.

*DailyRun.* The orchestrator's calls in their order. The freshness manifest and
the drift check are one pass-or-raise choice here. The screen may answer
differently every time it runs. Follow-ups are scheduled only if the host passes
due dates (`DueDates`; the CLI passes none). A screen
is reduced to the best qualified symbol and the best eligible one, which is what
the decision reads.

*Watchdogs.* The review is reduced to its row, which `DailyRun` details. A
message may arrive with its answer lost, so `AlertArrives` may end in a failure
on record. `notify.py` writes its snapshot before it sends; a change is told by
the message whose two snapshots it lies between.

*TradeLifecycle.* Placing is one step, since `OrderSpine` models its inside; its
outcomes are filled, accepted or uncertain (both leave a live order and a
session that ends) and refused. Conditional updates are `Move`. Lots stand for
shares, so that a sale may be partial. The position guard, the webhook, the
overnight pilot and bracket exits trade the same account and never look at a
row: `TradeElsewhere` sets a symbol's lots to any number up to `MaxHeld`, and the
history variable `elsewhere` keeps their balance. A filled sale is reported by the
host for any row that awaits one: the code checks its side and state, not its
symbol. The drift check is two steps, since the host reads the positions first
and the rows are read later (`TakeSnapshot`, `ComparePositions`). Its other
halves ask whether an order, a fill or an event of the snapshot is in a table
that only grows; nothing can interleave badly there, and they are left out.

*FillLedger.* An order is executed lot by lot; `tape` is the account's history,
of which the broker lists the last `PageSize` entries. A poller reads the order,
then the page, then records one fill per step, newest first, as the page has
them. `Foreign` orders were placed by hand: nobody polls them, but they fill the
page. `outcome.fit` records whether the page still
held all of the order, which is the only assumption of `TerminalResultIsWhole`.

*LearningLoop.* The due rows are read once and settled in the order of their due
dates. Shadow ideas have no approval, so `FindFills` is never enabled for them
(`db.get` raises and the row is skipped), while a resumed review schedules theirs
again, which replaces the row.

*ResearchLedger.* The IDs are digests, so what an ID stands for (`about`) is
chosen at the start and never changes. `MaxCount` observations and two runs are
enough to have acceptance earned by one run, by both, or by neither.

*TaxLots.* The loop is written as the rank order and what the earlier lots leave.
A sale takes from a lot what the lots before it leave of the quantity.

*SimBroker.* One object in one process, so every method is a step and nothing
interleaves inside one; the loop of `update_marks` is a fold over the brackets,
oldest first, that stops where the code raises. Prices are ticks and money is
ticks divided by `Scale`, so that a slippage is exact. A placement is accepted
for a review ID the object does not know, as in the code, whose memory of
reviews is lost with the process while an approval keeps its review ID. A notional
order has no lots: the review estimates its shares, the fill moves none
(`sim_broker.py:165`). Quotes are never removed, so settlement always finds one.
The proceeds of an exit that is then refused are kept apart in `stray`:
`update_marks` credits them before it looks at the holding, and `BooksBalance`
says that this is the only money no record explains.

*EntryRules.* A proposal is a record of what the rules tell apart; the instance
has one good proposal, and every one that is off in a single field, each in all
the ways the code distinguishes. The portfolio is read in one step and judged in
a later one, because the code takes it as an argument. No code of the package
builds a `PortfolioState` from the ledger; `Portfolio` is what a faithful host
would hand over. Weights and dollar limits coincide over one equity, and losses
of the day and the week are left out.

*DeskShares.* Placement is one step (`Refused`, `Sold`, `SaleRaises`), because
`OrderSpine` models its inside; what the callers tell apart is kept: a
`PolicyViolation` leads to the next position, an error of the connector ends the
pass. The broker sets aside the shares of a resting sale and answers 403 to a
sale of more than is left. Shares bought with a bracket are set aside by its
exits as soon as they are bought (`braced`). The guard's peaks are written as the
code writes them: a share without a peak never gets one. `owed` and `lost` are
history variables of the pilot's purchases. An entry is lost when the pilot dies
after its order, or when an error after it is caught, which leads to the next
ticker (`SaveEntry`).

*DeskOptions.* A client order ID is the order itself, and the broker refuses one
it has seen on any day. The guard looks for `first_seen` where its file does not
have it, so it holds no state from an earlier pass and never decides `STALE`.
`offered`, `excused` and `unread` record what a day's passes did. A quote that
cannot be read (the contract's own, its underlying's, or the one a closing order
asks for) raises a `PolicyViolation` that the loop catches: the contract is
skipped, and the pass goes on. A count of positions that
fails counts none, and the session's option leg ignores `max_contracts`, as in
the code.

*DeskDebate.* Opinions, judge, status, risk decision and status again are one
step each; an update names the candidate and asks for nothing else, so what
separates two analyses is that the ID is inserted once. `SignalInput` computes
the made-up counterweight of `desk_input_from_signal`. Three programs write
candidates of their own without asking the desk: the overnight pilot, the options
pilot and the session's option leg record one opinion, send their order, and mark
the candidate approved (`ProgramNext`). A candidate's `source` is that of its
payload; `ordered` are those whose purchase the broker took, whether or not the
program learnt of it. The first two may propose whenever they run, the option leg
only in a session whose debate agreed.

## Runs

| Run | Asks | Result |
|---|---|---|
| `order_spine` | Is an order ever sent twice, or not as reviewed? Does the ledger cover the broker, do verdicts stand, does the path implement single-use authorisation? | holds |
| `order_spine_fair` | Is every reservation settled? | holds, unless the worker dies |
| `kill_switch` | Does the emergency stop block placements immediately? | no: a running call does not read it again |
| `crash_recovery` | Is every placement that a death interrupted listed for recovery? | no: only `reconciliation_required` rows are |
| `reply_windows` | Does an answered NO stand, do closed windows carry no authority, is a reply answered once, is no amount lost, whatever the operator claims or marks by hand? | holds |
| `reply_windows_fair` | Does a live monitor close its window? | holds |
| `silent_window` | Is an approval rejected when nobody answers? | no: not after a restart beyond the ten minutes |
| `daily_run` | Review: one summary, a whole record, changes since another day, no review left running. Watchdogs: a missed review is reported, alerts and notices are honest. Shares: what the pilot bought is on its file, and a position at its stop is offered for sale | holds; the review's part when no live review outlasts thirty minutes |
| `daily_overlap` | One summary also when it does? | no |
| `trade_lifecycle` | Lifecycle: one buy and one sale per task, an open task stands for its whole entry apart from what other flows traded, a clean drift check stays true of the symbols nobody else traded, one monitor. Fills: terminal results are whole, fills count once. Learning: observations are accounted for. Research: acceptance is earned, decisions replay. Lots: a sale is covered, losses first | holds |
| `late_fill` | Is a filled buy always managed? | no: not when it fills after the call returned |
| `sim_broker` | Simulator: cash follows from orders, exits and settlements, touched brackets exit. Options: last days are offered. Rules: limits hold up to the sessions in flight, the engine is stricter than the executor. Debate: the tables tell how a candidate was decided, by the desk or by a program | holds; the simulator's books apart from the proceeds of refused exits |

The negative results are recorded under `findings` with the sentence of the
documentation that each contradicts.

What the positive results say is as precise as the code allows, and some of them
are weaker than one would wish:

- `LimitsHoldUpToSessions`: the limits are not limits of the account. Each
  session but one may exceed them by a purchase, and the daily capital also by
  what was pending when it was judged.
- `EngineIsStricter`: true of a proposal whose spread is known. The engine passes
  one without a spread, which the executor refuses.
- `StopsAreOffered`: about the fixed stop. It rests on the broker ending its
  orders with the day, since a pass may die at the same share all day long.
- `LastDaysAreOffered`: an ask of an earlier day at the same bid is an excuse,
  since the broker has seen its client order ID, and so is a quote that a pass of
  the day could not read.
- `EntriesAreOnFile`: apart from a pilot that dies, or catches an error, between
  order and file.
- `AmountsAreReported`: of amounts that the operator did not mark by hand. A reply
  the operator claims is taken over when the claim has aged.
- `OpenIsBacked`: what is held may be anything once another flow trades the
  symbol; the row is then right about the task's own orders only.
- `VerdictsAreOnRecord`: an approved candidate has the judge's verdict only if it
  is the desk's. A program's own has an opinion and an order; an option leg's has
  the session's approved debate beside it.
- `ObservationsAreAccounted`: a death between observation and completion does
  count an outcome twice; nothing else does.
- `TerminalResultIsWhole`: of orders whose fills still fit the broker's page.

### Bounds

- `order_spine`: two workers, two approvals, two orders, one of them an option
  order. A double submission needs two workers on one approval; sharing a client
  order ID needs two approvals of one option order; a swapped request needs two
  orders. Workers and approvals are permuted by symmetry; the liveness run uses
  none.
- `reply_windows`: one approval, two monitors, two replies (`MaxReplies`) and one
  aged claim (`MaxAges`): a NO and an amount in either order, two monitors on one
  reply, one take-over. `reply_windows_fair` has two approvals and one monitor,
  so that one process works through two windows, and one reply.
- `daily_run`, review: two processes, of which each may start again after it
  ended or died, so that any number of resumptions follow each other, and two
  symbols. `Prompt` and `DueDates` are TRUE; `daily_overlap` sets both to FALSE,
  and the proofs hold for either value of `DueDates`.
- `daily_run`, watchdogs: two watchers and two deaths (`MaxCrashes`), so that one
  dies with the claim and the next after sending; two changes (`MaxChanges`), so
  that one message can tell one or both.
- `daily_run`, shares: two shares, so that the guard can fail at the first; two
  prices, on either side of the stop of a purchase at four; a lot (`MaxLots`), a
  fault (`MaxFaults`), an alert (`MaxAlerts`), a session (`MaxRuns`) and a
  cooldown (`MaxCooling`). Each of the webhook, the pilot and the session trades
  beside the guard. The bounds on alerts, sessions, faults and cooldowns also
  state an assumption of the liveness result: a webhook that places its sale
  before the guard every morning for ever keeps a stop from the guard, though it
  then has offered the share itself.
- `trade_lifecycle`: one symbol (rows of different symbols never touch), three
  workers, four session runs, two lots. With other flows and the drift check
  (`side = "shared"`) two workers and three runs, since three would only repeat
  the races of the run without them; other flows leave none or one lot
  (`MaxHeld`), fewer than an entry buys. Fills: two pollers, one polled order of
  two lots and a foreign one on a page of two, so that the page overflows; two
  attempts. Learning: two sessions, a trade
  and a shadow idea, two days, one session lost per checkpoint (`MaxLost`).
  Research: two experiments, two runs, up to two observations. Lots: two of up to
  two shares.
- `sim_broker`, simulator: one share, one contract, three orders (two bracketed
  entries and the sale that uncovers one of them), three marks, of which one is
  outside the day's range for a fill, two quotes, one with a bid of zero, and one
  refused exit (`MaxStray`); cash for some orders, not for all.
- `sim_broker`, options: two contracts that expire a day apart, two buyers, a bid
  of zero and one of two, days 0 to 2 (`LastDay`), one fault (`MaxBroken`).
- `sim_broker`, rules: two sessions with a good proposal through either path
  (`limits`), and one session with every perturbed proposal (`rules`); four
  authorisations (`MaxRows`).
- `sim_broker`, debate: two processes, two candidates, the five signals and
  eight debates of a host, on both sides of the red flag of 70; with two candidates
  an option leg's stands beside the debate that led to it.

No counter is cut off by a constraint: an exhausted bound disables only the
action that would use another unit. Deadlock is not checked: every one of these
systems may come to rest (all approvals used, the review closed, the position
sold).

### Fairness

A call that has started runs on until it returns, raises or dies: the functions
are straight-line Python whose network calls have timeouts. This is weak
fairness of a worker's own steps, and all that `ReservationSettles` and
`RunSettles` assume. `MonitorsCloseWindows` assumes in addition that ten minutes
and the monitor's `timeout_seconds` pass (strong fairness of `ReturnTimedOut`,
which is enabled between any two polls). `MissedRunIsReported` assumes that the
timer starts the watchdogs (weak fairness of their steps) and that Slack takes a
message that is sent often enough (strong fairness of `AlertArrives`).
`StopsAreOffered` assumes that the guard's timer fires and its pass goes on, that
a pilot session goes on, that a cooldown ends with its date, and that the clock
goes on (`NextPhase`, which lets no phase of the session by without a pass, the
timer being shorter than any of them). Nobody has to answer, approve, start or
restart anything, and no order has to fill. Only `silent_window` adds that a dead
process is restarted, which makes its negative result stronger.

## Proofs

The theorems hold for every number of workers, approvals, orders, processes,
monitors, replies, pollers, sessions and symbols, and of every bound.

`OrderSpineProofs`. `SingleSubmission` alone is not inductive: that a worker is
about to submit says nothing about the row. The inductive invariant adds that a
worker between reservation and outcome holds a row in `executing` which it alone
holds, that submission counts are zero before and one after the broker call, and
what the wire carries at each step. From it follow `SubmittedOnce`,
`SubmittedUnchanged`, `LedgerCovers`, `ReservedRowsHaveWorkers`, the action
property `VerdictsStand`, and `SpineKeepsPromise`: every initial state maps to
an initial state of `SingleUseAuthorization` and every step to a step or a
stutter. Assumptions: `OptionOrder` is a set of orders; `NoOrder` and `NoCall`
are neither orders nor calls.

`ReplyWindowsProofs`. A monitor acts on what it read some steps ago, so the
inductive invariant says what it still knows: the reply in its hands belongs to
the thread it watches, a NO it has acted on has closed the row and the window,
and a NO it has seen finds the window no longer open (`Knowing`). Replies belong
to opened windows and opened windows to written rows (`Threads`). For
`AnsweredOnce` it counts: the answers of a reply and the monitors that still owe
one are at most the claims handed out, and a second claim takes one that grew
old (`AnswersAreClaimed`), the operator's among them. From it follow `RepliesTypeCorrect`,
`AnsweredNoIsKept`, `ClosedWindowsAreSpent`, `AmountsStayReported` and
`AnsweredOnceEach`. Assumption: approvals and monitors are finite
(`FiniteAssumption`).

`DailyRunProofs`. `TypeCorrect` needs no assumption on time. The rest is proved
under `Prompt`: a row ages only while no process is inside the review. The
inductive invariant says that at most one process is inside and only while the
row is running (`Exclusive`), that the number of summaries is one exactly when
the row says completed (`Counted`), how much of the record is written at each
step, by whomever (`Progress`), and that comparing the date with itself means
that somebody died (`Echo`). From it follow `SummaryOnce`, `CompletedIsWhole`,
`ChangesAreSinceYesterday`, `ScreenIsReused` and `ClosedRunsStand`. The run
`daily_overlap` shows that `Prompt` is needed.

*Watchdogs.* An alert that a watcher is about to mark as sent has arrived
(`SentMeansReported`), and no change beyond the saved snapshot, or beyond the
earlier one while a message is under way, has been told (`NothingToldAhead`).
From it follows `MessagesStayHonest`, of the specification without fairness.

*DeskShares.* The invariant keeps the broker's books (`BooksKept`: what is offered
for sale is held, what is braced is wanted, a share that is owed has a position
or a purchase) and follows the pilot's copy of its file (`PilotKnows`): while it
enters, the copy is the file; while it exits, every share it owes is on the copy
or still to be seen, unless it was lost to a death. That nothing rests to be
bought before the market opens (`NothingAwaited`) is what lets the exit session
treat a share without a position as settled. From it follow `DeskTypesHold` and
`EntriesStayOnFile`.

`TradeLifecycleProofs`. The conditional update is what keeps a second order back,
so the invariant follows the claim it hands out: from the update until the order
is refused, an approval claims the symbol's entry or exit; there is at most one
claim of each side (`OneClaim`), the row knows which were handed out
(`RowKnows`), session runs have approvals of their own (`Distinct`), and until a
session sells, the entry and the balance of the other flows explain the position
(`Backed`). What a review saw stays true of symbols nobody else trades, since only
a session's own filled orders change them (`Reviewed`). From it follow
`LifecycleTypeCorrect`, `OneOfEach`, `OpenTasksAreBacked` and `CleanReviewsLast`. `OneMonitorEach` is
proved under `Prompt`, that a lease outlasts the evaluation it covers.

`FillLedgerProofs`. The invariant says what a poller knows at each step: a
terminal status was read of an order that is over, an order that is over has no
more executions, so the page and the ledger together hold all of them if the page
did when it was read (`Known`). The lots executed are a prefix of the order's
(`Executed`), which takes lemmas on sequences and cardinalities. From it follow
`FillTypeCorrect`, `TerminalResultsAreWhole` and `FillsCountOnce`, for a page of
any size.

`LearningLoopProofs`. `ObservationsAreAccounted` is inductive together with the
types and `ShadowsStayOpen`; the proof is about how `Pending` changes by one
session. From it follow `ObservationsExplained` and `ShadowsAreNeverDone`.
Assumption: the sessions are finite (`LearningAssumption`).

*ResearchLedger.* `AcceptedIsEarned` compares a status with a sum over runs that
keep arriving, so the invariant adds what registration asked for (`Registered`)
and the proof shows that a run that arrives only adds to the sum. From it follow
`ResearchTypesHold`, `AcceptanceIsEarned` and `RecordedDecisionsReplay`.

*TaxLots.* The rank is a strict total order (`RankIsTotal`). The lots that come
first of all give, together, all they have or all the sale wants
(`FirstLotsGive`), by induction over such sets of lots: a smallest one that does
not is led to a contradiction at its last lot. From it follows
`SalesAreCovered`, for any number of lots.

`SumTheorems`. A sum over a set is a fold, which is a recursive function over the
subsets of a set. What it computes is shown without the library's induction
theorems (they take an operator as a parameter): the strict subsets of a finite
set are well founded, so a claim that fails for some set fails for a smallest
one, and there the fold can be unfolded once. From it follow how a sum changes
with one value, grows, splits, skips zeros, and counts.

`DeskProofs`. *EntryRules.* `EngineMirrorsExecutor` follows rule by rule from the
two definitions and the shape of proposals. `LimitsBend` needs an invariant that
counts the sessions that have read a portfolio and not yet written: what pends,
and the sessions that still hope to add to it, stay within the limit and one for
each further session; what is committed, what pends, and what sessions have in
mind (`InMind`) stay within the day's dollars and one order per row that may pend
(`RoomLeft`). A row that sessions hold is on the ledger once for each of them
(`RowsAreThere`), since two sessions may write equal rows and a person may move
one of them. `RulesTypesHold` adds the number of rows. Assumption: sessions are
finite in number, and there is one (`RulesAssumption`).

*DeskDebate.* A candidate is in the hands of one analysis at most; what such an
analysis has left to write says what is on record already (`Recorded`), so that
the verdict it writes last is what the rule makes of all the opinions. What a
program has on record of its candidate is kept likewise (`OwnRow`, `JobFine`), and
since nobody writes to a candidate that is approved, the debate behind an option
leg stays (`BackedStays`). From it follow `DebatesAreOnRecord` and `DebateTypesHold`.

*DeskOptions.* A purchase rests only of a contract far from its last days
(`AsksFine`, `BuyersFine`), so nothing that fills today ends today; what ends and
is held is still before the pass or has been dealt with (`PassFine`). From it
follow `LastDaysAreCovered` and `OptionsTypesHold`, the latter because one sale
at most rests of a contract, of no more than is held.

*SimBroker.* The loop of `update_marks` is a fold over the book. `SweptTo` says
what it has made of the account after so many brackets, oldest first: cash has
grown by what the exits so far credited and by what was refused, only touched
brackets have left, and all of them unless an exit was refused; it is proved by
induction on the number of brackets. With it the invariant is that the book lists
every open bracket and none twice (`BookFine`), that orders are what their
placement says (`OrdersFine`), and that cash follows from orders, exits,
settlements and strays (`Balance`). From it
follow `BooksAlwaysBalance`, `BrokerTypesHold` and the action property
`TouchedBracketsLeave`. Assumptions: prices, fees and steps are numbers, and the
contracts are finite in number (`MarketAssumption`).

*The composed instances.* `MCDailyRun`, `MCTradeLifecycle` and `MCSimBroker` run
components that share no state side by side, one of them moving in a behaviour.
`DayIsItsParts`, `RecordsAreTheirParts` and `DeskIsItsParts` show that whatever
such a composition does, each of its components sees initial states and steps (or
stutters) of its own specification, for all values of the constants: what is
proved of a component holds in the composition, and what TLC finds there is a
behaviour of the component. `DayTypesHold`, `RecordTypesHold` and `DeskTypesKeep`
conclude the runs' `MCTypeOK`.

Every inductive invariant was model-checked on the small instances of the runs as
well. The steps of passes and scripts that read a list in order are modelled
with the set of what is left to do and the list's order (`ListedFirst`, `IsNext`,
`Lines`), about which the provers can reason as they cannot about `SelectSeq`.

Only model-checked: the liveness properties (`ReservationSettles`,
`MonitorsCloseWindows`, `RunSettles`, `MissedRunIsReported`, `StopsAreOffered`),
since liveness under fairness is outside the proof system's reach. Every
invariant and every action property that a passing run checks has its theorem.

## What is not modelled

Indicator arithmetic, contract ranking, `evaluate_exit`, language-model calls,
backtests, transport, parsing, rendering, logging and configuration: pure
computations or I/O without shared state. MCP routing and delivery rows, which no
decision reads. The values of prices and quantities, except lots and ticks. The
table `tradingview_learning_events`: entries schedule it and no program completes
it. `JsonApprovalStore` and `paper.py`, which only tests use. The desk server,
the dashboards and the offline tools, which read and render. Loss limits of the
day and the week, sector weights and the provenance of the constituent list.
`paper_flow` and `options_flow` keep no lifecycle row at all: in `TradeLifecycle`
what they trade is `TradeElsewhere`, which the drift check meets, and the desks'
own guards, which watch it, are in `DeskShares` and `DeskOptions`. Orders, fills
and events of the drift check (see above). Which contract or price a candidate of
`DeskDebate` names: its tables and the orders of `DeskShares` and `DeskOptions`
are separate models.

Hazards without a property are left so for a reason given with each of them in
`PROJECT.json`: the code does something a reader may not expect, no text of the
repository promises otherwise, and the models take the code as it is.
