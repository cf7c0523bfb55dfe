# Quant OS in TLA+

Quant OS is a modular monolith for daily trading: research data, a strategy that
produces target weights, a risk review, order intents, and execution adapters
(paper, shadow, live) around one order state machine, an operational SQL store
and a kill switch. Trading is synchronous; ingestion and backtests may run beside
each other and share files. What makes it hard is not so much the threads as the
points where the process, the database, the files and the exchange can part ways:
every store method is a transaction of its own, every network call can fail or
lose its answer, the exchange moves on between any two of them, and the process
can die anywhere.

## 1. Inventory

Paths are relative to `src/src/quant_os/`.

| component | state | operations | talks to |
|---|---|---|---|
| order state machine `execution/state_machine.py` | `_projections`, `_events`, `_fills` | `plan`, `transition`, `record_fill`, `hydrate_projection` | owned by each adapter |
| live execution `adapters/upbit_live.py`, `adapters/live.py` | state machine, intent and exchange-id maps, clock, portfolio | `submit_intent`, `cancel_order`, `sync_events`, `get_portfolio_state`, bootstrap from the store | exchange (REST), store, kill switch |
| operational store `db/store.py`, `db/schema.py` | tables `orders`, `order_events`, `fills`, `kill_switch_events`, ledgers, snapshots, runs | one transaction per method | all writers and the read API |
| kill switch `risk/kill_switch.py` | active events by reason, history | eight evaluations, `trigger`, `reset`, hydration | adapters, store, whoever holds a reconciliation result or a ledger snapshot |
| paper adapter `adapters/paper.py` | state machine, ledger, prices, event log | `submit_intent`, `cancel_order`, `sync_events` | ledger, store, kill switch |
| ledger projector `ledger/projector.py` | cash, lots, realised P&L, cash entries | `apply_fill_event`, `snapshot` | paper adapter |
| shadow adapter `adapters/shadow.py` | a paper adapter, a state machine of refusals, report lines | venue checks, then paper | store |
| reconciliation `reconciliation/service.py` | none | compare local with external state | store, kill switch |
| risk review, intents `risk/simple.py`, `intent/generator.py` | none | clip targets; targets to orders | backtester |
| backtester `backtest/simple.py` | cash, quantities, average costs, sums, curves | per day a decision, then one execution per intent | strategy, risk, intents |
| backtest runs `backtest/orchestrator.py`, `backtest/results.py` | `strategy_runs` row, artifact files, `latest.json` | run a request, save, finish | store, files |
| ingestion, research store `data_ingestion/`, `normalization/`, `research_store/` | raw archive, reports, quarantine, parquet datasets | ingest, validate, write, read | files |
| strategies `strategy/`, daily report `reporting/`, configuration, wiring, CLI, read API `api/`, front end | none | pure functions, formatting, construction | |

What is hard, and what makes each part correct:

* **State machine.** It is event-sourced: the projection must always be what its
  append-only events and fills say, no matter in which order calls arrive.
* **Live execution.** Crashes between two commits, failed writes, lost answers,
  executions racing cancels, polling that sees volumes skipped or repeated, two
  clocks. At most one order per intent, never an order forgotten by the store
  while it waits at the exchange, never more booked than executed, nothing sent
  while the kill switch is active, the switch surviving restarts, failing closed
  on network failures, and closed orders settled in the end.
* **Paper and ledger.** The books balance: cash and lots are what the fills say.
* **Backtest runs, ingestion.** Several files and rows that have to agree after a
  crash or with two runs at a time.
* **Kill switch, reconciliation.** What is tripped stays tripped until somebody
  resets it, through crashes, failed writes and resets that stop half-way; a match
  means that the process knows what the broker did.
* **Risk, intents, backtester.** Limits hold after rounding; no negative cash or
  position; no decision uses a price that is not known yet; the reported trades
  explain the reported result.

## 2. Modules

| module | models |
|---|---|
| `OrderStatuses` | the statuses and the transition table, shared |
| `OrderStateMachine` | `execution/state_machine.py`: any client calling any operation with any argument; calls that raise change nothing and are no actions |
| `OrderLifecycle` | what a client may rely on: the abstract life of an order; no source of its own |
| `OrderStateMachineProofs` | theorems about the two |
| `SumTheorems` | sums over finite sets and sequences: the lemmas that every proof about books cites |
| `UpbitLive` | the live adapter composed with its state machine, the store, the kill switch and the exchange |
| `UpbitLiveProofs` | what the live path keeps, what its tables say of each other, that it fails closed |
| `LedgerProjector` | `ledger/projector.py`: cash, lots, realised profit, cash entries; no `Next` of its own |
| `PaperTrading` | the paper adapter composed with its ledger, its state machine, the store, the kill switch, and the venue rules of the shadow adapter in front |
| `PaperTradingProofs` | an intent is executed at most once; cash, books and profit are what the fills say; executed orders are paid; the store is the books |
| `Ingestion` | `ingest_upbit_daily_bars`: fetched answer, archive, validation, quarantine, replacement of a dataset; no `Next` of its own |
| `BacktestRuns` | runs of `backtest/orchestrator.py` over the dataset, `strategy_runs`, artifact files and `latest.json`, composed with `Ingestion` |
| `BacktestRunsProofs` | what the catalogue of runs, `latest.json` and the dataset promise |
| `Decimals`, `PortfolioAnalytics` | the rounding of `domain/types.py`; portfolios, weights, dictionaries |
| `RiskReview` | `risk/simple.py`: the three clips and the fail-closed branch, as operators |
| `IntentGenerator` | `intent/generator.py`: targets to intents, as an operator |
| `DailyMomentum` | bars and markets; `strategy/momentum.py` as an operator |
| `Backtester` | `backtest/simple.py`, composed with the four above |
| `BacktesterProofs` | no decision looks ahead; nothing is short; trades, limits and drawdown |
| `KillSwitch` | `risk/kill_switch.py` over its table, in a process that dies and starts |
| `Reconciliation` | `reconciliation/service.py`, as an operator on two sides |
| `Controls` | kill switch and reconciler as `services/wiring.py` wires them, beside a live adapter, a ledger and an account |
| `KillSwitchProofs`, `ControlsProofs` | what the kill switch promises, alone and in the composition, and what a match of the reconciler means |
| `MCOrderStateMachine`, `MCUpbitLive`, `MCPaperTrading`, `MCBacktestRuns`, `MCBacktester`, `MCControls` | instances for TLC |

`Backtester` extends `DailyMomentum`, `RiskReview` and `IntentGenerator`, which
extend `PortfolioAnalytics`; `Controls` extends `KillSwitch` and
`Reconciliation`. `OrderStatuses` is extended by both adapters; `PaperTrading` extends
`LedgerProjector` and applies its operators when a fill arrives; `BacktestRuns`
extends `Ingestion` and puts the jobs into its own `Next`.

### OrderStateMachine

`projections`, `events`, `fills` are the three dictionaries of the class. `plan`,
`transition`, `record_fill` carry the parameters of the methods; a guard stands
for each `raise`. `hydrate_projection` only appears where there is a store, in
`UpbitLive`. The code rounds the quantity of a plan, and every sum of fills, to lots
of 0.0001, and keeps each fill as it came. So the quantities a caller passes are
integers, `Grain` to a lot, a projection holds whole lots, and `quantize` is the
rounding in between: an intent of less than half a lot is refused, a fill of less
than half a lot is stored and leaves the filled quantity where it was. Times are
integers chosen by the caller; they need not grow.

### OrderLifecycle and the refinement

An order is absent, preparing, sending, open, cancelling, in limbo, done or
closed. `ImplementsLifecycle` maps statuses to phases (`PhaseOf`) and says that
the state machine implements it.

### UpbitLive

One action is the code between two points where something else can happen: a
store transaction, a network call, a return. `ctl.pc` names the next such piece;
`Record` is the first half of `_record_order_event` (the event), `Upsert` its
second (the projection). A call starts at `pc = "idle"` (`Submit`,
`SubmitDuplicate`, `Cancel`, `Sync`, `GetPortfolioState`, `Reset`) and ends there,
with a result or an exception (`Raise`). Variables: the store's tables (`rows`,
`evts`, `sfills`, `killRows`), the process's memory (`mem`, `claimed`, `known`,
`clock`, `kill`), the exchange (`remote`), and the environment's bookkeeping
(`budget`, `trouble`).

Faults strike only while their budget lasts (`MaxFaults`): crash, failed store
transaction, failed network call (before or after the exchange acted; the ticker
among them), an HTTP error although the order was taken, a price that is missing
(of a limit order, so that its payload cannot be built, or of the answer a fill is
booked from), a cancel by somebody else or a state the adapter has no name for, a
cancel answered before it took effect, exchange time stamps ahead of the adapter's
clock, and time stamps the store returns without a zone. That the exchange's clock
is ahead is no rare event, since `_tick` adds a millisecond a call to the time the
adapter was built at; it is in the budget only so that runs can be had without it.
`trouble` says which calls failed since the call in progress began, by what they
were for: the properties about failing closed tell them apart.

A market buy (`Priced`) is sent as an amount of money, for which the adapter may have
to ask the ticker. The exchange may execute up to `Surplus` lots more than the
order's quantity, which `record_fill` refuses, or be done with less, and shows no
remaining volume. Any other order is done when its quantity is executed, and its
remaining volume is the rest.

Abstractions, all on the data side: order quantities are a few lots; the
exchange's states are `wait` (with `watch`), `done`, `cancel` and `other`; the
values of prices, fees and the portfolio are left out; time is reduced to the
three ways `last_event_at` can compare with the adapter's clock (`behind`,
`ahead`, `naive`), and a clock that was behind the exchange's does not catch up; the exchange id of an order is the order; the 500 orders that
bootstrap reads are all orders; the order in which `sync_events` meets the
exchange's orders and in which open orders are marked is arbitrary; clearing the
kill switch row by row is one step whose failure may leave any part done. An
adapter without a store, and one without a kill switch, are not modelled.

### LedgerProjector and PaperTrading

Amounts, prices and quantities are whole numbers of 1/`Scale`, rates of
1/`Rate`; `HalfUp` stands at every place where the code calls `quantize`, so the
books round as the code rounds. `BookBuy`, `BookSell`, `RefuseBuy` and
`RefuseSell` are the four outcomes of `apply_fill_event`; the last leaves the
emptied lots behind, as the code does when it raises.

`PaperTrading` cuts `submit_intent` where the store is written, as `UpbitLive`
does: `Submit` (venue rules, claim, first event), `Upsert`, `Advance` (the next
status), `RecordFill` (state machine, ledger, `append_fill`), `PutCash`,
`PutSnapshot`, `Settle`. `Lot_size` and `MinNotional` are the shadow adapter's
rules; 1 and 0 make it the paper adapter. `Restart` builds an adapter from the
initial portfolio, as the code does: nothing is read back but the kill switch.

Abstractions: the order and its fill are one record (an order has at most one
fill); a new id is any unused one, picked by `CHOOSE`; ids run out. The report
lines, market values and unrealised profit, which nothing reads back, and taxes,
which are always zero here, are left out, and so are the events in
`_event_log` other than the fills.

### Ingestion and BacktestRuns

Any number of jobs (`Jobs`) and runs (`Runs`) share one dataset, one
`strategy_runs` table and one `latest.json`: the API's worker threads ingest, the
command line ingests and runs backtests. One action is the code between two file
operations or transactions; `job[j].pc` and `run[r].pc` name the next one. A file
is the name of the job or run whose content it has, `NoFile` or `Torn`.

A job is a call: a market, the second it starts in (`_stamp` names its files
after it) and the exchange's answer, a sequence of candles that are sound,
refused by `_normalize_record`, or unreadable (a price that is no number raises
outside its handler). `UnlinkOld`, `StartCopy`, `FinishCopy` are `write_bars`;
`StartCopy` stands for opening the database and filling the temporary table too.
DuckDB's copy is external: while it runs the file is there but not whole, and two
copies to one path may leave either or part of either. A job that fails at a file,
or whose process dies there, may leave half of the file.

A run loads the dataset market by market, so a job may replace it in between; its
result is the set of markets it has found, which is all that the catalogue's
properties tell apart. `OpenTemporary`, `WriteTemporary` and `Rename` are
`_write_json(latest.json)`: all runs use the same temporary name, so a file is
known by the run that created it (`tmp` and `latest` say which file has which
name), a run goes on writing the file it has opened after another has renamed it,
and opening truncates. The run's own artifact goes through a temporary file no
other run uses and is one step. `overlap` is a history variable: some run has
opened a file another was writing. The row is started outside the `try` block.

The faults are a crash of one job or run, a failed file operation and a failed
transaction; besides, building or running the strategy may raise in any run
(`Simulate`). Left out: the filter by dates, the reasons of a refusal, the
contents of reports, and requests that are refused before a run has a row; and
the branch of `_fetch_payload_or_bars` (`data_ingestion/upbit.py:182-196`) for a
client that returns bars and no payload, which no code in the repository passes.

### RiskReview, IntentGenerator, DailyMomentum and Backtester

`Backtester` is one run: its market, strategy and settings are chosen in `Init`
and never change. A day is `Decide` (the valuation, `generate_targets`, `review`,
`diff_to_intents`), one `Execute` per intent (`Skip` or `Fill`, at the opening
price of the timeline's next day) and `CloseDay`; the last day is only valued
(`Finish`). A position, a review or an order that raises ends the run
(`phase = "raised"`): a cheap lot bought on a negative balance can leave an average cost
below zero, which `Position` refuses, or an order of a negative quantity. Amounts,
prices, quantities and weights are whole numbers of 1/`Scale`, rates of 1/`Rate`,
and every `quantize` and every `to_integral_value` of the code is a `HalfUp` or a
`RoundDown`. Rates have the bounds the settings have: commission, slippage and sell
tax none above. A list of targets or positions is the dictionary the code makes of it.

A strategy is `DailyMomentumStrategy` or a script, a list of targets for each day:
the backtester takes any object with `generate_targets`, and scripts reach targets
that momentum does not produce (short, beyond the limits, none).

Abstractions: a quotient is exact until it is rounded (the code has 28 digits),
and so is the mean of the closes (the code takes it of floats); a market has one
bar for a symbol and a day, as a dataset has; a symbol a strategy's universe names
twice is one symbol (`StrategyDefinition` does not forbid it, and the code would rank
it twice); `position_path`, a report of
quantities and prices that the run does not read, and the texts of rationales are
left out.

### KillSwitch, Reconciliation and Controls

`active` and `history` are `_active_by_reason` and `_history`, `kill_rows` is the
table. One action is the code up to the end of a transaction: `Reset`, one
`ClearNext` per event of the history, `FinishReset`. `Crash` forgets the memory;
`Start` is `_hydrate_from_store`, with the choice among equal times that the query
leaves open, and `StartUnread` the start against a database that does not answer.

`Reconciliation` compares two sides, records of cash, positions, orders and fills; an
issue is its code. The caller gives it the open orders (`OpenOrders`, the filter of
the shadow adapter); they are compared by `_order_key`, which has no price in it, as
sorted lists, so that what counts is how often each key occurs. A fill stands for its
key. `Controls` puts both beside orders and an account: an order is
stopped by the kill switch, refused, accepted or sent without an answer; it is executed
unit by unit, polled (`Sync`: whatever was executed since the last time is one fill,
which the ledger books or refuses), busted, or placed by hand; cash and positions move
by transfers. Every evaluation of the kill switch is there with its threshold. Nothing
in the repository calls most of them, nor `reconcile` outside the shadow adapter, so
`Controls` lets a caller make these calls at any moment, one at a time. A transfer is
any change of cash and positions but a purchase (cash goes, positions come and none
goes, `IsPurchase`): a trade at the broker is an order, placed by hand if need be.
`result` is a reconciliation whose evaluation is yet to come: when the row cannot be
appended `reconcile` raises and there is nothing to evaluate.

Abstractions: prices of a fill are those of its order and there are no fees; there
is one currency; messages, severities and details are left out;
`latest_reconciliation_result` orders by the later of two snapshot times and may
show either of two results of one instant, `latest` is the last one appended. That
a restarted process has its fills and books again supposes that its caller feeds
the ledger what `sync_events` returns; the instance has no crash once there are
orders. The adapter's own failures are in `UpbitLive`.

## 3. Runs

| run | what it asks | instance |
|---|---|---|
| `order_state_machine` | do projections follow from events and fills, does the machine implement `OrderLifecycle` | 1 order; 4 units to a lot; 3 intents (of two lots, one and a quarter, and a quarter); 2 fills of minus a lot, a quarter, a half or a lot; 3 times, 1 exchange id |
| `upbit_faults` | which safety properties survive which faults | 2 orders, 1 intent by money, 2 lots which may buy 3, eight faults (all but `external`) once each, at most three in a behaviour |
| `upbit_polling` | does polling settle the closed orders, all of them | 2 orders, 2 intents, 2 lots, external and ahead once each, fair scheduling |
| `paper` | do cash, lots, fills and the store stay together, and is an intent executed once | 3 orders; three trades (a buy that only a sale can pay for, sales from one and two lots) or three refusals; 4 policies (full, 55%, 3%, uncertain); one crash, one failed write |
| `paper_oversell` | the same position sold twice | 2 orders, no faults |
| `research` | do dataset, archive, rows, artifacts and `latest.json` stay together | 2 jobs in 6 calls (2 markets, 2 seconds, answers that are good, empty, unreadable, refused or repeat a day), 2 runs over both markets, one crash, one file error, one failed write |
| `research_lost_data` | a dataset is ingested again and a file operation fails | 2 jobs, 1 run, one file error |
| `backtester` | do decisions use only the past, do trades explain the books, do the limits hold | 2 symbols; 3 days under 25 scripts, 7 days under momentum; two settings (free and costly; tight limits and coarse lots), 20 penny portfolios, lots cheaper than a unit of money, a crash of the market, a slippage of the whole price and of more |
| `controls` | do memory and store of the kill switch agree, what lifts a trip, what a match means | 8 reasons, 3 event ids, 2 times, one crash, one failed write, one unread start; 3 orders (one of 2 units, one by hand), 3 transfers |
| `controls_unread_start` | a start while the database does not answer | the same |
| `upbit_lost_submit`, `upbit_cancel_race` | statements of the documents that the code does not keep, as `paper_oversell`, `research_lost_data` and `controls_unread_start` are | 1 order, at most one fault |

Why the bounds suffice. One order of the state machine never reads another, so
one order shows every behaviour of an order; two intents tell a fill of the wrong
intent, the third one is no lot at all; a quantity of two lots is what partial fills
need, and quarters of a lot are rounded down, and at the half up; three time stamps
tell earlier, equal and later apart twice. In `UpbitLive` orders meet only through the
unique intent, the shared kill switch and the sync loop: two of each show every
pairwise interaction. The constraint `FewFaults` keeps behaviours with at most three
faults, so that any three different ones of the eight are combined, in any order and at
any point; more than three, and the same fault twice, are left to the theorems. Orders by money are the
larger case, since the exchange may be done with them at any quantity; a cancel by
somebody else, orders by quantity and `CANCELLED_PARTIAL` are met in `upbit_polling`,
which checks the liveness property only. That run has orders of two lots that are
filled in parts, both cancelled by hand and with the exchange's clock ahead; it has no
network failure, crash, failed write, missing price, order by money or time stamp
without a zone, and the property is not claimed through these.

In `paper`, three orders are a buy and two sales, the shortest sequence in which
one sale takes from two lots and one can be for more than is left; tenths and
percents make every rounding of the code round something. The constraint
`OneSubject` keeps the trades and the refusals in separate behaviours: they share
no state but the kill switch and the ids.

In `research`, two jobs are a writer and one that replaces its dataset, or two at
once; two runs are the least that can share a temporary file, and a job beside
them the least that can take the dataset from under a reader. Jobs and runs are
symmetric; the run has no liveness property.

In `backtester`, two symbols are what the sharing of cash, the ranking of signals
and the scaling of weights need; three days are the shortest run with a decision
that starts from holdings; seven are the lookbacks 2, 3 and 5 and two more.
Hundredths and percents make every rounding round, and the pennies make a rounding
worth a whole unit of money.

In `controls` the constraint `Families` keeps two kinds of behaviour apart, since
their product is large and they meet in nothing but the reasons that are active:
crashes, faults and resets on a quiet account, with two reasons that do not depend
on it, and trading without faults, with one trip of any other reason and its reset.
Three event ids are two trips and one more after a reset or an unread start. The
tolerances are one unit of money below a trade and none for positions.

The runs of the state machine, the paper adapter, the backtests, the backtester
and the controls turn deadlock checking off: with finitely many days, times, fills,
ids, jobs and runs the calls run out. Everywhere else
deadlock is checked.

**Fairness** (`FairSpec`). A call in progress goes on (the HTTP transport has a
timeout, the store answers or raises): weak fairness of `Step`. A dead process is
started again: weak fairness of `Restart`. The process's owner polls: strong
fairness of `Sync`, as other calls may come between two polls but not for ever
instead of them. The repository holds no trading loop, and nothing in it calls
`sync_events` by itself: this last is an assumption about the caller, who is asked to
do what the design document's live loop does, and `KnownOrdersSettle` says what
polling achieves for a caller who polls. Nothing is assumed of the exchange or of the
operator.

**What the passing runs show.** The projection of an order follows from its events and
fills: its status is the last event's, its filled quantity is the sum of the stored
fills when they are of whole lots, as those of the adapters are, and otherwise within
half a lot per fill of it.

On the live path: never two orders at the exchange for one intent,
through every fault. An order waiting at the exchange is an open order of the
store, except after an HTTP error that hid an accepted order. No
projection, in memory or in the store, shows more than was executed; the stored
fills add up to no more either until the process dies, after which they may. However
a call ends, an order it leaves `PLANNED`, `APPROVED` or `SUBMITTING` was never sent.
A stored order never reopens or loses filled quantity. Rows are covered by events and fills as long as no
write failed; between calls, without crash and failed write, they agree exactly.

A call in which creating or cancelling an order or reading the exchange failed
returns with the kill switch active, with these exceptions. A write failed in the
same call. Reading failed, and some order cannot be marked: its last time stamp is
ahead of the adapter's clock, which an exchange whose clock is not behind will
cause, or has no zone, or a call that failed earlier has left it in a status
(`PLANNED`) that cannot become `RECONCILE_PENDING`. Cancelling failed, and the order came back from
a restart with time stamps without a zone. A lost answer to `create_order` has no
exception: the order in hand has only stamps of the adapter's own. The ticker is
not covered: its failure reaches the caller with the switch inactive, and what holds
then is that the order was not sent.

A closed order the adapter knows is settled by polling, with the status and quantity
the exchange shows, or the kill switch is active, or two things meet: the answer
about some order cannot be applied (an execution after a cancel request, an
overfill, a transition the table forbids), so that `sync_events` raises, and some
order cannot be marked (the exchange's clock is ahead), so that its handler raises
too before it trips. Then every poll raises, the switch stays inactive and the
order is never settled. This is shown for orders by quantity in the instance above,
through executions in parts, cancels by the owner and by hand and a leading clock,
and for a caller who keeps polling.

In the paper adapter cash and holdings are what the fills say, through every
rounding; bookkeeping makes no profit beyond half a unit per rounding; an intent
is executed at most once; a stored order that shows an execution has its fill and
its cash entry; between calls the stored books are those in memory as long as
nothing failed. Cash stays above zero while twice the commission rate is below
the share that is filled: the commission is charged on the whole quantity even
when a part is filled, so that a very small part can cost more than it brings.

A dataset comes from an archived answer all of whose candles are sound, of its
market and of different days, unless two jobs of one second share a file. It
survives refused answers and failures at any file before the old dataset is
removed. A run shown as succeeded has a complete artifact and rests on data; one
that ended has a row that says how, unless the store failed. What `latest.json`
holds is the result of a run that is stored, and it is complete at any moment
unless two runs wrote its temporary file at once: then it may be torn, which the
property's condition names. A failed run may have an artifact, and `latest.json`
may show it: it is saved before the row is finished.

A backtest decides on nothing that happens after the day of the decision. Its trades
explain its cash, holdings, average costs and sums of costs; it sells nothing it does
not have and overdraws by one unit of the fourth decimal at most, which rounding the
notional and the commission apart may cost. This, and the average costs, suppose that a
lot costs at least that unit (`LotsWorthAUnit`): below it a cash balance of minus one
unit makes a *negative* quantity affordable, which is then booked as a buy. They also
suppose that a sale brings more than it costs (`SalesPay`: commission and sell tax
together below 100%, slippage at most 100%). The settings set no upper limit to any
of them: with a slippage above the whole price a sale is booked at a negative price
and cash falls below zero without a limit. A review keeps the turnover,
gross and single-name limits up to the rounding of each weight, or stays between them
and the current weights; an empty list of targets (a strategy that wants to hold
nothing) is returned as it is and held to no turnover limit. When a current weight is
above 1 the review can fail, and so does its fail-closed answer, holding the current
weights, which is refused for the same reason: the run ends.

What is active in memory is active in the store and the other way round, through
crashes and resets that stop half-way, as long as no save has failed and every
start has read the table. Only the death of the process or a complete reset lifts
a reason. A trip whose save failed is not saved by a later trigger of the same
reason, and is lost by a crash; after an unread start a new trip shadows the older
active row, which then outlives a reset.

A match means that the process knows every order, execution and transfer, as long as a
trade is worth more than the tolerances and no transfer is a purchase. With tolerances
as large as a trade a refused sale and a withdrawal can cancel out; so can a refused
sale and a transfer that takes its proceeds and brings its positions. Two ways to a
lasting mismatch need no fault: a poll that sees two executions at once books one fill,
whose key the broker's own list never shows; and `sync_events` takes orders as the
exchange lists them, so that a sale can reach the ledger before the buy it sells from,
and is refused.

**What the refuting runs show** is listed under `findings` in `PROJECT.json`,
with the sentence each contradicts. The model also shows behaviour of the live path that
has no run of its own and that the conditions of the passing properties leave out:

* after a crash between `append_fill` and `upsert_order_projection` (`live.py:57`) the
  restart reads the old filled quantity, and the next larger executed volume is booked
  from there: the stored fills add up to more than was executed;
* once the exchange's time stamp has become `last_event_at`, a time of `_tick` is earlier
  and marking the order raises (`upbit_live.py:509`), before the switch is tripped;
* a payload that cannot be built, for a missing price (`upbit_live.py:190`) or a ticker
  that cannot be fetched (`:363`, not a `ValueError`), leaves the order `SUBMITTING` and
  the switch inactive; without an exchange id nobody looks at the order again;
* a failed write of an order event (`live.py:45`) reaches the caller without tripping the
  kill switch;
* projections restored with time stamps without a zone (`state_machine.py:174`, as
  SQLite returns them) make every later transition of the order raise.

## 4. Proofs

Every invariant and every action property of the passing runs, and the refinement, is
stated by a theorem below, for any values of the constants that the modules' `ASSUME`s
allow. What is only model-checked is listed at the end.

**Sums** (`SumTheorems`). Books are sums over fills, lots and trades. `SumFunctionOnSet`
is a recursive function that takes an arbitrary element first. The library's induction
theorems take a predicate as a parameter, which the provers here cannot instantiate, so
`SubsetInduction` and `NumberInduction` state induction for a *set* of subsets, or of
numbers, from the well-foundedness of finite subsets and of the naturals; from them
follow that the function exists, that the order does not matter (`SumTake`), what a
changed or an appended term does (`SumChange`, `SumAppend`), and bounds from bounds of
the terms (`SumBounded`).

**State machine** (`OrderStateMachineProofs`), for any sets of orders, intents, fills,
times and exchange ids:

* `TypeCorrect`, `StatusFollowsFromEvents`, `NeverOverfilled`, `FilledQuantityFollows`,
  `LogsReplayInTimeOrder`: the invariants of the run;
* `Refinement`: every behaviour is a behaviour of `OrderLifecycle`.

Assumptions: `OSMAssumption` (quantities are positive, a lot is any number of units,
times are integers, "no id" is not an id) and `NoOrderAssumption` (the null is no projection). The
inductive invariant `IInv` joins `TypeOK` with the event walk, the limit and the
time window of each list: the limit alone is not inductive without the type of
the projection, and that fills lie between the events needs both that no record
is later than `last_event_at` and that which statuses may still follow is fixed
by the transition table. One lemma per action and conjunct; the theorem
combines them. `FilledQuantityFollows` adds up the roundings: one more fill moves the
filled quantity and the exact sum apart by at most half a lot (`quantize` is within half
a lot of its argument), and not at all while both are whole lots.

**Live path** (`UpbitLiveProofs`), for any number of orders and intents, any quantity
and any number of crashes and other faults, from `UpbitAssumption` and
`NullAssumption`:

* `OnlyOneOrder`, `WaitingOrdersListed`, `NothingOverbooked`,
  `NothingSentWhileTripped` (which no run checks: in sequential code it says no more than
  that the switch is asked first) and `NeverReopened` relate the store to the exchange; but what
  the store says is written from memory, which is written from an answer, so none of
  them is inductive. `IInv` follows the chain: the answer in hand is of orders the
  exchange holds and is only older than the exchange (`AnswerOK`); what memory and a
  row say of an order is backed by the exchange (`Backed`); memory is never behind the
  row (`Follows`); and the order in hand has, at each place of the call, its projection,
  its row past the first upsert, nothing at the exchange before it is sent, and a kill
  switch that is clear from its check to the sending (`OrderInHand`). A step of the
  exchange alone makes every answer older and every projection no less backed, and one
  lemma says so for all four (`ExchangeMoves`); a recorded transition is proved once
  (`RecordStep`, `TransitionStep`) and cited by the actions that make one.
* `NothingOverbooked` is about projections in any case, which `IInv` gives, and about the
  stored fills as long as the process has not died: `StoredInv` says that they then add
  up to no more than memory shows, for a fill is what memory lacks of an answer, and one
  whose write failed is in memory only.
* `TypeCorrect`.
* `RowsAreCovered`: a row shows nothing the events and fills do not. Rows are brought
  up to memory, so `LogInv` says it of memory too, and adds that no stored fill was
  booked at a volume beyond what the fills add up to: a fill that is refused for its id
  was booked before.
* `TablesAgreeBetweenCalls`: without crash and failed write the tables are equal, not
  only covering. `BooksInv` says that every row is its projection in memory but for the
  one whose upsert is next, that the events walk the transition table to the status in
  memory, that the fills add up to its quantity, and that its intent is claimed.
* `FailsClosed`: after a failure to create, cancel or read, a call returns with the kill
  switch active or for one of the reasons the property names. `Way` says that a failure
  not yet answered by a trip is on the way to one (`OnTheWay`), and what makes the way
  end there: the order in hand is `SUBMITTING` when its answer is lost, and its clock is
  still the adapter's (`HandSent`); an order whose exchange id is known is past
  `SUBMITTING`, and an order is ahead only once its id is known and not while its cancel is
  requested (`SentOK`). What raises all the same on that way is, for reading, an order the
  property names (`Unmarkable`, `Unsortable`), and for cancelling a time without a zone.
* `InterruptedIsUnsent`: `SentInv` says that an order at the exchange is past
  `SUBMITTING` in memory unless it is in hand and its answer is the next thing to be
  dealt with. What an answer does not fail to do is `Way`'s: the order in hand is
  `SUBMITTING` with the adapter's own time stamps, so its transition is never refused,
  and it is made in memory before the event is written; a restart brings back only
  orders whose row has an exchange id.

**Paper adapter** (`PaperTradingProofs`), for any portfolio, intents, policies, prices,
rates and numbers of crashes and failed writes, from `LedgerAssumption`,
`PaperAssumption` and `PaperNullAssumption`:

* `ExecutedOnce`: the store never holds two fills for one intent. What makes it true is
  not the claim in memory, which a restart forgets, but the unique intent of a stored
  row together with the order in which things are written; so `IInv` says that no two
  rows are of one intent, that a stored fill belongs to an order that has a row and that
  memory knows to be filled, that an order has one fill, and that a call in progress has
  its row stored once it is past its first upsert and fills nothing before the fill.
  None of these is inductive alone: that an order has one fill needs the call's, the
  call's needs the rows'.
* `TypeCorrect`: with `IInv` and that a cash entry to be stored exists.
* `CashCovered`, `BooksAreFills`, `ProfitKept` come from `BooksInv`: cash is the initial
  cash and the flow of the logged fills; the lots of a symbol hold what was there and
  what was traded, where no sale was refused; a buy past its check can be paid until it
  is filled (`CashCovers`). A sale takes its quantity lot by lot, first in first out,
  so what it takes and what it costs are proved over the number of lots it empties. For
  the profit the bound of the run is not inductive: a sale rounds once for each lot it
  takes from, and all of these lots but the last leave, so `DriftWithin` lets every lot
  still there keep one rounding: twice the drift is at most the roundings less `Scale`
  for each live lot. That a sale never costs cash needs
  `2 * Commission <= ratio`: a part worth half a unit or more rounds to at least two
  thirds of its value.
* `ExecutedIsPaid`: a stored order that shows an execution has its fill and its cash
  entry. `PaidInv` says it of memory too, and of the call between the fill and the entry.
* `StoreAgrees`: `SavedInv` says at each place of the call which of fills, entries and
  snapshot are still to be written, as long as no fault has struck.

**Backtest runs and ingestion** (`BacktestRunsProofs`), for any number of jobs, runs,
markets and faults, from `RunsAssumption` and `IngestionAssumption` (the universe is of
markets; the nulls are no runs, jobs, rows, datasets or results):

* `RunsAreKept`, `LatestIsKept`, `LatestIsReadable`. `IInv` says what a run's place in
  the code means for its row and artifact (`RowsFollow`), that any text of a run, in
  whatever file, is of a saved run (`TextsAreSaved`), and, as long as no two runs wrote
  at once, that at most one is writing, that its file is the temporary one and that
  `latest.json` is another, complete one (`OneWriter`). That a run which finds no
  temporary file creates one that is not `latest.json` needs `FilesAreOpened`. Ingestion
  disturbs none of it.
* `TypeCorrect`, and `RunsAreTold`: a run that ended has a row that says how, unless the
  store failed it.
* `DatasetIsArchived`: `ArchiveInv` says that a job past its archive step has its answer
  archived or shares its second, that a job past validation has no issue, and that what
  is in the dataset, even half of it, is of a job that has come to the copy.
* `DatasetIsKept`: `KeptInv`: once a job has succeeded the dataset is whole, or a job that
  has removed it is about to put its own there, or a job was lost or crossed.

**Backtester** (`BacktesterProofs`), for any market, strategy, costs and limits:

* `NothingAhead`, from `MarketAssumption` alone (there are finitely many days and "no
  bar" is not a bar). The property is inductive as it stands. What needs an argument is
  that every function of the past reads the same bars on the market cut off at the day:
  that the last day of a non-empty set of days, and the i-th day of `InOrder`, are days of
  that set, hence `price_map` and `closes` agree; and that the holdings matter to a
  decision only through the portfolio it records.
* `TypeCorrect`, and the rest from it, with `InputAssumption`, `SymbolOrderAssumption`
  and `ScaleAssumption`.
* `NothingIsShort`: `SoundInv` is `NeverShort` with what makes it inductive: cash of
  minus one unit can buy nothing, since a lot costs at least a unit, and (with `SalesPay`:
  slippage at most the whole price, commission and tax below it) a quantity that
  is affordable, commission included, overdraws by no more than the two roundings, one
  unit together; a sale takes at most the holding, and its fees are at most its notional.
* `TradesExplain`: cash, sums of costs and holdings are sums over the trades, to which a
  trade appends one term; an average cost is a weighted mean of the old one and a price,
  rounded, so it stays between the prices of two buys.
* `ReviewKeepsLimits`: the three clips are linear in the weights up to the rounding of
  each, so the sums of magnitudes and of changes are bounded term by term
  (`SumBounded`), a rounding for each name.
* `DrawdownIsDeepest`: `CurveInv`: the peak is the highest point so far, and the drawdown
  the least of the falls from the highest point before each.

**Kill switch and controls** (`KillSwitchProofs`, `ControlsProofs`), for any number of
events, orders, times, transfers and faults, from `KillSwitchAssumption` (the ids are
finitely many, times are integers, the null is no event), `ToleranceAssumption` and
`ControlsAssumption`:

* `KillInvariant`, `MemoryFollowsStore`, `OnlyResetLifts`. What a reset has done
  half-way is neither memory nor store, so the inductive invariant `KillInv` adds to the
  two directions of agreement what `clearing` says: the events before it are stored as
  cleared, those after it as active; that an id occurs once in the history; and that at
  most one row of a reason is active. The last is what makes hydration deterministic up
  to the order of equal times, and it is why each direction of the agreement needs one
  of the two conditions only.
* `TypeCorrect`, `MatchIsSync`: a reconciliation that matches means that the process
  knows every order, execution and transfer. `TradingInv` says how far the two sides can
  be apart: an order in memory is refused and unknown to the account, lost and unknown
  by its id, or followed with a quantity not beyond the account's (`OrdersInv`); the
  account has a fill for every unit executed (`AccountFills`), and every unit the process
  knows of is covered by one of its fills (`LocalFills`); the account's books are its
  fills and the transfers (`AccountBooks`); the ledger's are its fills and what it
  refused, positions it kept and cash it was not paid, where nothing is unpaid exactly if
  nothing was refused, and otherwise at least the price of an order (`LocalBooks`).
  Matching lists of orders and fills then leave refusals and transfers as the only
  differences, which tolerances below a price and transfers that are no purchase keep
  from cancelling out. Without the last the theorem is false: a transfer that takes the
  proceeds of a refused sale and brings its positions masks the refusal.

Only model-checked: `KnownOrdersSettle`, the liveness of polling, since liveness under
fairness and `ENABLED` are out of the prover's reach; and the refuting runs, whose
properties are false.

## 5. Plan

1. A refinement for the paper adapter and for the live path, as the state machine has
   one: an abstract execution of intents that both implement.
2. Bootstrap reads the 500 orders updated last (`upbit_live.py:535`): a bound on the rows
   a restart restores, and what it means for older open orders.
3. `compare_with_external_state` of the shadow adapter composed with `PaperTrading`.
4. The resolution of backtest requests and profiles ahead of a run.

## 6. Not modelled

Strategy registry and specifications, daily report, configuration, read API, front
end: tables, formatting and construction, which keep no state of their own. The
REST client and its signing: what it does to a caller, an answer or an exception, is
in `UpbitLive`. Reports of a run that nothing reads back (`position_path`, the
shadow adapter's lines, rationales, messages).
