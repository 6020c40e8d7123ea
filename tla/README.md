# Verification of LP Manager

LP Manager (v0.9.5) watches the Uniswap V3 positions of one wallet, keeps their
accounting in SQLite, advises where to put capital, and helps the operator open,
collect and close positions from a browser wallet. It is one Python process: a
FastAPI server whose synchronous handlers run on a thread pool, and one
background thread that refreshes live state. They share the `Store` (`db.py`);
every `Store` method opens its own connection and is its own transaction, so
nothing larger than one method is atomic. Two locks exist:
`LiveDataService._refresh_lock` covers the refresh alone, and
`profit_request_lock` (`api.py`) the Profit Lab request alone. This directory
holds TLA+ models of that program, the TLC runs that check them, and TLAPS
proofs.

Contents: [the system](#the-system), [modules](#modules-and-the-code),
[runs](#runs), [fairness](#fairness), [proofs](#proofs),
[where code and text disagree](#where-code-and-text-disagree),
[other observations](#other-observations),
[what is not modelled](#what-is-not-modelled),
[running the checks](#running-the-checks).

## The system

Paths are under `src/lp_manager/`.

| component | state | operations | interacts with |
|---|---|---|---|
| Store (`db.py`) | all tables | one transaction per method | everything |
| Live refresh (`live_service.py`, `live_positions.py`) | refresh lock, checkpoint, labels, fee trackers, `positions`, `position_snapshots` | `refresh_positions`, `import_opening_transactions`, `scan_chain_positions`, `reconcile_scan` | chain RPC, indexes, market, Store |
| Close accounting (`close_accounting.py`, `live_positions.py`) | `closed_final` evidence, frozen rows | `finalise_execution_close`, `repair_confirmed_execution_closes`, `finalise_closed_positions_from_store` | receipts, manager events, Store |
| Execution desk (`execution.py`, `live_v3_builder.py`, `static/app.js`, handlers of `api.py`) | the page's plan and prepared call, `financial_events` | build, prepare, send, wait, post receipt | browser wallet, Store, live refresh |
| Wallet audit (`wallet_audit.py`) | `wallet_audit_events`, `wallet_audit_transactions` | scan, classify, automatic reconciliation, review | explorers, Store, capital ledger, performance log |
| Capital ledger (`capital_ledger.py`) | `capital_ledger` | import of a reviewed baseline, reconciliation of audited flows, summary | wallet audit, performance |
| Campaigns (`campaign_accounting.py`, `campaign_decision.py`) | `campaigns`, campaign columns of rows | registry sync, decision, aggregation | positions, Profit Lab, thesis research |
| Performance (`performance_log.py`, `financial_truth.py`) | `daily_performance`, `performance_hourly` | capture, cash flow, series | ledger, wallet snapshot, positions |
| Fees (`fee_metrics.py`, `v3_math.py`) | fee tracker settings | growth arithmetic mod 2^256, rolling window, periods | live refresh |
| Profit Lab (`profit_engine.py`, `profit_calibration.py`) | saved histories, last results | load a history, choose range and tier, answer a request | market, owned positions |
| Allocation and advice (`allocation.py`, `portfolio_advisor.py`, `risk_engine.py`) | none of their own | suggest, rank, search | positions, market |
| Worker and automation (`live_service.py`, `automation_policy.py`) | policy, last risk, scout rotation | the round: refresh, risk decisions, wallet, scout | everything that refreshes |
| Market data (`market_data.py`, `fx.py`, `wallet.py`) | TTL caches, cooldown | fetch with fallback | everything that values |
| Analytics (`replay.py`, `strategy_lab.py`, `range_lab.py`, ...) | `replay_runs`, audits | offline computations | operator |

### What is hard in each, and what makes it correct

**Position rows.** The same row of `positions` is written by the worker's
refresh, by an on-demand refresh of a request, by the operator's import (which
takes no lock), by receipt handlers, by the operator's own edits, by the
campaign registry, and at startup by a repair. `reconcile_scan` reads row and
snapshot, computes, and writes the *whole* row back several store calls later,
so every other writer's work in between can be overwritten. A close is written
in two transactions (row, then `closed_final` snapshot) and the process may die
between them. Correct means: refreshes exclude each other; final accounting
appears only for a close that is receipted, and is lost only to a reading still
under way that contradicts it; a position that stays drained ends up closed;
numbers are distinct and stable; what the operator wrote survives.

**Unclaimed fees.** Five RPC calls answered at up to five different blocks are
combined by the pool's modular fee formula; there are two fallbacks. Correct
means: the combination is an amount that was really claimable, wherever the
counters stand modulo 2^256, and the last fallback never overstates.

**Fee tracker.** A JSON setting that is read, updated and written back without a
lock, and from which rolling and calendar fees are computed over observations
that are coalesced and dropped. Correct means: fees are counted once, and a period counts
what was earned in it.

**Closed positions.** A life is rebuilt from the manager's events over log
ranges that the provider may refuse, with prices that may be missing and
principal and fees that were collected in any parts. Correct means: the whole
life is frozen, or nothing is.

**Discovery.** Transfer logs from a stored checkpoint, owned-NFT indexes that
may be missing or truncated, refused log queries, unreadable rows, and a second
entry point (the import) that moves the same checkpoint. Correct means: the
checkpoint never passes an NFT nobody looked at, and every NFT is found.

**Wallet audit and capital ledger.** Scan, automatic reconciliation, baseline
import and the operator's review share three tables and no lock; a review is
three transactions. Correct means: cash confirmed in pounds is booked once, with its
amount, in ledger and performance log; automation never decides about cash; what
is decided stays decided.

**Performance log.** Requests sample stored values that lag the chain, and
upsert a row of the day and one of the hour by read and write. Correct means:
the profit reported is what was gained between the samples, and a day's opening
is never replaced.

**Execution desk.** Builds of several chain reads overlap with one another and
with transactions; buttons outlive their plan; a close is built from a stored
snapshot. Correct means: no more is wrapped than is missing, one approval opens
one position, what is final is empty, and the operator gets to the end.

**Worker.** Refreshes of two threads, reviews that write a decision and then its
signature, a scout that takes chains in turn, failures and restarts. Correct
means: positions stay fresh whatever is switched off, a lasting risk is decided
upon once, and no chain is starved.

**Profit Lab, campaign decisions, allocation.** Advice computed from data that
is read at different moments and cached. Correct means: units and ages are what
they are taken for, labels say what is shown, a recommendation rests on evidence
about the thing it is about, and limits hold.

**Market client.** One client shared by unlocked threads against a provider that
refuses. Correct means: it is not hammered, and old answers are marked.

The hazards are listed, at their line, in `PROJECT.json`.

## Modules and the code

`PROJECT.json` maps every definition to the lines it stands for.

| modules | component | checked by | theorems in |
|---|---|---|---|
| `PositionLifecycle`, abstract `CloseLedger` | refresh, receipts, close accounting, repair | `lifecycle_safety`, `lifecycle_live`, `frozen_stays_frozen` | `PositionLifecycleProofs` |
| `V3Fees` | unclaimed fee reads | `readings` | `ReadingsProofs` |
| `FeeTracker` | fees over time | `readings`, `today_counts_yesterday` | `ReadingsProofs` |
| `LifecycleHistory` | accounts of closed NFTs | `readings`, `capital_counted_twice` | `ReadingsProofs` |
| `MarketClient` | market client | `readings` | `ReadingsProofs` |
| `LiveDiscovery` | discovery and checkpoint | `discovery` | `LiveDiscoveryProofs` |
| `WalletAudit`, `PerformanceLog`, side by side in `CashBooks` | audit and ledger, performance log | `books` | `WalletAuditProofs`, `StoreProofs` |
| `OpenDesk`, `CloseDesk`, composed in `ExecutionDesk` | execution desk | `desk` | `ExecutionDeskProofs` |
| `OperatorRows` | operator's columns, labels | `operator` | `StoreProofs` |
| `Worker` | worker, policy, scout rotation | `worker` | `WorkerProofs` |
| `ProfitHistory`, `ProfitDesk`, `RangeChoice` | Profit Lab | `decisions` | `DecisionsProofs` |
| `CampaignDecision` | campaign decision | `decisions` | `DecisionsProofs` |
| `CapitalPlan`, `CapitalAdvice` | allocation and advice | `decisions` | `DecisionsProofs` |

`Readings`, `CashBooks` and `Decisions` each put several of these side by side.
Their parts call one another in the program but share no state that is modelled,
so a variable (`part`, `book`) picks the one that moves, and what it gets from
the others is any value their models allow. `ExecutionDesk` does the same with `page`, since a
page opens a position or closes one. The `MC` modules give constants their
small values.

### PositionLifecycle and CloseLedger

One NFT's rows in the store, for a set of NFTs, threads and receipts.

| variable | in the program |
|---|---|
| `chain[n]` | what `ownerOf` and `positions()` report: not minted, active, empty (owned, no liquidity), gone. The close call that LP Manager builds does not burn, so a closed NFT stays owned and empty |
| `row[n]` | `positions`: status, lifecycle stage, gas |
| `snap[n]` | `position_snapshots`: whether saved, basis ready, `closed_final` present |
| `events[n]` | `financial_events`: the opening (not linked yet, or linked), confirmed receipts, confirmed closes |
| `lock` | holder of `_refresh_lock` |
| `seen`, `scan` | rows read and not reconciled, and the locals of `reconcile_scan` |
| `post` | the locals of a receipt request |
| `up`, `repair`, `crashes` | the process, and the loop of `repair_confirmed_execution_closes` |
| `leftover` | history: the NFT held liquidity when a confirmed close was posted, or was filled again after one |

| actions | code |
|---|---|
| `BeginRefresh`, `BeginImport` | `refresh_positions` up to the batch (non-blocking acquire, open ids and discovered ids minus finalised ones), `import_opening_transactions` (no lock, nothing left out) |
| `Observe`, `ObserveError` | `scan_chain_positions` for one NFT: owner, position, or an error row |
| `SkipErrorRow`, `CloseNotOwned`, `MarkNotOwned`, `ReadRow`, `ReadPreviousSnapshot`, `UpsertRow`, `SaveSnapshot`, `LinkOpening`, `OpeningUnknown` | `reconcile_scan`, one action per store call |
| `FinishScan`, `FailScan` | end of the pass, or an exception anywhere in it; either way the `finally` releases the lock |
| `PostOpening`, `BeginPost`, `RecordEvent`, `AddGas`, `ReadForClose`, `SumEvents`, `FreezeRow`, `AttachFinal` | the receipt handlers of `api.py` and `finalise_execution_close` |
| `Crash`, `Restart`, `RepairSkip`, `RepairFreeze`, `RepairAttach`, `Serve` | loss of the process and the startup repair, which runs before the server serves and before the worker starts |

Abstractions. Gas is counted in receipts, one unit each. Amounts, prices and
marks are left out: of the valuation only whether proceeds can be priced is kept
(`Priced`), and of the basis whether it is complete. A scan may find any subset
of the minted NFTs; which ones it must find is LiveDiscovery's subject.

A confirmed close is posted whatever the NFT holds: its transaction took the
liquidity of a stored snapshot, so it may leave some, and a later close, or more
liquidity (`Refill`), may follow.

`CloseLedger` is what all this is for: per NFT what it holds, whether a close
receipt is recorded, and accounting that is none, partial or full. Accounting
rises only with a receipt, and falls only while it is `disturbed`, i.e. while a
reading that contradicts it may still be written back; and once accounting is
full, no reading of the owned empty NFT disturbs it any more. The mapping takes
`disturbed` from the scans' locals (`HarmlessScan`) and partial accounting from
the row without the snapshot or the other way round. `ImplementsCloseLedger` is
checked and proved.

### V3Fees

One position in a moving pool and the scan that reads it. `price`, `global`,
`outside` are the pool's tick (below, in or above the range), global growth and
the two ticks' outside growth, all modulo `W`; `position` holds
`feeGrowthInsideLast` and `tokensOwed`. `Swap`, `Cross` and `Book` are what the
Uniswap contracts do, modelled from how `_live_v3_fees_from_growth` undoes it.
`ReadPosition` ... `ReadUpper` are the five calls, in the code's order,
`FallBack` is the exception path (simulated collect, then stored `tokensOwed`).
`U256Sub`, `Inside`, `FeesFromGrowth` are `_u256_sub` and the fee formula.
`accrued` and `since` are history: the growth really earned, and what was
claimable at each moment of the read. One token stands for both.

### FeeTracker

The setting `fees:tracker:<id>`. `Observe` takes the unclaimed amount from the
chain, `LoadTracker` and `SaveTracker` are `get_setting` and `set_setting`
around `_rolling_fee_tracker`, whose arithmetic is `Updated`: `CumAfter`,
`CollectedAfter`, `Observed` (coalescing), `Retained` (dropping), `Rolling`.
`Readings` says what `Observe` may get: of the five growth calls any amount,
since V3Fees shows that a crossing among them can leave one that never was
claimable, and of the fallback what is stored. `Openings` is where the list may
begin: at the true opening, or at the first scan if no evidence of it is found.
`Today` has the branches of `period` in `calendar_fee_metrics`: opened since
midnight, the last observation before midnight, the first one after it, none.
History: `past`, the cumulative at the end of each time; `thinned`, whether an
observation was ever coalesced or dropped; `wrong`, by how much all readings
together were off; `overlapped`, whether two scans of the position ever
overlapped.

### LifecycleHistory

`blocks` are the manager's events of one NFT (`Increase`, `Decrease`, `Collect`
in any parts, fees that stay uncollected), `job` the locals of
`finalise_closed_positions_from_store`: `ReadRange`, `RefuseRange`, `FailRange`
are `_position_lifecycle_events` with its range that halves and doubles; `Settle`
is `_closed_position_final` (`Increased`, `Decreased`, `Collected` over the
events, then `Complete`), for any events that could be valued and any evidence
of the opening; `SettleReviewed` is the reviewed close that stands in. A pass
begins at the block of the stored evidence of the opening (`since`), which is of
a transfer to the wallet and may be later than the first deposit; `FromOpening`
says that it was not.

### MarketClient

`_get` of the Gecko client. Time is relative (ages that stop growing when
nothing accepts them, and what is left of the cooldown), which makes the model
finite without a clock. `Ask` is the cache and cooldown test, `Send`, `Receive`,
`RateLimited`, `Fail` one attempt, `TryAgain` and `GiveUp` the loop's end.
`outrun` is history.

### LiveDiscovery

Height, transfers, known NFTs, `live:checkpoint:<chain>`. `BeginRefresh` reads
the checkpoint and the known ids, `ReadHeight`, `ReadIndexes`, `ReadLogs` or
`RefuseLogs` are `scan_chain_positions`, `Reconcile` stores the rows that could
be read, `SetCheckpoint` sets the height read at the start, `FailScan` is every
path that stores no checkpoint. `BeginImport` enters without the lock and
without a checkpoint, hence scans `ImportBlocks` back. Storing all rows of a
pass is one action here: PositionLifecycle has the store calls one by one.
`skipped` and `complete` are history.

### WalletAudit

`wallet_audit_events`, the transactions known of them, `capital_ledger`, and the
external flows of `financial_events`. `BeginScan`, `UpsertEvent`,
`UpsertTransactions`, `ListUnresolved`, `ClassifyUnresolved`, `ResolveEvent`
are `scan_wallet_audit` and `_auto_reconcile_unresolved`; `BeginImport`,
`ImportEntry`, `RejectEntry`, `ListReviewed` are `import_reviewed_baseline` and
`reconcile_reviewed_audit`; `BeginReview`, `WriteLedger`, `CheckFlow`,
`RecordFlow` are `resolve_wallet_audit_event`. `Automatic` and `ByRule` are the
two classifiers, over facts of a transfer (`Evidence`: its transaction and
kind, direction, counterparty; the asset rules of the import are the transfers
they name). A review is entered in the currency displayed, dollars while no rate
can be had, with any amount of `Amounts`, 0 included; only pounds are booked.
`by`, `settled`, `cut`, `crossed` and `started` are history or bounds.

### PerformanceLog

`chain` is what the wallet and its positions are worth (liquid, in positions,
unclaimed), `store` what the last refreshes of wallet and positions saved of it.
A capture (`BeginCapture` or `PostCashFlow`, `ReadTruth`, `ReadUnclaimed`) reads
the three parts at three moments, then upserts day and hour, each by a look and
a write (`LookDay`, `WriteDay`, ...); an INSERT that meets a row is an error
that ends the request. `DayProfit` and `RunningProfit` are what the log reports.
`exact`, `gain`, `flow` of a snapshot, `history` and `alone` are history.

### ExecutionDesk

OpenDesk: `wallet`, `allow` and `opened` are on chain, `plan` is `execPlan`,
`build[b]` a request of `build_open_position` between its reads (two allowances,
WETH balance, simulation), `tx` what `sendExecutionCall` waits for. The wallet
starts with any WETH up to `MaxStart` and with allowances for none or several
positions, left from elsewhere or from amounts that were lowered since.
`WrapShortfall` has the dead zone of the float comparison (`Dust`, 1e-12 in the
code) and `ReadBalance` its rounding: what is wrapped may be off by `Rounding`. CloseDesk:
`saved` is the stored snapshot, `preparing` and `shown` the call built from it,
`outgoing` what was sent; `Rescan` and `PostReceipt` are the whole refresh and
the whole receipt, whose steps PositionLifecycle has. `careless`, `most`,
`approved`, `mints` and `grown` are history.

### OperatorRows

The columns the operator owns (`name`, `thesis`, `sleeve`, `campaign`), the
label mapping `live:auto-labels`, and `scan`, the locals of `reconcile_scan` and
`_live_display_name`: `ReadRow`, `ReadLabels`, `PutLabels`, `Upsert`. `Fixed` are
the NFTs with operator-confirmed labels (`position_identity.py`). `raced` and
`stale` are history: a mapping, or a row, was written over one it was not read
from.

### Worker

`start_background`'s round: `BeginRefresh` (policy read, lock tried),
`ReadChains`, the review of each position (`SkipPosition`, `AddDecision`,
`SetSignature`, and the writes that fail), `KeepWallet` ... `WalletFails`,
`SkipScout`, `ScoutSwitchedOff`, `TakeTurn`, `AskMarket`, and at its end
`StoreHealth`. The store may refuse any of its calls (`RefreshFails`,
`RoundFails`, `RefuseHealth`); the loop's handler catches that and stores the
health itself, and if that is refused too, nothing catches it: the thread is
`dead` for as long as the process lives, since `start_background` runs only at
startup. `fresh` says what is younger than its interval. Requests run the same
refresh.

### The deciding modules

`ProfitHistory` is `_load_pool_and_history`: every source with the tests it has
to pass, what is saved, and a series reduced to its length class, the units it
is in and its last candle. A second Alchemy series takes the place of a short
one of candles and is then dropped if it is in other units.

`RangeChoice` is the analysis: the positions that past forecasts are judged by,
open or closed, in this pool, its pair or elsewhere (`OwnedRate`, `Samples`,
`EvidenceAge`), the correction they allow (`Calibration`), fees and net of each
range, guardrails, the choice near the best, and the comparison of fee tiers.

`ProfitDesk` is the request around it (lock, reuse, compute, four writes,
fallback). Results are filed under the key of their question (`KeyOf`), which
leaves the requested days of history out, and carry the pool they selected,
which `SamePool` compares. `CampaignDecision` is the request that reads legs,
decides, runs Profit Lab and decides again while rows and theses change.

`CapitalPlan` is `suggest_allocation` with positions opened and closed later:
`invested` is what is in the pools, `listed` what the stored rows say, which a
scan of a chain brings up to date (`ListChain`), and the cash is what the page
sends. `CapitalAdvice` are the advisor's and Profit Search's plans. Scores of
floats enter as any value of a small set.


## Runs

State counts are distinct states; times are seconds with two workers.

| run | states | time | question and answer |
|---|---|---|---|
| `lifecycle_safety` | 1 103 504 | 130 | a refresh by worker or request, the import without the lock, a receipt, a crash: refreshes exclude each other (`RefreshExclusive`), final accounting means receipted, and drained unless a close left liquidity or it was filled again (`FinalMeansDrained`), no row is open and final (`OpenNeverFinal`), startup leaves no priced close waiting (`RepairLeavesNoneWaiting`), all of it implements `CloseLedger` (`ImplementsCloseLedger`). All hold |
| `lifecycle_live` | 23 044 | 11 | an NFT that stays drained or transferred is closed for good in the end, through stale scans and a crash (`DrainedStaysClosed`). Holds under `FairSpec` |
| `readings` | 1 746 651 | 159 | fees from separate reads were claimable (`GrowthReadIsExact`) and the fallback never overstates (`StoredIsConservative`); the tracker counts what the pool paid and no more than its readings were off (`CountsRealFeesOnly`), and its window leaves out nothing (`RollingIsWindow`); frozen accounts are those of the whole life (`ClosedAccountsAreWhole`); a cooling provider is asked only by calls under way, and old answers are marked (`CooldownIsKept`). All hold |
| `discovery` | 67 804 | 19 | the checkpoint passes only known NFTs (`PassedMeansKnown`) and each NFT is found (`FoundUnlessSkipped`), unless a pass skipped blocks. Hold, the second under `FairSpec` |
| `books` | 1 811 948 | 203 | cash confirmed in pounds is booked once (`ReviewIsBooked`), automation never confirms cash (`CashNeedsConfirmation`) and leaves decisions it saw alone (`ReviewedStays`); the profit reported between exact samples was made (`ProfitIsReal`), a day's opening is written once (`OpeningStays`), and a capture that runs alone adds its sample as the day's latest (`AloneInOrder`). All hold |
| `desk` | 481 358 | 179 | an attentive operator never wraps more than the shortfall, but for a rounding (`NeverOverWraps`), one approval made on the page opens one position (`OneOpeningPerApproval`), final means empty unless liquidity was added after the snapshot (`FinalUnlessGrown`), and the desk lets the operator finish unless the WETH is short by next to nothing (`DeskNotTrapped`). Hold, the last under `FairSpec` |
| `operator` | 2 366 496 | 70 | numbers are distinct and stable while no label mapping was written over another (`LabelsAreDistinct`, `LabelsAreStable`); edits survive every scan that did not read before them (`EditsSurvive`). Hold |
| `worker` | 551 168 | 155 | repeated decisions are no more than faults (`RepeatsNeedFaults`); unless the thread died, positions stay fresh (`StaysFresh`), a lasting risk is decided upon (`RiskIsDecided`), every chain is scouted (`EveryChainScouted`). Hold under `FairSpec` |
| `decisions` | 2 935 133 | 115 | histories have the unit and age they are taken for (`HistoryIsUsable`), a burst of equal requests computes once (`OneComputationPerBurst`), labels say what is shown (`AnswersAreLabelled`), the choice of range is within guardrails and evidence (`ChoiceIsDefensible`), a campaign recommendation rests on a forecast of its own leg's pool and an exit on a fresh thesis (`DecisionIsFounded`), limits hold for suggestions made with sight of what is taken (`LimitsHold`), plans spend no more than there is (`AdviceIsAffordable`). All hold |
| `frozen_stays_frozen` | | | `FrozenStaysFrozen` is [refuted](#where-code-and-text-disagree) |
| `today_counts_yesterday` | | | `TodayExcludesYesterday` is [refuted](#where-code-and-text-disagree) |
| `capital_counted_twice` | | | `CapitalCountedOnce` is [refuted](#where-code-and-text-disagree) |

### Bounds, and why they are enough

- **One NFT** in the lifecycle and discovery runs, **one position** in the
  worker's. Actions on different NFTs touch disjoint rows; what they share is
  the lock, the process, the checkpoint and the cursor of each scanner. The
  theorems drop this bound. `operator` needs three: one with a confirmed
  number, one beside it on the same chain, one on another chain.
- **Lifecycle:** two refreshers and an importer, one receipt, one crash. A stale
  write needs one scan in flight and one other writer, and the crash reaches
  each point between two store calls. `frozen_stays_frozen` has two receipts.
- **Fee reads:** W = 8, Q = 2, liquidity 3, growth 3, two crossings. Counters
  start at 0, 3 and 7 so that they wrap during a read, Q does not divide the
  fees so that rounding shows, and two crossings leave and re-enter the range.
- **Tracker:** the worker alone, times 0..6, spacings 1 and 3, coalescing 2,
  window 2, retention 3. Spacing 1 coalesces and 3 does not; window and
  retention have observations inside, at and beyond them; with two units of fees
  a collect falls between two scans with fees before and after it, and one unit
  of error is a reading that is wrong once, in either direction. Two scanners
  are too many for TLC here; the theorems have any number.
  `today_counts_yesterday` has the proportions of the code: the refresh interval
  below the coalescing, retention far beyond the day.
- **Closed accounts:** five blocks, ranges from 4 down to 1, principal up to 2:
  a supply, a partial withdrawal, a separate collect and the close fit, and a
  range is refused, halved and grown again.
- **Market client:** two callers, a key of candles and one of rows, since the
  two have different ages and endings; ages to 4 pass every limit; cooldowns 1
  and 2 differ in whether a call in flight outlives them.
- **Discovery:** height 3, overlap 1, scan depth 3, import depth 1. As in the
  code (500 000, 128, 1 000) the import is shallower than the chain and the
  overlap shorter than what it can skip. `Init` chooses who is indexed.
- **Cash ledger:** two transfers of one counterparty, one funding by rule, one
  brought by a bridge; amounts 0 and 1; two threads that review; four operations.
  A decision about one is learned from for the other, and two reviews of one or
  of two transfers, scan and import all meet.
- **Performance:** two requests, three captures, days of two ticks, one market
  move. Two first samples of one day, two hours of it and the next day occur.
- **Desk:** three WETH wanted with 0 or 1 at hand, so that wrapping twice shows;
  a dead zone and a rounding of one unit each, so that a wrap may come out one
  short and stay so; allowances left for no or for two positions; two builds in
  flight, one slot to send from, one failure; close of up to two units with one
  upset by another application.
- **Worker:** two chains, severities 0 and 5, two faults, two moves of the risk:
  a risk comes, goes or stays while a write fails or the process restarts, and
  two faults in a row end the thread.
- **Decisions:** the values are the edges of the code's comparisons, e.g. dailies
  0, 18 and 20 are none, just below and at a guardrail, rates 20 and 60 one that
  is as much as the model's and one that is three times that. Of three questions
  two have one key and two ask for one pool, which tells reuse by key from
  fallback by pool. None, one or two positions of any kind are known. Three
  openings are what a sleeve takes and one more.

Symmetry is used over requests, scanners or handlers that are interchangeable,
and only in runs without liveness properties.

`CHECK_DEADLOCK FALSE` stands where the system really may stop: in `books`,
`readings`, `decisions`, `today_counts_yesterday` and `capital_counted_twice`
nothing has to happen once
the bounds on operations, blocks or times are used up, and in `desk` the
operator is done. In every other run TLC also checks that no reachable state is
without a next step.

### Limits of the properties

Several properties carry a condition, because without it TLC refutes them. The
condition is a history variable, or says of the state what the text beside it
says, and each is a fact about the code:

| property | holds unless | what happens then |
|---|---|---|
| `FinalMeansDrained` (that the NFT is drained; not that a receipt is recorded) | a close left liquidity in it, or it was filled again (`leftover`) | the receipt makes its accounts final all the same |
| `SettledIsStable` | a contradicting reading is in flight, or the NFT leaves the wallet or is filled again | the scan writes it over the accounts, see `frozen_stays_frozen` |
| `GrowthReadIsExact` | a tick was crossed, or the position updated, during the read | an amount that never was claimable |
| `CountsRealFeesOnly` | two scans of the position overlap (`overlapped`); by more than the readings were off (`wrong`) | load and save cross, the same fees count twice; a growth reading with a crossing counts fees that never were, and the drop of a `tokensOwed` fallback counts as a collect and the fees count again |
| `RollingIsWindow` (its upper bound) | an observation was coalesced or dropped (`thinned`), at the default intervals nearly always | older fees in the window; that nothing is left out holds always |
| `ClosedAccountsAreWhole` | the stored evidence of the opening is of a later transfer (`FromOpening`) | a part of the life may count as the whole: what was removed beyond what was seen going in is clamped (`live_positions.py:870`) |
| `ClosedAccountsAreWhole` (its capital) | the opening's hash is spelt otherwise (`matched`) | see `capital_counted_twice` |
| `PassedMeansKnown`, `FoundUnlessSkipped` | a pass skipped blocks (`skipped`) | see [other observations](#other-observations) |
| `ReviewIsBooked` | two reviews of a transfer cross (`crossed`); a crash cut its last review short (`cut`); dollars are displayed | both find no cash flow and both record it; a part is missing until it is reviewed again; nothing is booked |
| `ReviewedStays` | the decision fell between the scan's listing and its update | the scan writes over it |
| `LabelsAreDistinct`, `LabelsAreStable`, `EditsSurvive` | a mapping was written over another (`raced`), a row over a later one (`stale`) | a number given twice or changed; an edit lost |
| `ProfitIsReal` | a sample lags the chain (`exact`), a flow is not recorded yet | collects and deposits shown as profit |
| `AloneInOrder` | two requests overlap (`alone`) | an older sample is left as the day's closing one, or one is not counted |
| `NeverOverWraps` | a wrap is pressed before the last one is counted (`careless`) | more wrapped than was missing |
| `OneOpeningPerApproval` | the allowance came from elsewhere, or the amounts were lowered after approving | it covers more than one position, and the mint button of a plan that was carried out opens another |
| `DeskNotTrapped` | the WETH is short by no more than the dead zone of the comparison (`Short`) | no wrap is offered, and the mint's simulation fails for ever |
| `StaysFresh`, `RiskIsDecided`, `EveryChainScouted` | the thread has died (`Dead`) | nothing is refreshed until the server restarts |
| `HistoryIsUsable` (a refusal) | a short series of candles was replaced by a full one in other units | both are dropped |
| `AnswersAreLabelled` (a stale answer) | no result is saved under the key | the last result stands in if it selected the pool asked for, whatever its horizon, sleeve or capital; days of history are in no key |
| `ChoiceIsDefensible` (the correction) | the pool publishes no volume | what an owned position earned is the whole forecast, uncorrected, even from one day |
| `FinalUnlessGrown` | liquidity was added elsewhere after the snapshot (`grown`) | a final row with liquidity left |
| `LimitsHold` | a suggestion was asked for while another was open, or while the rows differed from what is in the pools (`blind`) | it is given room that is not there, and a limit is breached |
| `DecisionIsFounded` | rows or theses changed between the reads (`disturbed`) | the forecast of one pool recommends moving the position of another; a leg that the operator named keeps its own |

## Fairness

Only what the code's scheduling gives is assumed.

PositionLifecycle: the loop in `start_background` calls `refresh_positions` for
ever (WF of `BeginRefresh`), a pass goes on or fails (WF of `ScanStep`), a
provider or store call does not fail *every* time (SF of the observing and
writing steps of a refresh), requests run to their end (WF of `PostStep`), and a
dead process is started again and repairs (WF of `Restart` and `RepairStep`).
Fairness is strong for reads and writes since each failing pass disables them
again. Nothing is assumed of the chain, of new receipts, or of the importer
beyond its pass ending.

LiveDiscovery: the same for the loop; each provider call succeeds again and
again, including in passes in which the index listed everything (SF of `ReadLogs`
and `Reconcile` conjoined with `Listed`), since `Reconcile` stores only what one
and the same pass collected. Nothing is assumed of the operator.

Worker: the loop goes on after what its handler caught *and stored* (WF of
`BeginRefresh(Worker)` and `RoundStep`), and not after an exception of the
handler's own write (`live_service.py:325`), which ends the thread; the
properties except that case. PositionLifecycle and LiveDiscovery assume, beside
what is said above, that it does not arise. Started refreshes end (WF of `RefreshStep`), time passes (WF of
`TimePasses`), and a wallet refresh that is tried for ever succeeds now and then
(SF of `RefreshWallet`). Requests need not come, the operator toggles at will, and
nothing is assumed of the market's answers: `EveryChainScouted` is about turns,
not results.

ExecutionDesk: a build that was begun ends, with a result or an error (WF of
`BuildNext`); the page polls until it sees its receipt (SF of `TxNext`); and the
operator wants the position: what is offered again and again is pressed, or
else rechecked, while nothing is pending (SF of `PressOffered` and `Recheck`).
That last assumption is about a person. It is what the property is about: "an
operator who does what the page offers".

All other specifications state safety only.

## Proofs

TLAPS proves the theorems below with Z3, Zenon and LS4, for all values of the
constants that meet the named assumptions, which TLC evaluates on every run. The
proofs are in `PositionLifecycleProofs`, `ReadingsProofs`, `LiveDiscoveryProofs`,
`WalletAuditProofs`, `StoreProofs` (PerformanceLog and OperatorRows),
`ExecutionDeskProofs`, `WorkerProofs` and `DecisionsProofs`. Every safety
invariant and every safety property of steps that a passing run checks is proved.

Assumptions on constants:

- PositionLifecycle, LiveDiscovery, WalletAudit: refreshers, importers and
  scanners are different threads (`ActorsAssumption`); `None` is no thread and no
  NFT; bounds are naturals.
- V3Fees: positive width and scale, natural liquidity; `GrowthAssumption`, the
  growth during a behaviour is less than one turn of the counter. At 2^256 per
  unit of liquidity more is not reachable.
- MarketClient: `AgeAssumption`, an answer is young before it is stale and stale
  before it is too old to tell, as the code's constants are.
- Readings: a source of amounts; the window is not empty and not longer than the
  retention (24 hours, 7 or 30 days against 35 in the code); ranges of logs are not empty.
- WalletAudit: evidence is some assignment of facts to transfers, amounts are
  natural and bounded (`AmountsAssumption`), and 0 is among those allowed.
- Worker: `WorkerAssumption`, there is a chain, 0 is a severity, the worker is
  not a request.
- PerformanceLog: days have a length. OperatorRows: reserved numbers are positive
  and differ, `None` is no NFT, and the table is finite (`TableAssumption`), for
  the next number is one more than the largest.
- ExecutionDesk: something is wanted (`WantAssumption`), the wallet has ETH for
  what is wanted in WETH (`DeskBounds`), a position has liquidity.
- Decisions: pools and ranges are finite where a best one is chosen, model fees,
  rates and costs are natural, every question has a key and a pool, and "nobody"
  asks nothing (`DecisionsAssumption`); chains are finite (`CapitalAssumption`).

No theorem has a hypothesis beyond these.

| theorem | says | argument |
|---|---|---|
| `TypeCorrect` | `[]TypeOK` of PositionLifecycle | `TypeOK` with `LocalsOK`: a scanner past `rows` has a current NFT, and so has a request under way; without it the writes to `row[scan[s].cur]` are untyped |
| `FinalDrained` | `[]FinalMeansDrained` | inductive with `Evidence`: a recorded close means drained or `leftover`, and a final flag *held by a scan in flight*, a request about to freeze, and the repair's current NFT are each backed by a recorded close. The property alone is not inductive because a scan writes back a flag it read before |
| `RefreshMutex` | `[]RefreshExclusive` | `LockHeld`: a refresher is not idle exactly when it holds the lock |
| `OpenOrFinal` | `[]OpenNeverFinal` | a row becomes OPEN only with stage ACTIVE, and final only with CLOSED |
| `NoneLeftWaiting` | `RepairLeavesNoneWaiting` | `RepairCovers`: during startup every closed row is still on the repair's list or needs it no more; nothing else writes meanwhile, and a crash starts the list anew |
| `SettledStable` | complete accounting with no stale reading in flight stays | `HarmlessScan` excludes exactly the observations that could undo it, and no step on an empty NFT makes a harmless scan harmful |
| `Refinement` | `ImplementsCloseLedger` | initial states map to initial states; every action is a reading step, a step of accounting, a lapse under a disturbance, or a stutter. Needs `Evidence`, `OpenOrFinal` and `SettledStable` |
| `FeesTyped` | `[]TypeOK` of V3Fees | counters stay below W, reported fees are natural |
| `GrowthExact` | `[]GrowthReadIsExact` | `ReadInv`: `AccruedIsGrowth` ties growth inside, computed modulo W, to the growth really accrued; `ClaimableIsMet` and `ReadMatches` carry it through the five reads |
| `StoredLeast` | `[]StoredIsConservative` | `OwedIsLeast`: the `tokensOwed` read is at most every amount claimable since |
| `CountedIsPaid` | `[]CountsRealFeesOnly` | `TrackerInv`: what is counted, *and what the scan under way would make of its reading* (`SaveCounts`), exceeds what was earned and paid out by no more than the readings were off; each error enters once, with the reading that has it |
| `WindowsAreTrue` | `[]RollingIsWindow` | `WindowInv`: the tracker, and each copy of it that a scan is about to save, is `Dated`: observations are in order of time, none is ahead of the cumulative, and without coalescing or dropping none is missing since any past time. What the tracker retains, a fold, keeps the latest observation and drops none that is young (`RetainedFrom`), and the baseline is that of the latest observation before the time (`BaselineIs`) |
| `AccountsAreWhole` | `[]ClosedAccountsAreWhole` | `LifeInv`: liquidity is what was supplied less what was removed, the first event is the opening, a pass holds the events from where it began up to where it goes on reading. `AccountOK`, kept by each event added: if nothing went in before, liquidity and, while every amount had a price, proceeds, fees with pending principal, and capital are those of the chain so far |
| `CooldownKept` | `[]CooldownIsKept` | `MarketInv`: a call counts at most as many requests into a cooldown as it has had attempts, and none while nothing cools (`OutrunOK`); what a caller was told has the age that it was told (`Told`) |
| `ReadingsAreSafe` | V3Fees and MarketClient hold in the composition | each part moves as it does alone, or rests |
| `CheckpointPassesKnown` | `[]PassedMeansKnown` | `DiscoveryInv`: what a complete pass has read is in its ids (`ScansKnow`), and heights and checkpoints that passes carry do not run ahead of the chain (`HeightsOK`); a pass's range meets the checkpoint it started from even when another one moves it meanwhile |
| `CashConfirmed`, `DecidedStays` | `[]CashNeedsConfirmation`, `ReviewedStays` | `AuditInv`: what scans and imports hold in mind for an event (`JobOK`) is no cash decision, and only about events they saw undecided |
| `ReviewBooked` | `[]ReviewIsBooked` | `BookInv`: of a transfer whose reviews never crossed at most one is under way (`Apart`), at most one flow is recorded, and between the three transactions of a review what is missing is what it is about to write (`BookingOK`), also after a crash, which is why a repeated review completes it |
| `NumbersApart`, `NumbersStay` | `[]LabelsAreDistinct`, `LabelsAreStable` | `LabelInv`: no number is mapped twice or to a reserved one (`Orderly`), and each row, *and each scan about to write one*, shows what is mapped (`Shows`) |
| `EditsStay` | `EditsSurvive` | a scan that is not stale holds the operator's columns as they are |
| `OpeningsStay`, `AloneIsInOrder` | `OpeningStays`, `AloneInOrder` | a write replaces only the latest of a row that is there; a capture that runs alone knows the day's row (`AloneKnows`) |
| `ProfitsAreReal` | `[]ProfitIsReal` | `LogInv`: the chain's worth is gains and flows so far (`Balanced`); an exact sample that a capture holds or a row keeps has the worth, gain and flow of its moment (`CaptureSound`, `RowSound`) |
| `TypeCorrect` (desk) | `[]TypeOK` of ExecutionDesk | each page alone |
| `NeverWrapsTooMuch` | `[]NeverOverWraps` | `WrapInv`: while the operator is attentive, at most one transaction is under way (`OneUnderWay`), and what any build in flight, the plan or that transaction would wrap still fits in what is wanted or was there and one rounding (`BuildsFit`, `PlanFits`, `WrapFits`) |
| `ApprovalOpensOne` | `[]OneOpeningPerApproval` | `ApprovalInv`: from the page's own approval on, the allowance never exceeds what one opening takes, and none is left after it |
| `FinalIsEmpty` | `[]FinalUnlessGrown` | `CloseInv`: snapshot, prepared and shown call cover the liquidity (`Covers`), a confirmed close has emptied it (`Emptied`), unless it grew |
| `RepeatsAreFaults` | `[]RepeatsNeedFaults` | cardinality: the positions whose decision and signature are apart, plus the repeats so far, are at most the faults |
| `HistoriesAreUsable` | `[]HistoryIsUsable` | `HistoryInv`: what a load has taken so far passed the tests of its source, a saved series is never taken beyond its age, and the pool's own candles are held until a full series takes their place (`OhlcHeld`) |
| `BurstsComputeOnce`, `LabelsAreTrue` | `[]OneComputationPerBurst`, `AnswersAreLabelled` | `DeskInv`: only the holder of the lock works, it tested the last result under it (`Works`), and results are filed under the key of their question |
| `DecisionsAreFounded` | `DecisionIsFounded` | `DecisionInv`: from the first read on, the base leg is the one asked for or, undisturbed, the one worth most, and the forecast is of it |
| `ChoicesAreDefensible` | `[]ChoiceIsDefensible` | `ChoiceInv`: every row is founded on the facts and within its correction (`RowFounded`), and the chosen one is eligible and nearly the best (`NearlyBest`) |
| `LimitsAreCeilings` | `[]LimitsHold` | `CapitalInv`: without blind suggestions at most one is open, and it still fits what is invested |
| `PlansAreAffordable` | `AdviceIsAffordable` | from the arithmetic of each plan |

Lemmas about `U256Sub`, `Inside` and `FeesFromGrowth` (wrap at most once,
invariance under growth outside and under crossing, monotone) carry the
arithmetic of fees. Sums, extrema and folds are defined by recursive functions of
the community modules, whose induction theorems are out of reach here. Where a
proof needs them, it argues with a smallest set, or a first number, that fails
(`LeastExists`, `CountsUp`): that the recursive function exists (`FoldsExist`,
`AddsExist`), that a sum does not depend on the order of its elements
(`AddsEach`), and that it grows by one element after the other (`TallySteps`,
`AddUpSteps`). The same is done for label numbers, best ranges and invested
capital.

Only model-checked: all liveness (`DrainedStaysClosed`, `FoundUnlessSkipped`,
`StaysFresh`, `RiskIsDecided`, `EveryChainScouted`, `DeskNotTrapped`), since
fairness and ENABLED are out of the prover's reach.

## Where code and text disagree

Each has a run that TLC refutes; `PROJECT.json` quotes the text.

- **A frozen row does not stay frozen** (`live_positions.py:1595`; `db.py:748`
  "Freeze a completed closed-position lifecycle"). A scan that read the NFT
  before its close writes the whole row back after the receipt froze it; the row
  becomes OPEN or CLOSED again. What does hold is proved and checked: complete
  accounting with nothing stale in flight stays (`SettledStable`,
  `Refinement`), and the row ends CLOSED (`DrainedStaysClosed`).
- **Yesterday's fees are today's** (`live_positions.py:472`; `fee_metrics.py:109`
  "We cannot assign old cumulative fees to a newer calendar period. Understate
  rather than falsely count pre-period fees."). An observation younger than
  300 s replaces the last one, so at a refresh every 60 s the list is the
  opening's observation, of nothing, and one that is always the newest. After
  midnight the opening's is the last one before midnight, and every fee since
  the opening counts as today's. (A pause of more than 300 s leaves an
  observation behind; then only what was earned since that one counts.)
- **Capital is counted twice** (`live_positions.py:898`; comments at 813-814 and
  896-897). The opening's hash is stored as the explorer spells it, without or
  with `0x`, and compared with the events' hashes as text. Spelled differently,
  it is not found among them: the deposit is valued as an event and the stored
  basis is added to it.

## Other observations

Met while modelling; no run refutes a text with them.

- *Gas* of a receipt reaches the row by the opening's re-summing and again by
  `add_position_gas_cost`, or is lost under a stale whole-row write
  (`db.py:716`, `db.py:652`, `live_positions.py:1576`).
- *Repair.* After a crash between row and snapshot the repair skips the row
  because its stage is already CLOSED_FINAL, so its evidence stays incomplete
  (`close_accounting.py:353-358`).
- *Refused logs.* Without an index, one refused `eth_getLogs` moves the
  checkpoint past a transfer for good (`live_positions.py:1003`).
- *Close from a stored snapshot.* Liquidity added elsewhere after the last
  refresh stays in the NFT while its row is made final (`live_v3_builder.py:53`).
- *Reviews without a rate.* While no exchange rate can be had, amounts are
  displayed in dollars and "Confirm & update ledger" (`app.js`) marks the
  transfer confirmed and books nothing, in ledger or log (`wallet_audit.py:1116`).
- *Wrap.* Wanting 0.3 WETH with 0.1 at hand, the shortfall is computed as
  0.19999999999999998: the wrap leaves the wallet 20 wei short, which is within
  the 1e-12 that counts as nothing. No wrap is offered any more, and the mint's
  simulation fails until the amounts are changed (`live_v3_builder.py:163-169`).
- *Allowances.* Any allowance of at least what is wanted is accepted
  (`live_v3_builder.py:139`), so a larger one left from elsewhere lets the mint
  button of a plan that was carried out open a second position.
- *Background thread.* The handler of the loop stores the health itself, outside
  any `try` (`live_service.py:325`); a locked or full database that raised in the
  round and raises there too ends the thread, and the last health stays on
  display, against "Never silently hide a dead/stalled background loop again".
- *Profit of the day.* Wallet and positions are refreshed apart: a collect
  between them shows as profit or loss until both have seen it, and a deposit on
  a day without a sample stays in the running profit.
- *Market client.* A 429 is answered with the saved answer whatever its age, a
  call without one goes on asking inside the cooldown it just set, and the
  minimal gap between requests does not hold between threads. `resolve_pool`
  tries other chains after a server error or bad JSON too.
- *Closed accounts.* The caller passes no unclaimed fees, so fees left
  uncollected are not noticed; a reviewed close is accepted even if the NFT was
  opened again; an exception leaves no mark of the attempt; nothing in the server
  calls the workflow.
- *Price history.* A short Gecko series in the wrong unit is never compared with
  anything, and a second Alchemy series that fails the scale test discards a
  short Gecko one with it.
- *Owned fees.* Where a pool publishes no volume, the daily rate of one position
  that is a day old is the whole forecast, uncorrected (`profit_engine.py:711-773`).
- *Limits of allocation.* Suggestions rest on stored rows that lag until the next
  scan and on cash that the page sends, so one asked for after an opening and
  before its scan can breach every limit (`api.py:1454-1463`).
- *Walk-forward* training windows overlap the holdout when the horizon exceeds a
  day (`profit_engine.py:137-212`). Published volume behind owned fee evidence
  keeps the PUBLIC label and is calibrated as such.
- *Advice.* The preliminary evaluation sets liquidity stability to 60
  (`live_scout.py:50`) and the core gate asks for 75 (`risk_engine.py:96`), so
  the advisor never funds a core pool. That also leaves nothing for its passes that
  hand out the rest (`portfolio_advisor.py:103-119`); they are not modelled. The
  tactical limit is not applied to its
  first split (`portfolio_advisor.py:102`).
- *Reviews.* A risk that returns with the signature of the last one gets no new
  decision. Scouting that is switched off between plan and call uses up its turn.
- *Labels and metadata.* The same NFT number on two chains shares one automatic
  label; a sleeve set without a thesis is reset by the next scan; the registry
  replaces the operator's campaign label. `get_opportunity` finds only the
  newest 1000 rows (`db.py:474`).

## What is not modelled

- *Pure policies nothing acts on:* scheduler, events and notifications compute
  lists for the page; market regime, intelligence and compounding compute
  figures. They have no state and no second actor.
- *Float arithmetic:* `v3_math.py` conversions, scores, forecasts and the
  laboratories (`replay.py`, `strategy_lab.py`, `range_lab.py`). Where a score
  decides something that is modelled, it is any value of a small set.
- *Outside:* RPC, explorers and price services beyond what they may answer;
  configuration, seeding, diagnostics, dashboards.
- *Within modelled components:* prices, marks and campaign capital of a row;
  weeks, months and APR pacing of fees (their baselines are found as today's is); the parsing of explorers' answers (what
  they mean is a constant, `Evidence`); reports over the ledger.
- *A valuation of close proceeds that fails once and succeeds later:* an NFT is
  in `Priced` (its close event carries an amount, which needs no provider) or is
  never valued, and `RepairLeavesNoneWaiting` speaks of `Priced` NFTs. A store
  error inside the repair's two writes is covered by the crash between them.
- *Receipts posted twice:* each receipt is sent at most once, as `static/app.js`
  does. The endpoint would record a second post again.

## Running the checks

    tlc -workers 2 -config lifecycle_safety.cfg MCPositionLifecycle
    tlapm PositionLifecycleProofs.tla

`PROJECT.json` lists each run with its module, configuration and properties,
and for each property a mutated definition under which the property fails.
