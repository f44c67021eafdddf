# Verification of the auto-trading back end

TLA+ modules, TLC configurations and TLAPS proofs about the Binance USD-M futures
auto-trading bot in `src/backend`. The back end is one FastAPI process: coroutines on
one event loop, calls in worker threads, state in module-level dictionaries, and JSON
files that survive a restart; a second, threaded process (`cmux_service.py`) starts it,
watches it and revives it. What is hard about it is not any single computation but the
order of things: a fill that shows up late, a stop in the middle of a cycle, a lock
derived from rows that are 25 seconds old, a snapshot that is written every 30 seconds,
a restart between two steps.

Part 1 is the inventory of the system, part 2 the plan, parts 3 to 6 say what is
modelled, what the runs check, what is proved and what the code does not keep, part 7
what is left out and why.

## 1. Inventory

### 1.1 Components

| component | source (under `src/backend`) | state it keeps | operations | module |
|---|---|---|---|---|
| Close reconciliation | `trading/close_reconciler.py` | `closeIntents`, `_TRADES_CACHE`, discovery time stamps | `reconcile_symbol_closes`, pending and discovery pass, `_repair_anchor` | `CloseReconciler` |
| Closing | `exchange/futures_orders.py` | the close intent while it runs | `_close_position_one_side`, `_close_position` | `CloseReconciler`, `PositionGuard` |
| Trade log and profiles | `trading/per_symbol_storage.py`, `trading/learning.py`, `trading/shared_cache_layer.py` | `trades.jsonl`, `profile.json`, `DAILY_REALIZED_PNL`, the lock of each symbol | `_record_learning_trade`, observations, scan health, load/save/commit | `CloseReconciler`, `TradeLearning` |
| Trading session and loop | `main.py` | `AUTO_TRADE` (running, manageOpenOnly, config...), `_AUTOTRADE_TASK` | start, stop, reset, update of the configuration, `_autotrade_loop`, watchdog, `_maybe_resume` | `AutotradeSession` |
| State snapshot | `trading/state_ops.py`, `services/app_state.py` | one JSON file and runtime files per symbol; time of the last write | forced and throttled (30 s) save, load at start-up | in each module, for the fields it uses |
| Entry execution and protection | `exchange/futures_orders.py` | none of its own; the exchange's orders, a seeded `liveProfitLocks` entry | `place_futures_order`, `_place_tp_sl`, `_verify_protective_orders`, orphan sweep | `PositionGuard` |
| Live guardian | `trading/live_guardian.py` | position cache (25 s), `liveProfitLocks`, `guardian_lock.json` | `_live_multi_profit_lock_manage`, start-up reconcile, SL/TP edit | `PositionGuard` |
| Risk cooldowns | `trading/risk_cooldown.py`, `main.py` | `riskCooldownBySymbol` with two copies on disk | arm, prune, query, clear | `RiskCooldown` |
| Supervision | `cmux_service.py`, `hermes_service.py` | `bot_desired.json`, the process and its pid file | start, stop, configure, watchdog, revive, resume | `BotSupervision` |
| Symbol tuning | `trading/symbol_autotuner.py` | `symbol_profile.json` | autotuner thread, revert, rollback, operator's edit | `SymbolTuning` |
| Supervisor tuning | `main.py`, `trading/supervisor_state.py`, `trading/supervisor_tuning.py` | locks of domains, delegations, `tuningHistory` | nine tuners, commit, rollback | `TuningLocks` |
| Supervisor review and agents | `supervisor_self_correction.py`, `hermes_agents.py` | findings, kanban cards | reviews, marks for display | - |
| Entry pipeline and sizing | `trading/pipeline.py`, `risk.py`, `confluence.py`... | none | scores and gates of one candidate | - |
| Symbol profiles, presets | `trading/symbol_profiles.py`, `presets.py`, `config.py` | none | functions from configuration to configuration | - |
| Caches | `cache.py`, `services/cache_registry.py`, `trading/shared_cache_layer.py` | entries with an expiry | get, set, load | where one is read and written back |
| Exchange client | `exchange/binance_client.py`, `http_client.py` | none that matters here | signed requests | failures are choices |
| Entry watchdog | `autotrade_entry_watchdog.py` | a process of its own | reads logs, reports | - |
| Routes and schemas | `routers/*.py`, `schemas.py` | none | which handler runs on the loop and which in a thread | `AutotradeSession` |
| Market data, notes, dashboard, tooling | `indicators.py`, `analysis/`, `obsidian_memory.py`, `dashboard/`... | none that outlives a call | computations, user interface | - |

### 1.2 How they interact

* The operator talks to `cmux_service`, which keeps his wish in `bot_desired.json`,
  starts the back end if it is not there, and forwards the request. Its watchdog thread
  does the same by itself when the back end does not answer or the bot does not run.
* Routes call the session's handlers. An `async def` handler runs on the event loop;
  `/autotrade/stop` is a plain function, so FastAPI runs it in a thread, and it really
  overlaps with the loop. `/bot/stop` calls the same function from a coroutine.
* The loop task copies `config` and `running` at the head of a cycle, prunes the
  cooldowns, lets the guardian manage the open positions, and then scans, checks and
  places an order with many awaits in between. It writes its copy of the configuration
  back in several places.
* `place_futures_order` fills an entry first and protects it afterwards; when the
  exchange does not take TP and SL, it leaves a lock for the guardian. The
  guardian keeps such a lock for each position it sees, moves its stop, and closes the side when
  a level is hit. Every close cancels all orders of the symbol, and a sweep cancels
  those of symbols that are flat: three parties remove orders, one places them.
* The guardian closes positions through `_close_position_one_side`, several at a time
  where it gathers them (`trading/live_guardian.py:1442`), so that both sides of a symbol
  may be closed side by side. The call marks an intent, sends a reducing MARKET order and
  scans `userTrades` a few times for its fills. A background task, `reconcile_cycle`,
  scans for the same fills. The ids that a row carries (its *anchors*) are all that
  keeps a close from being counted twice.
* A recorded close goes on into the daily PnL and the profile of the symbol, under a
  lock of the symbol that a thread and the event loop both take; a second later a thread
  of its own tunes the symbol. The losses at the end of the log arm the cooldown.
* The supervisor's review runs on the loop in a cycle and in a thread for the
  dashboard; its tuners change the one configuration and must not undo each other.
* Everything that must survive a restart goes through the snapshot, a runtime file of
  the symbol, or `trades.jsonl`. Where there are two copies, start-up has to choose.

### 1.3 What is hard here, and what makes each component correct

* **Close reconciliation**: several writers of one log with fills that surface late, lost
  answers, failed writes and restarts. Correct when no fill is recorded by two rows,
  rows once anchored do not change, an estimate is not followed by a record of the same
  order, entries are not booked as closes, and every close reaches the log in the end.
* **Session**: handlers and cycles interleave at each await; one handler runs in a thread.
  Correct when at most one loop trades, a stop that is on the disk stays a stop across a
  restart whoever else is saving, no configuration of an earlier session comes back, a loop that died is replaced and a loop that
  is not wanted ends.
* **Entry, guardian, sweep**: positions come and go on the exchange while the guardian
  acts on older rows. Correct when a position that stays comes under a lock or is
  closed, a lock does not outlive its position for good, a validated stop is only
  tightened, what was tightened and saved survives a restart, and the sweep spares positions.
* **Supervision**: two processes with one file and one snapshot, requests that are executed
  after their sender gave up. Correct when a stop that was answered holds, a wanted bot runs, and
  a dead back end is revived.
* **Cooldowns**: one record per symbol for several reasons, overwritten, cleared and restored.
  Correct when no cycle enters on losses it has seen without a brake that has held or run
  out, and no brake is for ever or longer than its loss justifies.
* **Trade learning**: threads and coroutines that wait for the lock of a symbol, a cache, a
  writer without the lock, a daily sum that all symbols share, midnight. Correct when trades
  once counted stay counted, the daily PnL is of one day, and nobody waits for ever.
* **Symbol tuning**: four writers of one file, each with an old copy or, after a failed read,
  an empty one. Correct when a score
  in the file belongs to the parameters beside it.
* **Supervisor tuning**: opposite changes from reviews that overlap within a call. Correct when
  no tuner that asks for locks moves a domain against the lock it is held by, and cooldowns
  are kept.

The `hazards` of `PROJECT.json` name the places, line by line, with the properties that
cover them.

## 2. Plan

Done, in this order:

1. `CloseReconciler`, `CloseLedger`, `CloseReconcilerProofs`: money is counted here, and
   four parties touch the same log.
2. `AutotradeSession`, `OrderPermits`, `AutotradeSessionProofs`: one loop, durable stops, configuration
   of the session, orders after a stop.
3. `PositionGuard`, `PositionGuardProofs`: entry, protection, guardian, sweep and restart composed in one module, since
   what matters of each is what it does to the position and the orders of the others.
   The promise *an open position comes under guard* is stated as a liveness
   property instead of an abstract specification: there is no state in which it
   holds at every moment.
4. `BotSupervision`, `BotSupervisionProofs`: who keeps the bot running, and who keeps it stopped.
5. `RiskCooldown`, `TradeLearning`, `SymbolTuning`, `TuningLocks`, each with its proofs.

Left, in the order of their worth: `_close_position`, the close of a whole symbol, as one more
party of `CloseReconciler`; two sides in one instance of `PositionGuard`; the pause
of older snapshots in `RiskCooldown`.

Modules are written to be proved about: parameters are constants with a named assumption,
there is an action for each operation, invariants are conjunctions of named parts, and
there is no recursive operator (an event of a scan is the set of fills no gap separates
from the first one, instead of a loop over a list).

## 3. The modules

### 3.1 `CloseReconciler`: how closes reach the trade log

One symbol, both sides of its position.

| in the model | in the code |
|---|---|
| `pos`, `orders`, `fills`, `shown`, `now` | the exchange: positions, reducing orders, fills, and which of them `userTrades` shows already (external) |
| `call[s]` with `BeginClose` ... `SettleGivesUp` | `_close_position_one_side` of side `s`: mark the intent, `positionRisk`, `new_order`, up to `SettleTries` scans, fallback |
| `cycle` with `CycleBegin` ... `DiscoverSkip` | `reconcile_cycle`: pending pass, discovery pass |
| `scan` with `StartScan`, `RepairEvent`, `RecordEvent`, `RepairFails`, `RecordRaises`, `SkipEvent` | `reconcile_symbol_closes` from the answer of `userTrades` on: grouping into events, repair of a row without ids, recording, remembering; the recorder may raise before it has appended the row (`SkipEvent`) or after it (`RecordRaises`: the row is there, and the scan takes it for not recorded) |
| `cache`, `RecordedAnchors` | `_TRADES_CACHE`, `_recorded_anchors`: the ids by the file's stamp |
| `ledger`, `logVer` | the rows recorded, with `disk` saying whether the write succeeded; (mtime, size) of `trades.jsonl` |
| `intent`, `saved` | `closeIntents[symbol]`, in memory and in the snapshot |

Everything between two awaits is atomic in the code, since these are coroutines. A scan
is one such section but writes several rows, and a crash or a failed write may come
between two of them; so it has a step for each event, `scan` names the coroutine that
owns the loop, and every other step except `Restart` waits for `scan = LoopFree`. That is
no loss: nothing that the exchange does in the meantime is seen by this section.

Data: quantities are whole units, a fill is one unit, and its PnL is the fill itself. "The
PnL is counted twice" is "two rows count the fill". Times are ticks; one tick is as long as
the thresholds in question allow (`EventGap`, `RepairTime` = 0: anything later is beyond
them; `Lookback` = 1: the discovery sees the tick before).

### 3.2 `CloseLedger`: what the log promises

Fills are executed; now and then one row that has booked nothing books fills that no row
has. Nothing booked is taken back. `CloseReconciler` implements it with
`executed` as the fills that reduce a position and `booked` as the pairs of a row of the
file and a fill it names. Restarts, failed writes, estimates, caches and intents are
all stutters or `Book` steps of this log.

### 3.3 `AutotradeSession`: who may trade, with what configuration

| in the model | in the code |
|---|---|
| `running`, `manage`, `config` | `AUTO_TRADE["running"]`, `["manageOpenOnly"]`, `["config"]`; a configuration is the number of the edit that made it |
| `cur`, `task` | `_AUTOTRADE_TASK`, and every loop task that exists: where it awaits, its copy of the configuration and of `running`, the number of its try |
| `Start`, `StopOnLoop`, `StopBegins`/`StopEnds`, `Reset`, `UpdateConfig` | the handlers; the last stop is the one in a thread, cut where it asks for the positions |
| `EnsureAlive` | `_ensure_autotrade_task_alive`, by the watchdog and by `autotrade_status` |
| `Wake` ... `Fail` | one cycle of `_autotrade_loop`, an action per stretch between the awaits that matter |
| `saved`, `drafts`, `ForcedSave`, `ThrottledSave`, `Written` | the snapshot; `persist_autotrade_snapshot`, cut between `json.dumps` and the write, on the loop (nothing else runs there until it is written) and in the thread of a stop or reset, through one `.tmp` file |
| `Refused`, `Repairs` | the repair of a refused order that asks the exchange first, with the configuration in hand |
| `Restart`, `Resume` | a new process, `_maybe_resume` |
| `qty`, `flights`, `Lands`, `ClosedOutside` | the position on the exchange, and orders that a thread still sends though nobody waits for them any more |
| `last`, `began`, `late` | history variables the properties speak of; no guard reads them. `last` says what switched the session on or off, and whether the save of a stop is still under way, got into place or did not |

A write may fail without anybody being told, and where the other saver is at work on the same
`.tmp` what gets into place may be his payload or half of one (`Unreadable`).

`CopyBack` stands for the places at which a cycle makes its own copy the configuration
(another symbol, a scan instead of the fixed symbol, a raised amount, a new margin
type). `Skip` stands for every window, gate, cooldown and pre-flight check that turns a
candidate down: what they compute is not modelled, that they may is.

`OrderPermits` is the abstract specification of what a stop is worth. The loop looks at
`running` at the head of a cycle and not again before it sends its order, so "no order after a
stop" does not hold. What holds is that a cycle which begins while the session is on gets a permit for
two orders, the second one for the single retry after a timeout; that it can lose of the permit and never
regains it; and that no permit is given while the session is off. `AutotradeSession` implements
it with `on` as `running`, `left` as what the task under way may still send (`PermitsLeft`), and `late`
as the orders sent since the session was switched off. Tasks, cancels, the watchdog, the threaded stop,
edits and restarts are all stutters or `Lose` steps of it. Orders of the operator (the manual trade) do not
pass through the loop and are not counted.

### 3.4 `PositionGuard`: who protects an open position

One symbol; entry, guardian, sweep, operator and restart in one module, because each of them
removes or restores what another has placed.

| in the model | in the code |
|---|---|
| `pos`, `resting`, `OpensUnseen`, `OrderFires`, `ClosesUnseen`, `Lapse` | the exchange: the position of each side, the TP/SL pairs that rest, what happens there by itself (external) |
| `call` with `EntryFills`, `PlaceTpSl`, `Verified`, `Warned`, `CallCancelled` | `place_futures_order` from the fill of the entry on: `_place_tp_sl`, `_verify_protective_orders`, the warning path that seeds a lock, `asyncio.wait_for` that gives up |
| `locks`, `file`, `snap` | `AUTO_TRADE["liveProfitLocks"]`, `guardian_lock.json` of the symbol, the snapshot |
| `cache` | `_LIVE_POSITIONS_CACHE` (25 s) |
| `cyc` = cutting, weighing, holding, exiting, with `GuardBegins` ... `GuardEnds` | `_live_multi_profit_lock_manage`: phases 0 to 2, the closes of phase 2, the row loop of phase 4, a hold that waits for TradingView, an exit that waits for its close, the cleanup and saves |
| `cyc.jobs` with `CloseClears`, `CloseFills`, `CloseFails` | `_close_position_one_side` as the guardian calls it: cancel all orders of the symbol, reduce, or fail without the caller knowing |
| `sweep` with `SweepLists`, `SweepReads`, `SweepCancels` | `sweep_orphan_protective_orders` |
| `UpdateSlTp`, `StartForgets`, `Saves` | the operator's edit of the levels, `autotrade_start`, any other save |
| `Restart`, `booting`, `ReconcilesAtStart`, `SkipsReconcile` | loading snapshot and files, `_startup_reconcile` |
| `earned`, `entries` | history; the number that a position is known by |

A lock is the entry it was derived from and how far its stop has been tightened since.
`Refreshed` has the rule of phases 0 and 1: a lock not yet validated keeps its levels or takes
those of the position there is, according to what the check of its entry finds (`Checks`:
it fits within 1 bp, it has drifted, the check failed), for a position of the same entry as
well, since a lock is seeded with the mark from before the order; a validated one keeps its own whatever entry
they are of. A cycle's save may fail (`GuardEnds`). That a close was asked for never says that it was made: `CloseFails` and `CloseFills`
lead to the same local state, and the lock is dropped after both.

### 3.5 `BotSupervision`: who keeps the bot running, and who keeps it stopped

| in the model | in the code |
|---|---|
| `want` | `bot_desired.json`; of the configuration only whether it names a symbol, which the watchdog asks for |
| `proc`, `bot`, `snap` | the back end's process, `AUTO_TRADE["running"]`, the same in its snapshot |
| `at["starter"]`, `at["watch"]` with `StartFinds`, `StartSpawns`, `StartWaits` | the two threads that call `hermes_service.start()`: an HTTP request and the watchdog |
| `StartBegins` ... `StartSaves`, `StopBegins` ... `StopUnanswered`, `ConfigLoads`, `ConfigSaves` | `/bot/start`, `/service/start`, `/bot/stop`, `/bot/config` of `cmux_service` |
| `WatchSees` ... `WatchUnanswered` | `_hermes_watchdog_loop`, `_bot_watchdog_maybe_resume` |
| `queue`, `Lands` | a request that timed out at its sender and is executed later |
| `Crashes`, `Hangs`, `CmuxCrashes` | faults of either process; cmux may leave `bot_desired.json` half-written |
| `adopts` | whether a foreign listener on the port counts as a running service |
| `held` | history: a stop was answered, and nobody had already decided to start |

### 3.6 `RiskCooldown`: the brake after losses

| in the model | in the code |
|---|---|
| `cool`, `snap`, `file` | the symbol's record in `riskCooldownBySymbol`, in the snapshot and in the runtime file |
| `Pruned`, `Armed`, `SameLoss` | `_prune_risk_cooldowns`, `_arm_risk_cooldown`, the signature of a record |
| `AfterStreak`, `AfterBigLoss`, `Recent`, `BigRecent` | the two causes with their windows; a big loss whose window is 0 never gets too old |
| `SavedAs`, `SavesAfter` | `persist_autotrade_snapshot`, which prunes memory by the clock before it writes, or fails to |
| `CycleBegins`, `Looks`, `Picks`, `TurnsVolatile`, `Enters`, `CycleSkips` | the head of the cycle with its sample of time and configuration; the brake with its saves in between and the blacklist; the answer of the exchange, after which a fixed symbol is asked for again (and any symbol, if there was no answer); the volatile market, an entry, every other end |
| `Closes` | a trade in the log: a win, a small or a big loss |
| `Clears`, `Toggles`, `Saves`, `Restarts` | `autotrade_start` and `autotrade_reset`, `riskCooldownEnabled`, saving, loading |

Time passes while a cycle is under way, and the cycle goes on with the time of its head, a save
with the clock. One record per symbol stands for all reasons; the last to be armed wins. The runtime file
is not emptied when nothing is left to save, so that a restart may bring a cleared
brake back.

### 3.7 `TradeLearning`: what a closed trade leaves

| in the model | in the code |
|---|---|
| `Asks`, `Counts`, `CountsElsewhere` | `_record_learning_trade`: asked on the loop or in a thread; under the lock of the symbol, or of another (`Others`), the profile is read and the day of the trade is compared with that of the daily PnL |
| `Resets`, `Dates`, `Loads`, `Stores` | the new sum, its day, and `DAILY_REALIZED_PNL += pnl` as load and store, each a step between recorders of different symbols |
| `Records`, `Raises` | the commit of the profile, or an error |
| `daily`, `snap`, `Saves`, `SavesAcross`, `Midnight` | `DAILY_REALIZED_PNL` with its day, in memory and in the snapshot, which reads the two one after the other |
| `profile`, `cache` | `profile.json` and the copy of five seconds; the number of trades it counts |
| `lock`, `loop` | who holds `per_symbol_lock`, what occupies the event loop |
| `ObserveAsks`, `ObserveReads`, `Observed` | `_record_symbol_observation`, which waits for the lock on the loop |
| `HealthLoads`, `HealthSaves` | `_record_scan_health` and `_cooldown_scan_symbol` of `main.py`, which take no lock |
| `clash` | history: recorders of two symbols, or one and a save, have met between the test of the day and the store |

### 3.8 `SymbolTuning`: one file, four writers

`symProfile` is `symbol_profile.json`: who set the parameters, the best score ever with
its parameters, when it was last tuned and reverted. `Notes` and `Records` are the recorder's
part of it, `Observes` a scan's, `tuner[t]` with `TunerIsDue` ... `TunerWrites` the thread that
each trade starts (`record_trade_outcome` with a load of its own, `optimize_symbol`, `check_revert`, `check_rollback_effectiveness`,
`_update_best_ever`, `apply_optimization`), `EditLoads` and `EditSaves`
`hermes_set_symbol_profile`. Nobody but the recorders excludes anybody, so every writer
keeps a copy (`sp`) from its load to its save. Each load may find the file unreadable, which is
answered with an empty profile and saved back as such (`Loaded`). `ratings` is history.

### 3.9 `TuningLocks`: how the supervisor's tuners keep out of each other's way

| in the model | in the code |
|---|---|
| `locks`, `MayTake`, `Held`, `NoLocks` | `_TUNING_LOCK_DOMAINS`, `_tuning_mode_lock_acquire`, and the release, which drops all domains |
| `calls` with `Begins`, `Stamps`, `TakesAlong`, `Commits`, `Drops` | the call of a tuner that each review is in, cut where another review may come in between: the test of a lock, its stamp, a further domain, the commit; or nothing to move, and the release |
| `last`, `Cooling`, `Recovering` | `supervisorAutoTune["delegations"]`, each tuner's cooldown |
| `history`, `MayRollback`, `Newest`, `Undo` | `tuningHistory`, `_tuning_should_rollback` (whether the results have become worse is a choice), `_tuning_rollback_last` |
| `Commit` | `_commit_supervisor_config_tune` (which may be refused) |
| `ScanTimeout` ... `SmallProfitCapture` | the eight `_maybe_...` tuners, each with its own order of rollback, cooldown and lock |
| `LossStreakReview` | `_loss_streak_self_review_tune`, which the loop calls after a streak of losses and which asks for no lock |
| `clash` | history: two calls in opposite directions were between test and stamp of one domain, or two reviews in calls of one tuner |

Reviews run on the loop and in threads; the steps of their calls interleave. The calls of one
review come in any order, since each calls the tuners it has findings for. A rollback and a commit are
one step each.

## 4. The runs

All runs have small constants, given in the `.cfg`. Only the two reviews of `reviews` are declared
symmetric: it makes no difference where one runs, and that run has invariants only. Elsewhere there is no
more to gain than a factor of two, and symmetry is not sound for the liveness properties.

| run | module | result | what it shows |
|---|---|---|---|
| `races` | CloseReconciler | passes, 3.4 million states | two calls (both sides) and the cycle interleaved, with a failed write, a recorder that raises, a restart and a log that may begin with a row without ids: `TypeOK`, `OnlyEstimatesRecount`, `OnlyClosesBooked`, `FillsAnchoredOnce`, `AnchorsAreFinal`, `ImplementsLedger` |
| `live` | CloseReconciler | passes, 689 thousand states | two closes, one of them perhaps not the bot's, and a restart, while time passes: `EveryCloseAccounted` under fairness, and `ImplementsLedger` |
| `recount` | CloseReconciler | violates `CountedOnce` | see 6 |
| `session` | AutotradeSession | passes, 5.8 million states | all handlers, cycles, watchdog, savers and a restart in every order: `TypeOK`, `OneLoop`, `SessionConfig`, `StopIsDurable`, `OrdersArePermitted` (the refinement of `OrderPermits`); and no deadlock |
| `loop` | AutotradeSession | passes, 170 thousand states | the same under fairness with the threaded stop: `LoopRevived`, `LoopEnds` |
| `guard` | PositionGuard | passes, 4.8 million states | two entries, guardian, sweep, operator and a restart in every order: `TypeOK`, `StopOnlyTightens`, `TighteningSurvives`, `SweepSparesHeld` |
| `guarded` | PositionGuard | passes, 202 thousand states | with two restarts, lost calls and failed closes: `ComesUnderGuard`, `PhantomLocksEnd` |
| `supervision` | BotSupervision | passes, 147 thousand states | four requests and two faults beside the watchdog: `TypeOK`, `StopHolds`, `Supervised`, `BackendRevived` |
| `cooldown` | RiskCooldown | passes, 1.2 million states | two closes, cycles, saves, edits and restarts over eight units of time: `TypeOK`, `BrakeBounded`, `NoEntryIntoLoss`, `BrakeReleases` |
| `learning` | TradeLearning | passes, 272 thousand states | two trades, of the symbol or one of them of another, over midnight with a failed write and a restart: `TypeOK`, `DailyIsOfItsDay`, `OnlyHealthTakesBack`, `DailyForgets`, and under fairness `TradesAreRecorded`, `LoopIsFreed` |
| `tuning` | SymbolTuning | passes, 551 thousand states | two tuner threads, recorders, an edit, restarts and loads that fail: `TypeOK`, `BestWasRated` |
| `reviews` | TuningLocks | passes, 8.5 million states | two reviews and three changes with refused commits, rollbacks and a restart, the calls interleaved: `TypeOK`, `LocksGovern`, `CooldownsHold` |

### Bounds and why they are enough

* `CloseReconciler`. Two orders give the bot's own close and another one (a TP, the owner's,
  the other side's, an entry). Each side of the exchange holds one unit, which each of the two orders may
  close; an order filled in two parts is left to the proofs. `SettleTries` 2 has a try that finds nothing
  and one after it. One crash and one failed write: two writers and a restart need no more to meet in
  any order, and each further one starts from a state of the same kind. In `races` the clock stands still:
  no window closes and no intent expires, so that every scan sees every fill in view, which is where a
  fill could be booked twice. In `live` it moves by one tick, which is
  enough for "later than the threshold", since every threshold is 0 or 1. `live` has calls of one side,
  since a call of either side acts on the one intent in the same way; its two orders are the bot's own
  and a TP of the same or of the other side, whose fill may surface first, so that the intent is
  popped for it. The proofs of part 5 do without all of these bounds.
* `AutotradeSession`. Two names of tasks are all that can exist: the code keeps one and
  may replace it, which `OneLoop` shows. `MaxEdits` 3 is, beside the defaults, a start and
  either another start or an edit, so that a copy can be older than the configuration it overwrites.
  `MaxPos` 1 tells a position from none; `MaxFlights` 1 has one order that nobody waits
  for while a cycle sends another. One thread saves at a time, which overlaps with the loop: a third saver
  would find the same payloads on their way. `loop` has the threaded stop only, the one that can leave a
  session without a task, and no order in flight, which no task waits for.
* `PositionGuard`. Two entries on one side: the second position meets the locks, rows,
  orders and files of the first, which is what every hazard of this module needs. One
  level of tightening tells a tightened stop from an original one. The liveness run has one entry
  and two restarts; a position that is opened again satisfies its properties at once. Orders of the
  exchange may expire and need not. The
  second side matters to the shared file and to the cancels, which reach across sides: the
  model has it, the runs have room for one, the proofs of part 5 are for any number.
* `BotSupervision`. Four requests are a start, a stop, an edit and one more; two faults let one
  process fail while the other recovers.
* `RiskCooldown`. A streak of two closes, a long and a short brake, a long and a short window (the age
  limit as long as the streak's window, as in the code), and time for each copy to expire. A window of
  0 for big losses is left to the proofs, since nothing bounds that brake. The bound `LastCause` keeps the causes in the first two units, so
  that every brake ends before `MaxTime`.
* `TradeLearning`. Of three trades two close (`MaxClosed`): both of the symbol, which compete for the
  lock, or one of another symbol, which does not ask for it and meets the first at the daily PnL. Every property
  speaks of one trade, or of a pair of writers; observations and health records come again and again.
  Two days have one midnight.
* `SymbolTuning`. Two trades start two tuners, and with the operator and an observation three
  old copies are in the air, any of which may be an empty one.
* `TuningLocks`. Two reviews share three changes: a lock is taken, dropped
  or overtaken between the test and the commit of the other, a history of two drops its oldest, and a
  rollback has something to take back, with a change before or after it. Calls under way count as
  changes (`Room`), so that each can be finished. One unit of time is the length of every lock and
  cooldown: both hold and both end.

Deadlock is checked in `session`. Elsewhere the system may really rest: the exchange of
`CloseReconciler` stops when its orders are used up, the clock at its bound; a
guard without positions, a bot that is stopped, a symbol that is not traded have nothing
to do when the bounded requests, trades and changes are used up.

### Fairness and why the code justifies it

* `CloseReconciler!Fairness`. A coroutine that owns the loop runs to its next await (weak).
  The cycle is a task that never ends and catches what its body raises, so its step comes
  however often others take the loop in between (strong). The discovery pass
  comes due every `CLOSE_DISCOVERY_INTERVAL_SEC` and does not fail for ever (strong, on
  `DiscoverRead`); with `Lookback >= MaxTime` this says that one discovery at least succeeds
  while the close is inside the window of six hours. Were the exchange unreachable for
  longer, the close would be lost to the log, and the property does not claim otherwise.
  `userTrades` shows each fill in the end (strong). Nothing is assumed of the
  calls, of the pending scans or of the disk.
* `AutotradeSession!Fairness`. Every request of a cycle has a timeout and each sleep ends, so a
  live task takes a next step; the watchdog is a task that never ends and looks every 10 s. Both
  are strong, since a save of the loop stops everything else there for a moment, and the event loop runs
  what is ready in the order in which it became ready. A save of the loop ends (weak). Nothing is assumed
  of users, of the exchange, or of the threads.
* `PositionGuard!Fairness`. A cycle that has begun and a call go on, since every request times
  out (weak); the cache is dated (weak); the loop comes round to the guardian while it manages
  positions (strong, for calls and resets get in between). That an order lapses is not assumed:
  `protectiveOrderGtdSec` may be 0, and the fallback sends no `goodTillDate`. The sweep, the restart's
  reconcile and the verification need not happen: the properties hold without them. Where the
  loop is stopped for good, nobody guards, and the properties do not claim otherwise.
* `BotSupervision!Fairness`. The watchdog is a thread that catches what it meets (weak on its own
  steps, strong on reading the wish and on a resumed start, which its retry gap or a refusal
  may put off but not for ever), and a process that was launched serves in the end.
* `RiskCooldown`. Time passes, and the loop begins cycles and gets through them, in whichever way
  (weak, on `CycleSkips`, `Looks`, `Picks` and `Enters` together).
* `TradeLearning!Fairness`. A recorder that has begun, an observation and a health record go on (weak); a recorder that waits gets the
  lock if it is free again and again (strong, on `Counts`): the scan pauses between its observations, and a
  lock that was let go is not always taken by the same thread.
* `SymbolTuning` and `TuningLocks` state no liveness: that a tuner tunes is not promised.

### Mutants

For every property of a passing run, `PROJECT.json` names a definition and a form of it
with a plausible bug: an anchor cache that ignores the file, order ids that are not
consulted, a SELL that is not tested for its side, a start that leaves the old task alone, a stop saved
with throttling, a trail that replaces the stop, a cleanup that is skipped when there is no position, a
sweep that fails open, a cycle that enters because it manages positions, a wish that is not withdrawn first, a watchdog that asks for a bot it
has not read the wish of, a brake armed without a look at the window, a blacklist gathered before the brake is armed, a daily sum that
never begins anew, a trade counted without the lock, a lock that is not given back, parameters read after their score, a tuner that
moves domains it has no lock of. TLC finds the property violated with each.

## 5. The proofs

The proof modules hold for all values of the constants that satisfy the named assumptions:
any number of orders, fills, sides, entries, ticks, crashes, failed writes, edits, tasks, trades
and restarts.

| theorem | module | statement |
|---|---|---|
| `TypeCorrect` | CloseReconcilerProofs | `Spec => []TypeOK` |
| `ScansAreIdempotent` | | `~LogReadsFail` implies `Spec => []FillsAnchoredOnce` |
| `CachesCover` | | `~LogReadsFail` implies `Spec => []CacheCovers` |
| `ScansBringNews` | | `~LogReadsFail` implies `Spec => []ScanIsNews` |
| `EstimatesAreNotRecounted` | | `~LogReadsFail` implies `Spec => []NoRecountAfterFallback` |
| `OnlyEstimatesCountAgain` | | `~LogReadsFail` implies `Spec => []OnlyEstimatesRecount` |
| `CountedAtMostTwice` | | `~LogReadsFail` implies `Spec => []AtMostTwice` |
| `EntriesAreNotBooked` | | `HedgeMode` implies `Spec => []OnlyClosesBooked` |
| `AnchorsFinal` | | `Spec => AnchorsAreFinal` |
| `LogImplementsLedger` | | `~LogReadsFail` implies `Spec => ImplementsLedger` |
| `SessionTypes`, `OneLoopAlways`, `ConfigOfTheSession`, `StopsAreDurable` | AutotradeSessionProofs | `TypeOK`, `OneLoop`, `SessionConfig` always; `StopIsDurable`: of a stop whose own write went through while no payload of a running session was on its way |
| `SessionImplementsPermits` | | `Spec => OrdersArePermitted` |
| `TwoAfterStop` | | `Spec => [](~running => late + PermitsLeft <= 2)` |
| `GuardTypes`, `StopsOnlyTighten`, `TighteningAlwaysSurvives`, `SweepAlwaysSpares` | PositionGuardProofs | `TypeOK` always; `StopOnlyTightens` (but for the one validation of a lock), `TighteningSurvives`, `SweepSparesHeld` |
| `SupervisionTypes`, `AnsweredStopsHold` | BotSupervisionProofs | `TypeOK`, `StopHolds` always |
| `CooldownTypes`, `BrakesAreBounded` | RiskCooldownProofs | `TypeOK`, `BrakeBounded` always (of big losses, where they have a window) |
| `NeverIntoLoss` | | `WindowWithinAge` implies `Spec => NoEntryIntoLoss`, unless the record ran out under way or was forgotten |
| `LearningTypes`, `DailySumsOneDay`, `DailyForgetsLittle` | TradeLearningProofs | `TypeOK`, `DailyIsOfItsDay` always; `DailyForgets`, both until two symbols meet |
| `OnlyHealth` | | `~ReadsFail` implies `Spec => OnlyHealthTakesBack` |
| `NobodyWaitsInACircle` | | `Spec => []HoldersMove` |
| `SymbolTypes`, `BestIsHonest` | SymbolTuningProofs | `TypeOK`, `BestWasRated` always |
| `TuningTypes`, `LocksAlwaysGovern`, `CooldownsAlwaysHold` | TuningLocksProofs | `TypeOK`, `LocksGovern`, `CooldownsHold` always, the last two until calls clash |

### 5.1 `CloseReconcilerProofs`

`FillsAnchoredOnce` is not inductive: a scan records what it found when it began, so the
invariant must say that what is still to be recorded is not in the file (`ScanIsNews`), which in
turn holds only because a cache that bears the file's stamp knows every id of the file
(`CacheCovers`): after a write the stamp is behind, and the next scan reads the file. Further
parts say that fresh fills are reducing ones that exist (`ScanReduces`), that a file row
has ids of fills that exist (`RowsHaveIds`) and that without a file there are no rows
(`LogStamped`). The steps are sorted into few kinds (`StepKinds`): those that do not
touch log, cache and scan; those that open a scan; those that drop one; those that record a
row, with or without the disk; the fallback; the repair. Each kind preserves each part.
Between the answer of `userTrades` and the next await nobody else writes the log: this is
where the event loop's atomicity enters the argument.

`OnlyEstimatesRecount` says how far the finding of part 6 reaches: of two rows of the file
that count the same fill, the later one is an estimate, and the earlier one is not. It needs `CountInv`
beside: the order of each call is of its own side and one that was sent (`OrdersOfCalls`), the order of an
estimate in the file is not that of any call any more (`EstimatesOwn`: the call forgets its order in the step
that writes the estimate), and a row of fills names the order of each (`RowsOfFills`). Then a second
estimate cannot be for the same order, and a scan passes over an order that the estimate has anchored.
A recorder that raises after its append changes none of this: the row is in the file, and the
next scan reads its ids by the file's stamp.
`CountedAtMostTwice` follows: of three rows that count one fill, the middle one would be an estimate and
not be one.

The assumption `~LogReadsFail` cannot be dropped: with a log that cannot be read, the same
close is recorded again (part 6). `OnlyClosesBooked` does not need it, but hedge mode, and
that a fill which surfaces is told apart by its side (`FillsTold`).

### 5.2 `AutotradeSessionProofs`

`OneLoop` needs nothing more than that a task is created only where `cur` is done, or was
cancelled in the same step. `SessionConfig` needs that the copy of each live cycle is of the
session too (`CyclesAreOfTheSession`): a reset or a restart sets `began` to 0, and a start
cancels the old task, so that no copy outlives its session. A repair that awaits carries a copy
as a cycle does.

`StopIsDurable` needs `RunningIsOn` (while `running`, the last switch was an "on"), `OffUnderWay`
(the payload of a stop whose save is under way says "off") and `OffOnDisk`: once that write has got into
place, and every other payload put together by then said "off" as well, neither the snapshot nor any
payload on its way says "running", and so it stays, since whoever saves next puts together what
memory says, which is off, and a failed or torn write leaves the old snapshot, another payload or a file that
cannot be read. Of a stop whose write fails, or that an older payload overtakes, nothing is
claimed (part 6).

The refinement of `OrderPermits` needs that a cycle which scans or checks does so because it may
enter (`Entering`, since picking a candidate does not look at `entries` again), and that nothing is late while the
session is on (`NoneLate`). The permit is that of `cur`, and by `OneLoop` whichever task takes a step is `cur`; a
step that creates a task leaves no permit (`CreatedHasNone`). The remaining steps are sorted by what they do
to the permit: `Wake` gives it, `Send` uses it up by one, all others keep it or lose of it (`HandlersShrink`,
`CycleShrinks`). `TwoAfterStop` is then a property of the permits.

### 5.3 `PositionGuardProofs`

Types need what the locals of a call and of a hold are (`Locals`): `Trails` puts back the lock it read,
and only because a hold starts from a lock is that a lock and not a stop of nothing.
`TighteningSurvives` follows from `Earned`: what the history says is neither ahead of memory nor of
the snapshot. A step spares all three; or the history follows the locks down (`Follows`);
or a stop is raised in memory alone, which is no promise yet; or the cycle ends, and if it says that it
changed something, the save is forced, and only one that went through counts as earned. `StopOnlyTightens`
is shown by going through the writers of `locks`: `Refreshed` leaves the stop of a lock that is
validated, and derives the levels of another anew at most in the step that validates it
(`RefreshedIsLock`); the cleanups drop or keep. `SweepSparesHeld` follows from `Counted`: when the
sweep read the positions there were none, and every later one has a greater number.

### 5.4 `BotSupervisionProofs`

`StopHolds` is not inductive: the bot could come back from the snapshot, from a late request or
from a thread on its way. `HoldInv` says that while a stop is held, memory and snapshot are off
and nobody is about to ask (`Nobody`: no thread asks for the bot, no edit is being written, no start waits
in the queue, and nothing on file is wanted); and that a stop which is still asking quietly has already
`Nobody`. That `want` is withdrawn before the back end is asked is what carries it.

### 5.5 `RiskCooldownProofs`, `TradeLearningProofs`, `SymbolTuningProofs`, `TuningLocksProofs`

* `BrakeBounded`: a record is armed only while its close is inside the window, if it has one, and `last` is
  the time of the close and not of the arming; the sample of time of a cycle is no later than now (`Times`).
* `NoEntryIntoLoss` argues about the end of the log. The closes a cycle has not seen came after its
  head, so its view is a prefix of the log whose times do not decrease. A streak or a big loss at the
  end of this prefix was armed by the cycle itself unless the record already bore its signature; that record
  stands at the time of the head, and excludes the symbol there and then, unless a save under way dropped it by
  the clock. Then it ran out between the head and now, which the property excepts (`left`, `RanOut`), as it does
  a record that a start or reset forgot. What is left is a record too old at the head itself, which
  `MaxAge` rules out while the loss is inside its window: this is the hypothesis `WindowWithinAge`,
  `StreakWindow <= MaxAge`. It is needed: with a window of 4 and an age of 3 TLC shows a record that is
  armed and pruned within one cycle. In the code
  both are six hours (`main.py:6406`, where no request can set the window; `trading/risk_cooldown.py:45`).
* `TypeOK` of `TradeLearning` contains that no profile counts more trades than there are. The
  invariant bounds every copy (file, cache, the locals of recorders, scans and health records) by the
  number of trades that were counted, a cardinality (`Bounds`). `OnlyHealthTakesBack` adds that
  a fresh cache and the copy of whoever holds the lock count at least what the file does, that of a
  recorder one more, and the copy of a health record at most (`FreshInv`, with `ScanInv`).
* `DailyIsOfItsDay` and `DailyForgets` share an invariant (`DailyInv`): unless symbols have met (`clash`), one recorder
  at most is between the test of the day and the store (`Alone`), and what it has tested and loaded is still what
  memory says (`Seen`). So a store adds to the sum there is, a trade of its day, and only a trade of another day
  begins a new one.
* `HoldersMove` is why `LoopIsFreed`
  can hold at all: whoever has the lock is past every wait, so that loop and threads never wait in a circle.
* `TypeOK` of `SymbolTuning` says of the file and of every copy that no time stamp in it is past the rows there
  can be; a tuner stamps the rows of now, and the old stamps of a copy are older still.
* `BestWasRated` is made inductive by saying it of every copy (`CopiesInv`): whoever overwrites the
  file does so with a profile that is `Honest` about the ratings given so far, which only grow; an
  empty one, read from a file that could not be, is.
* `LocksGovern` and `CooldownsHold` rest on what a commit does to the history (`HistoryGrows`): it
  adds one change, drops at most the oldest, and leaves the rest as it was but for `reverted`. A lock
  that is stamped has no change after it; a delegation is at least as young as the changes of its tuner
  (`HistoryInv`). Between the steps of a call it is `Stands` that carries the argument: what the call has tested
  still holds when it commits, i.e. no domain it has is held for the opposite, its tuner is not cooling and in no other
  call. The steps that could break it are those that set `clash`.

### 5.6 What is only model-checked

All liveness (`EveryCloseAccounted`, `LoopRevived`, `LoopEnds`, `ComesUnderGuard`, `PhantomLocksEnd`,
`Supervised`, `BackendRevived`, `BrakeReleases`, `TradesAreRecorded`, `LoopIsFreed`) depends on
fairness and ENABLED and is beyond the prover. Every other property of a passing run, invariant,
action property or refinement, is stated by a theorem, with `HedgeMode`, `~LogReadsFail`, `~ReadsFail` or
`WindowWithinAge` as its hypothesis where the table says so. The violation is a counterexample and
needs no proof.

## 6. Where the code does less than its comments say

Checked as a run:

* `recount`: the cycle records the fills of a close between the accepted order and the
  call's scan; the scan then finds nothing new, the call takes that for "no fills" and writes its
  estimate as a second row (`exchange/futures_orders.py:951`). `OnlyEstimatesRecount` and `CountedAtMostTwice`
  bound the damage: only an estimate counts a fill again, and it is never counted a third time. The
  other way to such an estimate is a recorder that raises after it has appended the row
  (`trading/learning.py:1539`, caught at `trading/close_reconciler.py:476`): the call takes its own scan for
  empty.

Met while modelling, and in the models as the code has it; the properties say what is left:

* `userTrades` shows one part of a MARKET close before the other; the first scan
  anchors the order id, and the rest of the order is passed over for ever
  (`trading/close_reconciler.py:454`). `EveryCloseAccounted` speaks of orders for this reason.
* A TP triggers just before the call's own order; its fill is recorded, the call counts it as its
  own and pops the intent (`exchange/futures_orders.py:944`). The discovery pass still finds
  the own fill later.
* One failed read of `trades.jsonl` counts as an empty log, and each close of the window is
  recorded again (`trading/close_reconciler.py:217`). A profile that cannot be read counts as empty and is
  written back so, with all its counters (`trading/per_symbol_storage.py:118`) or all that was tuned (`:146`).
* `running` is sampled at the head of a cycle; a stop in the middle does not keep the cycle from
  sending its order (`main.py:7359`). `OrdersArePermitted` says how many may follow a stop: two, of one cycle.
* A cycle, or a repair of a refused order, writes its copy over an edit accepted in between (`main.py:6579`,
  `:7466`). Within the session only: `SessionConfig` is proved.
* With positions open and no live task, a stop on the threaded route raises before it
  saves; a restart resumes the session (`main.py:7716`). A stop that answers is not durable in each case
  either: a failed write is swallowed (`trading/state_ops.py:227`), the stop's thread and the loop write through
  one `.tmp` file (`:197`), so that a payload put together before the stop may get into place last, and a start that comes
  while the threaded stop asks for the positions makes it write that the session runs. `StopIsDurable` is about
  the stops whose own write went through while nothing of a running session was on its way.
* In the same way a failed write of `bot_desired.json` is swallowed (`cmux_service.py:337`), and the stop then
  answers with the old wish on file.
* `session_validated` is meant "once per process life", but is saved with the lock and kept by the call
  that seeds one, so that a lock may go on with the levels of an earlier entry
  (`trading/live_guardian.py:1186`). A lock just seeded, on the other hand, has the mark from before its order as
  its entry (`exchange/futures_orders.py:1093`); when that is more than 1 bp off, the first cycle derives the levels
  anew for the same entry, and may loosen the stop or undo an edit (`trading/live_guardian.py:1217`). It does so
  once, which `StopOnlyTightens` excepts.
* `_prune_risk_cooldowns` looks at the clock in each save, the cycle at the time of its head: a record that was armed in a
  cycle and runs out under way is gone when the blacklist is gathered, and the symbol may be entered
  (`main.py:6438`, `:6477`). `NoEntryIntoLoss` says that this is the only way but a start or reset.
* With `bigLossCooldownRecentWindowSec` 0 a big loss never gets too old (`trading/risk_cooldown.py:142`), and
  its brake is armed again each time it has run out, until the symbol closes another trade. `BrakeBounded` and `BrakeReleases` are about windows above 0.
* The daily PnL is one for all symbols, the lock is each symbol's (`trading/learning.py:1291`): two recorders of
  different symbols, or one and a save, between the test of the day and the store lose a trade of today or
  put one into the sum of another day; the snapshot reads the sum and its day one after the other
  (`trading/state_ops.py:189`). `DailyIsOfItsDay` and `DailyForgets` hold until that happens.
* The recorders merge what they learned into a profile they have not loaded, so that
  `autotuneBestEver` is gone after each of them (`trading/learning.py:1388`, `main.py:1641`), against
  "go back to best-ever known params" (`trading/symbol_autotuner.py:7`).
* A commit through `trading/supervisor_state.py:355` replaces the whole configuration by the review's copy; the
  comment at `main.py:878` says that this clobbering was fixed.
* The release of a lock drops all domains (`trading/supervisor_state.py:98`), so that opposite tuners meet within
  the lock window after all, against "no longer fight each other across the lock window"
  (`:38`). `LocksGovern` says what does hold: while the lock is there.
* The test of a lock and its stamp are not one (`trading/supervisor_state.py:79`, `:92`), and reviews run on the
  loop and in threads: two calls in opposite directions may both pass, and two reviews may both run the same
  tuner past its cooldown. `LocksGovern` and `CooldownsHold` hold until such calls meet.
* `_loss_streak_self_review_tune` (`main.py:3566`) commits entry keys to the same history without asking for the
  lock, also against one that holds them for loosening; its rollback restores metrics and no keys.
* The review widens the scan itself without asking for its lock (`main.py:8680`).
* A rollback is triggered by any change of the last four hours but takes back the newest
  (`main.py:792`, `:824`), and may itself be taken back.
* The cooldown of the payoff tuner compares a signature that is never stored (`main.py:655`), that of small
  profits only goes into the report (`main.py:1482`). `CooldownsHold` is therefore about the four that wait.

## 7. What is not modelled

* `CloseReconciler`: one symbol. `_close_position`, which closes a whole symbol and records
  from a thread, is one party more. The answer of `userTrades` is not cut at a hundred rows.
  `find_untracked_positions` only logs. Profiles derived from the rows are arithmetic.
* `AutotradeSession`: further writers of the configuration (adopting positions, editing SL/TP,
  the supervisor's delegated changes, the drift of the scan) change the one in memory
  without an await in between where they run on the loop. A review in a thread is not in the model: its commit may
  replace the configuration by the copy the review began with (`trading/supervisor_state.py:355`), across a start as
  well, so that `SessionConfig` says nothing of it. Nor are two threads that save at once. Of the guardian there is only that it may close the
  position or hold it. What gates, scans and the pre-flight compute is a choice.
* `PositionGuard`: one symbol; the growth of a position by a second fill; stop and reset that wipe the
  locks in the middle of a cycle (a start does); locks dropped because they are two hours old;
  peak, arming and the values of levels; what makes the guardian want a close. A save is one step, which
  may fail where the guardian makes it; savers that overlap are in `AutotradeSession`.
* `BotSupervision`: a back end that hermes_service did not launch itself; two requests of the same kind at once; the
  learning scheduler and the status cache of cmux; a write of `bot_desired.json` that fails while its process
  goes on (one that a crash cuts short is in the model).
* `RiskCooldown`: the global pause of older snapshots, the limit of the look-back of a streak.
* `TradeLearning`: of other symbols there are the trades only, each of a symbol of its own; `daily_stats.json`
  and the contents of a profile, which are arithmetic. Reads that fail are in the model
  (`ReadsFail`) and out of its run.
* `SymbolTuning`, `TuningLocks`: scores, candidates and values, and their merging into the configuration; the
  recovery of TradingView. A commit is one step, and so is a rollback with the release of the locks.
* Not planned, for they keep no state that a later step of the trading reads: scores, indicators, presets and
  sizing (functions of market data and configuration in floating point), texts of the supervisor's
  review and the kanban of the agents, HTTP and signing, notes, the dashboard and scripts. They
  are the greater part of the lines of `src`, as is the copy of an earlier `main.py` under
  `src/.hermes-backups`, which nothing imports. The PineForge engine is a
  submodule that is not in the repository.
