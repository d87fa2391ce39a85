# Formal model of the NiceHash hashrate autobidder

TLA+ modules that model the decision-making core of the autobidder in
`packages/daemon` and the client it trades through, the TLC configurations that check them
on small instances, and machine-checked (TLAPS) proofs of the results that matter most.
Paths below are relative to `src/packages/daemon/src/` unless they begin otherwise; `N/` is
`controller/nicehash/`.

Contents: 1 the system · 2 the modules and the code they model · 3 the runs ·
4 fairness · 5 the proofs · 6 findings and limits · 7 what is not modelled ·
8 the plan · 9 how to run it.

## 1. The system

The repository is a fork of the Braiins "Hashrate Autopilot". Two daemons share
one package: `main-nicehash.ts` (the product of the fork) rents hash power on the
NiceHash marketplace; `main.ts` (upstream) keeps one Braiins bid and runs the
household services around it: alerts, payouts, deposits, dynamic DNS, miners.
Both are single Node processes over one SQLite file. There are no threads: two
activities interleave only at an `await`, and what makes the code hard is what can
happen at those awaits, what a restart forgets, and what the exchange knows that
the daemon does not.

### 1.1 Components

| Component | State it keeps | Operations | Talks to | What is hard | What makes it correct |
|---|---|---|---|---|---|
| **NiceHash bid pricing** (`N/tick.ts`, `observe.ts`, `decide.ts`, `gate.ts`, `execute.ts`, `controller.ts`) | per-order maps in memory: under-fill since, ladder, decrease and edit clocks, last raise; in the ledger: last price change | one tick: observe, decide, gate, execute, persist | NiceHash API, ledger, run mode, settings | lost answers, manual edits between read and edit, restarts that forget clocks, ledger writes that fail, five timers that hold edits back | never above the ceiling; raises slow and only for a starving order; decreases at the exchange's pace; the price still reaches its market |
| **Market floor** (`N/orderbook.ts`, `observe.ts`) | zero-rig streak of every competing row, hysteresis of the floor | one order-book read | pricing | single wrong readings, islands and dust, cold starts, freezes | the exposed floor is the bottom of a real filled block, and noise does not lift it |
| **NiceHash order lifecycle** (`N/wire.ts`, `decide.ts`, `execute.ts`, `pool-manager.ts`, `state/repos/nicehash_orders.ts`) | ledger of our order ids, registered pool, pool key | create, cancel extras, refill, adopt, re-register the pool | NiceHash API, settings | answers lost after the order exists, lagging lists, stale escrow, orders by hand | one order, no money twice, the pool of the settings |
| **NiceHash client and service** (`packages/nicehash-client`, `services/nicehash-service.ts`) | attempts of a call, pages of a walk | signed calls, retries, paging | everything above | which calls may be retried, a book that changes between two pages | no mutation twice, the whole book |
| **Run mode, settings, boot** (`N/settings.ts`, `N/state-store.ts`, `main-nicehash.ts`, `http/nicehash-server.ts`) | run mode in memory, settings row, the tick guard | set run mode, save config, boot, start a tick | every tick | two copies of the mode, read-await-write handlers, two starters of ticks | LIVE only on request, a pause stays a pause, ticks never overlap |
| **Braiins bid controller** (`controller/*.ts`, `http/routes/actions.ts`) | ledger of our bids, decrease stamps, run mode, failure counter of Datum | tick: decide, gate, create, edit, cancel, pause | Braiins API | asynchronous cancels, unknown bids, lost inserts, fee halt, a second tick from the dashboard | one bid; pause when in doubt and only then; decreases paced |
| **Tick loop and shutdown** (`controller/loop.ts`, `main.ts`, `services/telegram-receiver.ts`) | the tick in flight, the receiver's sleep, the fence | start, stop, tick, signal | the controller, the HTTP server, the database | a stop during a tick, a wait that outlasts the fence | ticks do not overlap, none outlives `stop()`, an exit is clean |
| **Alerts** (`services/alert-evaluator.ts`, `alert-manager.ts`, `state/repos/alerts.ts`, `notifier.ts`, `telegram-receiver.ts`) | state of each event class, the alerts table | evaluate, record, deliver, retry, acknowledge, mute, hydrate at boot | Telegram, both main loops | evaluations and retry sweeps nobody awaits, restarts between a message and its record | one alert and one recovery per outage, bounded retries |
| **Payout observer** (`services/payout-observer.ts`, `alert-evaluator.ts`, `main.ts`) | reward events, the address they were filled for, the mark of what was announced | scan, backfill, address change, announce | electrs/bitcoind, alerts | several writers, an address change in a scan, a baseline taken before the history | every output recorded and announced once, rows of one address |
| **Deposit watcher** (`services/braiins-deposit-watcher.ts`) | rows and flags of deposits, whether the first poll is over | poll, announce, baseline | Braiins API, alerts | a crash between alert and flag, overlapping polls, a broken-off baseline | each event announced once, silence for the backlog only |
| **Dynamic DNS** (`services/ddns-updater.ts`, `public-ip.ts`) | last push, known address | push, test button, config saved | DNS provider | four callers of one push, edits of the hostname, late answers | the configured name points here, the snapshot does not lie |
| **Hashprice oracle** (`services/nicehash-hashprice.ts`) | last value | refresh | dynamic cap | staleness | a cap from a current price |
| **Rest** | charts, statistics, pruning, setup wizard, dashboard | reads and append-only history | | little | |

`PROJECT.json` lists every part with its sources and its status, and the hazards of the
code at the lines where they bite, with the properties that cover each.

### 1.2 How the modelled parts fit together

```
 NiceHash daemon
   settings / run mode (RunModes)  --mode, at the start of a tick-->  tick
   book pages (OrderBookWalk) -> book (FloorAnchor, TierSmoothing) -> floor -> price (BidControl, PricePolicy)
   order list (OrderLifecycle) --the one order ours---------------------------^
   every call of them (NiceHashCall): applied once at most, or unknown
 Braiins daemon
   loop, dashboard, signals (TickLoop) --> ticks (BraiinsDecide, BraiinsBid)
   ticks --> alert evaluations and sweeps (AlertLifecycle), payout announcements (Payouts)
   timers --> polls (Deposits), scans (Payouts), pushes (DynamicDns)
   ticks, saved settings --> the configuration holder (Payouts, DynamicDns)
```

Each module takes what it gets from the others as an unconstrained input: `BidControl`
draws any floor of `Anchors` on any tick, which covers every floor `TierSmoothing` can
expose; it switches `mode` at any moment, which covers every interleaving of `RunModes`;
it prices one order, which `OrderLifecycle` shows is what a tick is left with. `BidControl`
and `OrderLifecycle` let a mutation be applied and its answer be lost, and never apply it twice:
`MutationOnce` proves that this is what the client gives them. `BraiinsBid` composes the ticks of the
loop with those of the dashboard; `TickLoop` proves that the loop's own never overlap, which is
why `BraiinsBid` has one tick of each. The rest of the composition is by over-approximation.

`Ascending` has the one helper several modules share: the ids the daemons sort before they go
through them (`InOrder`).

## 2. The modules

### NiceHash bid pricing

* **`PricePolicy`** - the pure rules: `decPrice` (execute.ts floors to the grid),
  `effectiveCapBtc` and `dynamicCapPrice` (types.ts), `nextEscalation` (one step of the
  ladder), `TrackTarget` / `walkDownTo` / `walkUpTo` / `EditTarget` (decide.ts). Prices are
  integers of a sub-unit, `Grid` of which make a 0.0001 step, so off-grid floors and caps,
  and the flooring of execute.ts, are in the model; the epsilons of the source are not,
  because the arithmetic here is exact.
* **`BidControl`** - one managed order. A tick is cut where the code awaits something that
  another actor can race:
  `StartTick` (controller.ts reads run mode and stamps the time) →
  `ObserveBlind` / `ObserveUnpriced` / `ObservePriced` (the reads, with the synchronous
  decide and gate) → `Send...` (the exchange applies, refuses with 5061 or 5110, or the
  call fails, applied or not) → `Persist...` (the answer's bookkeeping; the ledger write
  may throw). `Elapse` advances every clock; `SetMode`, `ManualEdit`, `Restart` come
  anywhere. A stored instant is modelled by the time left until it, so a state holds small
  numbers only. The variables correspond one to one: `graceWait` = `underFilledSince`,
  `ladder` = `escalationByOrder`, `decWait` = `decreaseAvailableAt`, `editWait` =
  `editAvailableAt`, `raiseWait` = `lastRaiseAt`, `stampWait` = the row's
  `last_price_change_at`. Four bookkeeping variables (`upsets`, `probeDue`, `recorded`,
  `fedAge`) exist for the properties only; no action of the code reads them.
* **`PacedBid`** - the abstract promise: what someone who sees only the order's price may
  rely on (rises bounded in size and rate, drops bounded). `BidControl` implements it under
  a refinement mapping (`RaisesArePaced`).
* **`StillMarket`** - `BidControl` in a market that holds still and clears from some price
  on: the liveness properties. `walkUp` fixes for a behaviour whether the ladder is on; with it
  off the observations come from a second instance of `BidControl`. `MCBidControl` fixes
  constants.

### Market floor

* **`FloorAnchor`** - `computeMarketAnchor` of one book: filled rows, the marginal, the
  scan of the contiguous filled run, rounding up to a filled row.
* **`TierSmoothing`** - what observe() remembers between books: the debounce of a row's
  miners (`AfterRead`), the upward hysteresis (`applyTierHysteresis`), the freeze on
  ambiguous recoveries (`Ambiguous`) and the clamp to the marginal (`Exposed`). `Read`
  performs them in the code's order; `Fail` and `Reboot` are the other two things that
  can happen to the memory.
* **`NoisyMarket`** - adds what the market really is while only its reporting is noisy.
  `MCTierSmoothing` builds the books: five rows, two on one level, one of dust.

### NiceHash orders, client and service

* **`OrderLifecycle`** - several orders, each with a worker and an escrow; the ledger; the
  registered pool. `Reload` / `RunNow` start a tick from the loop or the button,
  `Observe` computes the proposals (create, cancels of extras, refill) from the list the
  exchange shows, `Execute` works through them, `Persist` records a create.
* **`NiceHashCall`** - one call of `nicehash-client/src/client.ts`: every attempt, which
  failures `isTransient` lets it repeat for the class of the endpoint, and what the exchange makes
  of a request the client has given up (`stray`). **`SingleEffect`** is its abstract
  specification: the order is touched once at most, and the outcome says whether it was.
* **`OrderBookWalk`** - `NiceHashService.getOrderBook()`: the pages are read one by one from
  a book in which orders come, leave and move meanwhile.

### Run mode

* **`RunModes`** - both handlers cut at their awaits (`AskMode` → `ReadForMode` → `StoreMode`;
  `AskConfig` → `ReadForConfig` → `StoreConfig` → `ApplyConfig`), any number of them in flight
  because nothing serialises them, each of which may end in an error (`RequestFails`); the boot
  resolution of all three boot modes; the `ticking` guard. `wanted` is what the operator last
  chose, or else the boot; `chose` says that it was the operator, `crossed` that this choice met
  another request in flight or was not saved.

### Braiins bid

* **`BraiinsDecide`** - decide(), gate() and the depth walk of the order book as functions of
  the observed state: proposals in their order, the run-mode and fee rules, the target price with
  cap and deadband, the speed with cheap mode.
* **`BraiinsBid`** - the account's bids with Braiins' asynchronous cancels, the ledger, the
  decrease stamps and the run mode, under ticks of the loop and of "tick now". A tick reads the
  database (`StartTick`), observes and decides (`Observe`, `ObserveBlind` when the list of bids
  fails), and executes its jobs one by one; a call and the write that follows it are two jobs,
  because the process may die or the answer be lost between them. `placed` keeps, for the
  properties only, what the tick that placed a bid could not know.

### Tick loop and shutdown

* **`TickLoop`** - the interval with its in-flight guard, `stop()`, the Telegram receiver with
  its sleeps, the shutdown that awaits one after the other, and the fence that ends it by force. A
  promise settles in one step (`TickEnds`) and those who await it go on in another (`Release`,
  `LoopStopped`).

### Alerts

* **`AlertLifecycle`** - one recoverable event class: `Tick` starts an evaluation and a
  sweep and waits for neither, so those of earlier ticks may still be in flight (`tasks`);
  `Reach`/`Decide` are runTransition; `Insert`, `Get`/`NextDue`, `Send`, `Mark` are recordAlert,
  processDueRetries and attemptDelivery, each a step of its own because each awaits. `overlaps`
  counts, for the properties only, the ticks that found an earlier task in flight.

### Payouts, deposits, dynamic DNS

* **`Payouts`** - reward_events with its AUTOINCREMENT ids, the scans, the backfill, the
  wipe and refill of an address change, and the announcements. A tick ends by writing the address it
  read at its start into the configuration holder and by starting an evaluation nobody waits for
  (`EndTick`); when it comes to the payouts it reads the rows above the mark (`ReadRows`) and tells
  them one by one (`Tell`), while the next may already read above the same mark. Between the
  answer of the database and the next statement nothing gets in: the SQLite driver is synchronous,
  so steps are cut where a call leaves the process (electrs, bitcoind, Telegram).
* **`Deposits`** - a poll reads the page (`StartPoll`), visits its deposits (`Visit`: the row is
  written and read back), and works off what the flags leave to announce: `Absorb` without,
  `RecordAlert` and `MarkNotified` with a message.
* **`DynamicDns`** - four callers of one push (`Timer`, `Refresh`, `SaveConfig`, `Test`), each
  with at most one request in flight; `Apply` is the provider taking it, `Land` its answer, which may
  come much later.

## 3. The runs

Ten runs pass, two exhibit a disagreement between the code and what it says of itself
(section 6). State counts are distinct states.

| Run | States | What it asks |
|---|---|---|
| `bid_control` | 975 k | With floors 3 and 6 (off and on the grid), a fixed cap, a dynamic cap that comes and goes, any fill reading at any price, failed reads, every answer of the exchange and two upsets anywhere: is the ceiling respected (`CeilingRespected`), are raises only for starving orders (`RaiseOnlyWhenStarved`), do the clocks cover the exchange's (`ClockCovers`), is a refused decrease asked at most once per cause (`OneProbePerDisagreement`), and is `PacedBid` implemented (`RaisesArePaced`)? |
| `bid_liveness` | 61 k | A still market that clears below or above the ceiling, an upset anywhere. Walk-up on: `KeepsReachingClearing`, `KeepsProbingDown`, `ClimbsToCap`. Off: `SettlesOnFloor`. |
| `tier_smoothing` | 11 k | Any sequence of 48 books, failed reads and restarts: `TiersInv` (the floor is the bottom of a block, within the market, and follows a stable one), `RisesAreConfirmed`, `FlickerIgnored`. |
| `order_lifecycle` | 464 k | Two upsets of any kind: `DuplicatesNeedUpset`, `OrdersInv` (no escrow beyond what the upsets explain), `SettlesOnOne`. |
| `run_modes` | 253 k | All three boot modes, two requests in flight that overlap in any order and may fail, restarts anywhere: `TicksNeverOverlap`; the daemon is LIVE because that was chosen (`NeverLiveUnasked`); a choice is what is stored and what runs, whatever is saved after it (`ChoiceIsStored`); a pause outlives a restart (`PauseSurvivesRestart`) and ends the trading (`PauseTakesEffect`). The choices that crossed another request are excepted by name (section 6). |
| `alert_lifecycle` | 1.02 M | Two outages, two evaluations and two sweeps in flight, two upsets, of which an overlapping tick takes both: `AlertsInv` (one alert per outage, one recovery per alert, attempts bounded, a seen row sent once more at most, and one more of each per overlapping tick), `EveryAlertSettles`, `LastingOutageAlerts`, `RecoveryFollows`. |
| `braiins_bid` | 180 k | Two bids, two ticks, one upset: a second bid has an excuse (`TwinsHaveExcuse`), no stranger is cancelled (`BidsInv`), the daemon pauses itself only over a stranger (`NoFalseAlarm`) and then always (`StrangersStopTrading`), decreases keep their period (`DecreasesPaced`), extra bids go (`ExtrasGo`). |
| `payouts` | 849 k | Scan, backfill, ticks, two evaluations in flight, one upset: rows of one address (`LedgerInv`), nothing announced again but after a wipe or beside a slower evaluation (`ToldOnce`), everything recorded (`EveryPayoutRecorded`) and what is new announced (`PayoutsAreTold`). |
| `deposits` | 626 k | Two deposits, two polls, one upset: `AlertedOnce`, `SilenceIsForBacklog`, `NoCreditAfterReturn`, `ReturnsAreTold`. |
| `ddns` | 670 k | Two hostnames, two addresses, three upsets: the snapshot does not lie (`SnapshotHonest`), and the record of the configured name is right in the end (`RecordFollows`). |
| `payout_history`, `shutdown` | | violations, section 6 |

`NiceHashCall` and `OrderBookWalk` have proofs and no standing run: what is claimed of them holds for
every number of attempts, every book and every page size. Before they were proved they were
model-checked with three attempts of every class (45 states) and with four orders on pages of two
(5 million states).

**Bounds, and why they are enough.**

* `MaxUpsets` bounds what the environment may do out of turn: restarts, lost answers,
  manual edits, mode switches, acknowledgements, evaluations that overlap. Two are enough for every pair: a lost
  answer and then a restart, an edit by hand during a tick and a failing write. Everything
  that is ordinary (failed reads, refusals, wrong fill readings) is not counted. Where one upset
  is the bound (`braiins_bid`, `payouts`, `deposits`) the property says what a single
  one may cost, or the instance is the largest that stays within a few minutes; polls of
  deposits, scans and ticks overlap freely beside it, and `deposits` is proved for any number.
* `Requests`, `Evals` and `Sweeps` bound what is in flight at once: two of a kind show every way in
  which one overtakes another. A tick of `AlertLifecycle`, or an evaluation of `Payouts`, that
  would be a third is left out. The theorems about all three modules are for any number.
* Time is counted in units: grace 1, raise interval 2, cooldown 3, settle window 1. They
  are pairwise distinct where the code compares them, and the cooldown is the longest, as it
  is in the code (10 minutes). `MaxLatency` = 1 lets a tick last one unit, which is what
  makes `raiseWait` differ from the exchange's view.
* NiceHash prices run over a few grid steps; `Grid` = 2 makes half the floors fall off the grid. An
  `EscStep` of 3 is no multiple of the grid and a `DownStep` of 4 is. `Overpay` = 1 and a fee of
  25 % make the caps fall off the grid too.
* Books of the market floor have five rows on four levels: enough for a run of two levels, a
  breaker in it, an island below it, a shared level and a dust row. `MaxSame` = 4 is the number of
  equal reads after which the smoothing must have forgotten (2 to confirm the rows, 2 for the floor).
* Four NiceHash order ids: at most two orders by each of two upsets. When they are used up
  nothing can be created (`CannotCreate`); so `SettlesOnOne` exempts that state, as it does an
  empty account. Draining is possible but not fair, so the behaviours in which the money lasts
  are the ones it says most about.
* `MaxAttempts` = 2 stands for 5: the first attempt and one retry, the second of which gives
  up. `Outages` = 2 is enough to confuse an outage with the one before it; the proof has no bound.
* Three books (one fillable and cheap, one over the cap, one empty) and a hashprice that comes and
  goes give `BraiinsBid` every branch of its pricing; a bid is shown at one price and one
  speed, from which it can be raised, lowered and kept. Two bids are a pair, and `DatumDown` = 2 stands
  for the code's 3: one failure is not enough, the next is.
* `payouts` has an old output to one address, a transaction with two outputs to the other, and the scan
  by electrs; the side scan by bitcoind is in `payout_history`. One output of the transaction can be moved
  on before a scan has seen it, which is what the backfill's skip rule must be tried on.
* `shutdown` uses the code's own seconds (fence 8, nap 15, backoff 2 to 60).

Deadlock is checked in every run but `shutdown`, whose process ends.

## 4. Fairness

* The loop of `main-nicehash.ts` (325-338) is `while (!stopping)`: it reloads, ticks in a
  `try`, and sleeps; nothing in it can end it. That of `main.ts` is an interval. Every API call has
  a timeout of 15 s and every Telegram send one of 10 s, so each step of a tick that has begun
  ends: weak fairness of `StartTick`, `Observe`, `Send`, `Persist`, `Tick`, `EvalStep`,
  `SweepStep`, `Execute` and of the handlers, and of the passing of time.
* Timers fire for ever and requests are answered or aborted: weak fairness of `Poll`, of
  `StartBackfill` and what follows it, of `Timer`, `Refresh`, `Apply`, `Land`, `Expire`.
* Reads and edits may fail any number of times but not always: strong fairness of
  `StillPriced` and `SendApplied`, of `ObserveFully`, of Braiins' `CancelBid`, and, because the
  dashboard may start ticks in between without a reload, of `Reload`. `BraiinsBid` adds that the loop
  reads a price again and again. These are assumptions about the exchange and the operator, not
  about the code.
* Nothing is assumed of the operator, of restarts, of outages, of an order spending its
  escrow, of a deposit or payout moving on. Liveness of the bid is stated under `LiveForGood`: the
  operator leaves it in LIVE.

## 5. The proofs

The theorems hold for every value of the constants, under the named assumptions of
the modules, which TLC evaluates on the instances, or under the assumption the theorem states.

**`BidControlProofs`.** `TypeCorrect` is inductive as it stands, action by action; its only
arithmetic is that the prices an edit asks for are integers, from `EditTargetBounds` and `CapIsInt`.
The others are not inductive:

* `CeilingTheorem`, `StepsTheorem` follow from **`JobInv`**, a statement about the edit on its
  way: it was chosen for an on-grid price, it moves by a grid step at least when it rises, it
  respects the tick's cap or is the full decrease, and it keeps to the steps.
  Flooring could undo each of them; `DecPriceFloors` and `DecPriceKeepsGrid` show that it
  does not, and why a `DownStep` that is a multiple of the grid is needed for the lower bound.
* `StarvationTheorem` follows from **`GraceInv`**: the grace clock never runs ahead of the
  starvation it measures (`fedAge + graceWait >= Grace`).
* `ClockTheorem` and `ProbeTheorem` follow from **`ClockInv`**: unless a cause for
  disagreement is pending (`probeDue`), the clock the gate will use covers the exchange's, or the answer
  that will correct it is on its way; and a change the ledger recorded is covered by its
  stamp. The strengthening is the middle of a tick: between the exchange's edit and
  `persist()` the clock does lag, and only the pending reply repairs it.

* `PacedTheorem` is the refinement of `PacedBid`. Its steps are those of the exchange: `PaceInv` adds
  to `JobInv` that a raise on its way was paced, an edit that is carried out maps to `Raise` or
  `Lower` (to `Overwrite` when the operator changed the price in between), a restart to `Forget`, the
  passing of time to `Pass`, and everything else to a stutter. It assumes what the promise is about:
  walk-up is on, without which the daemon goes straight to the floor, and the exchange's decrease step
  is a whole number of grid steps, without which the flooring takes more than it allows.

The last sections of the module are about the market floor the price follows.

* `FloorIs` says what `Floor` computes for any book, without the scan (`IsFloor`): the price of a row the
  scan takes for filled, no breaker between it and the dearest such row, and a breaker above every
  cheaper one. It needs that the rounding-up never lands on a row that is still recovering: all of the
  run below its top is filled or looked through, and a filled row is never looked through.
* `TiersTheorem` and `RisesTheorem` follow from **`SmoothInv`**. `Debounced` counts: after n equal reads
  every row's counter is through or has come to n. `CandidateInv`: the last read that counted reached the
  candidate. `SettlingInv` is the measure behind `ConvergesWhenStable`: how many more equal reads the
  hysteresis needs at most, 2 ConfirmTicks - 1 of them, because a candidate that lies below the floor is
  confirmed first and only then the floor itself. So the reads that must agree are
  ConfirmReads + 2 ConfirmTicks - 2, four with the code's constants, and `MaxSame` counts that far.
* `FlickerTheorem` follows from **`QuietInv`**: in a quiet market only the row that was just misread has a
  counter under way (`QuietStreaks`). Such a row is looked through, or not yet taken for filled, so the
  breakers are those of the true book and only filled rows may be missing; `FloorUnique` then says that
  the floor is the same as long as one row on it is not. It assumes what the code's constant is for,
  ConfirmReads >= 2. Stating it for every book showed that it is a promise about rows with miners
  only: a book that reports no miners at all is taken as it is read (section 6, *Floor*).

**`AscendingProofs`.** `InOrderSorts`: every finite set of numbers has an ascending order, and
`InOrder` is a bijection onto the set. It goes by the least counterexample, because the library's
induction rules are out of reach; the proofs of the orders, the bids and the payouts rest on it.

**`OrderLifecycleProofs`.** `OrdersTheorem` follows from **`LifeInv`**: what is behind each proposal
of a tick until it is executed (`Fits`, `JobsInv`). A create is alone in its tick; a top-up is the last
job, for the order that was kept, and what it adds was justified by the escrow the tick read, or by
one of the misreadings that `Cap` counts. It assumes Budget > 0: without a budget the daemon
puts the whole balance into a new order, which no constant of the code bounds. `DuplicatesTheorem`
needs no such assumption. Its invariant, **`DuplicatesInv`**, is existential: some set `C` of at most as many
orders as there were upsets accounts for all live orders of the daemon but one, which the ledger has or is
about to have (`Accounts`). The count alone is not inductive: what keeps it is which orders the
next observation will find, and that a create on its way leaves no room for another.

**`BraiinsBidProofs`.** Four theorems from one invariant, **`BraiinsInv`**. A first part shows
what decide() and gate() make of any observation (`DecideFacts`, `GatedFacts`, `PlanFacts`): which jobs
there are, in which order, for which bids. A second says what holds of each job that is still to be done
(`Fits`), of a tick that runs alone (it still has the ledger it read), of two that run at once
(neither is `Alone`), and of a decrease that has no stamp (`LostStamps`: the write is the next job, or
something was lost). `BidsTheorem`, `TwinsTheorem` and `AlarmTheorem` follow: the last two because a tick
to which nothing happened acts on what is still true. For `DecreasesTheorem` a decrease needs its
bid out of the stamps, which by `LostStamps` is out of the window as well.

**`PayoutsProofs`.** `LedgerTheorem` and `ToldTheorem` follow from **`PayoutsInv`**. `Inserted` is
what the INSERT guarantees (old rows stay, new ids are above every id that was ever given, an output gets a
row only if it has none); `OneRow` follows. **`ToldInv`** counts, for every payout,
the messages that were sent and the evaluations that have one waiting (`Counted`): together they are at most what there was a cause for (`Cause`, the wipes and
the overlaps), and less than that while another one can still come, because none of its rows is behind the mark
or in a queue (`Fresh`). So it holds for any number of evaluations in flight:
one that reads the ledger beside another is a cause of its own. **`Steady`** is what an
undisturbed change keeps: the holder, the tick, the scans, the backfill and the refresh in flight are
all for the configured address. The attempt to prove it refuted an earlier form of `LedgerInv`, which
held with one upset and fails with two (section 6, *Payouts*).

**`AlertLifecycleProofs`.** `AlertsTheorem` proves the whole of `AlertsInv` for any number of
evaluations and sweeps in flight. The counts of the promise are not inductive: what is in flight
will be counted later, so the invariant counts it beforehand. **`DeliveryInv`** is about one row and the
tasks that have yet to send it (`Unsent`): together with the messages that were sent they stay
within the bounds (`Delivered`), and a row that is in nobody's hand and still due has an attempt left,
which is what a sweep takes when it picks the row up. **`RecoveryInv`**: the evaluations in flight are
at most one more than the overlaps; the recoveries of an alert, recorded or carried by an
evaluation (`Recoveries`), stay within that, and while the alert is the active one each of them is
still in the hand of an evaluation, because the first that finishes clears it. **`AlertInv`**: the alerts
of an outage, recorded or carried (`Told`), stay within the same bound; the evaluations in flight
that may still add one, or clear the active alert for another to add one (`Ahead`), are counted
with them (`AlertedOnce`). A boot re-establishes both because `hydrate` takes the greatest open row.

**`ServicesProofs`** has the proofs of the smaller modules, one section for each.

*`RunModes`.* `OverlapTheorem` follows from **`GuardInv`** (the guard is set exactly while one
tick runs). `LiveTheorem`, `ChoiceTheorem` and `PauseTheorem` follow from **`ModeInv`** and
**`ChoiceInv`**, for any boot modes and any number of requests in flight, each of which may
fail: a choice that met no other request is what its own handler carries, then what is stored, and from
then on what every config request reads, writes back and applies, so those may overlap as they
like. A choice that did meet one is `crossed`, and nothing is claimed of it (section 6).

*`TickLoop`.* `OverlapFree` and `Flushed` follow from `LoopInv`: `inFlight` is pending exactly
while a tick of the loop runs, none is once `stop()` has resolved, and `stopping` keeps the interval
from starting another.

*`DynamicDns`.* `HonestTheorem` follows from `PushInv` (a request that flew alone and was
applied is what the provider has) and `ClaimInv` (what the last lone push left is there, or an
applied request is on its way back whose answer takes the claim with it).

**`DepositsProofs`.** `TypeTheorem`; `ReturnTheorem` from `OneByOne` and `ReturnInv` (once a
return was announced no poll has the credit of that deposit before it); `SilenceTheorem` from
`QuietOk` (a quiet poll has nothing but the backlog before it) and `BaselineInv` (while nothing has
gone wrong, what of the backlog has no flag is still before a quiet poll). `OnceTheorem` counts:
what was announced of an event and the polls that may still announce it (`Pending`) are together at
most one more than the upsets, and no more than the upsets while the event has no flag and nobody is
about to set it (`OnceAt`). The messages alone are not inductive: a second poll that has the event
before it would announce it later.

*`NiceHashCall`.* `MutationOnce` is a refinement: a call of class "mutate" implements
`SingleEffect`, because of `OnceInv`: it is tried again only when the exchange has not touched the
order and holds no request of it any more. `AttemptsBounded` is for every class.

*`OrderBookWalk`.* `WholeBook`: what the walk has not read of the book it began with lies
behind the pages it has read (`WalkInv`); an insertion pushes it further back, so only a departure
can hide it.

**Only model-checked**:

* every liveness property: fairness and ENABLED are out of the prover's reach;
* `HistoryIsSilent` and `CleanExit`, which the code does not have (section 6).

## 6. Findings and limits

Two runs must fail; the quoted sentences are in `PROJECT.json`.

1. **`payout_history`** - on a fresh installation the evaluator takes its baseline before the
   backfill has filled the table, and every payout of the past is announced as new.
2. **`shutdown`** - without Telegram credentials the receiver sleeps 15 s, which nothing
   interrupts; the shutdown awaits it first, and the fence of 8 s ends the process before the loop, the
   server and the database are closed. A backoff of more than 8 s does the same.

Limits of what passes, each met while modelling, and each the reason for a condition in a
property or a bound of a run:

* *Pricing.* With the floor at or above the ceiling there is no room for the ladder, and the
  walk-up grace restarts on every raise (`N/controller.ts:379`), though its comment says it "passes once and
  stays passed".
* *Floor.* Two separate one-read zeros of the block's bottom row, with a frozen read between
  them, count as two in a row and lift the floor (`N/observe.ts:550`). `FlickerIgnored` is about
  a floor that two rows hold, and about rows with miners: the debounce starts from the miner counts
  (`N/orderbook.ts:173-199`), so in a book that reports delivered speed only, one misread row does move
  the floor.
* *Orders.* A failed re-registration of the pool is never tried again, because the pool key is
  updated anyway (`main-nicehash.ts:311`). An adopted order is never written to the ledger
  (`N/wire.ts:201`): after an edit of the worker it is nobody's.
* *Order book.* The walk misses an order when another leaves between two pages, and ends early when
  a full page of new orders arrives between two reads; `WholeBook` excludes both.
* *Run mode.* After a boot in DRY_RUN, saving any setting applies the stored run mode, which may be
  LIVE (`http/nicehash-server.ts:558`); so it does after a failed save of a mode. Each handler
  reads the whole settings row and writes it back after an await (538-539, 556-557): a choice made
  while a config request is in flight, or the other way round, may be undone by it, in memory
  and in the table. `NeverLiveUnasked`, `ChoiceIsStored`, `PauseSurvivesRestart` and `PauseTakesEffect` say
  which of these they except. With the synchronous SQLite driver the window is a few microtasks, so
  the model's interleavings are more than the process shows; the code relies on that nowhere.
* *Shutdown of the NiceHash daemon* (`main-nicehash.ts`): it closes the database without
  waiting for the tick in flight. `TickLoop` is about `main.ts`.
* *Braiins.* A failed read of the bids is an empty list (`controller/observe.ts:161`), on which
  decide() creates: a second bid beside the first, though `controller/decide.ts:65` says two live bids must never
  overlap. So can a list that lags and a "tick now" beside the loop's tick; `TwinsHaveExcuse` shows
  that nothing else can, and `ExtrasGo` that the second one is cancelled.
* *Alerts.* Nothing waits for an evaluation or a sweep (`main.ts:883-888`). One that outlasts its
  tick is overtaken by the next, which may alert the outage, record the recovery or send the row once
  more; `AlertsInv` allows one more of each per overlapping tick, and `RecoveryFollows` one open
  alert, because of two alerts of one outage only the active one recovers. A row
  acknowledged while a sweep holds it is sent once more (`services/alert-manager.ts:140`). After a class was
  disabled during an outage its row stays open; `RecoveryFollows` exempts it.
* *Payouts.* An evaluation that reads the ledger while a slower one is still announcing reads above
  the same mark and repeats what is left (`main.ts:883`, `services/alert-evaluator.ts:1033`);
  `ToldOnce` allows one message more for each. An address change that meets a
  tick, a scan or a backfill in flight leaves rows of the
  old address, or puts it back into the holder. The second way to get there takes two changes: to
  another address and back, both with a wipe that fails (`main.ts:1102`). A scan between them records
  payouts to the other address, and no boot wipes them, because the stamped address is again the
  configured one. `LedgerInv` is about the rest (`overtaken`). The backfill skips a
  transaction with any recorded output (`services/payout-observer.ts:604`), so another output of it
  that was spent before the first scan is never recorded or announced; `Skipped` excepts it.
* *Deposits.* An upset between an alert and its flag repeats a message; `AlertedOnce` bounds it by
  one for each. A poll asks for the newest 100 deposits (`services/braiins-deposit-watcher.ts:49`):
  one that has scrolled off the page is never visited again, so `ReturnsAreTold` is about the
  deposits on the page, which are all there are in the model.
* *Dynamic DNS.* The skip rule does not look at the hostname: an edited one is not pushed until the
  heartbeat, up to an hour, though `services/ddns-updater.ts:17-19` says the next tick. Overlapping pushes
  can leave an old address at the provider for as long. `RecordFollows` shows that the heartbeat
  repairs both.

## 7. What is not modelled, and why

* **Limit edits, ledger status refresh, metrics and the decision log** of the NiceHash tick:
  nothing that is modelled reads them; a refused limit edit is tried again on the next tick.
* **The other settings** are constants of the modules. An edit of one between two ticks changes
  a constant in the middle of a behaviour, which is not covered, except for the run mode, the boot mode, the
  pool worker, the payout address and the hostname.
* **Budgets, pause markers and floor tracking** of the Braiins tick: the first are a Boolean
  (there is money or there is not), the others feed charts and alerts.
* **Signing, clock offset and parsing of the clients; the service's caches**: plumbing; failures
  and lost answers are modelled at the callers.
* **The block and best-share alerts, pruning of alert rows**: not recoverable classes, one message
  each from a watermark that `Payouts` models for its own class.
* **Balances, reorganisations and mempool entries** of the payout observer: the first are shown, the
  others the code does not handle. `notify_on_payout_confirmed` is taken to be on.
* **Dynamic DNS**: the three providers answer alike and are one; each caller has one request in flight
  at most, and the refresh of the address is one step; the branches for an incomplete
  configuration and an unknown provider (`services/ddns-updater.ts:195-222`), which push nothing,
  are left out.
* **The receiver's answers to the buttons**: fetches without a time limit, which could only
  lengthen the wait that already outlasts the fence in `shutdown`.
* **Hashprice oracle, price refreshers, pool statistics, miners, retention, account spend**:
  they cache or prune numbers; `BidControl` and `BraiinsBid` take any of them on any tick.
* **Dashboard (React), read routes, setup wizard, migrations, configuration schema, HTTP
  plumbing**: more than half of the repository's lines. No decision is taken there that the modules
  do not take as an input, nothing happens there over time, and no definition of the model would be
  a translation of them.

## 8. The plan

Done, in this order: `PricePolicy`, `BidControl` with `PacedBid` and proofs (the money is spent
there); `FloorAnchor`, `TierSmoothing` (what it prices from); `OrderLifecycle` (what it
owns); `RunModes` with proofs (whether it acts at all); `AlertLifecycle` with proofs (whether anybody
hears of it); `BraiinsDecide`, `BraiinsBid` (the other daemon's money); `Payouts`, `Deposits` with
proofs (what is told of money that came in); `DynamicDns`, `TickLoop`, `NiceHashCall`,
`OrderBookWalk` with proofs; then the proofs about `OrderLifecycle`, `BraiinsBid` and `Payouts`, the
refinement of `PacedBid`, the count of the deposits' messages and the market floor.

Next, by importance:

1. **Limit edits** in `BidControl`, with the settle clock they share.
2. **Hold explainer** - that what it tells the dashboard agrees with the gate.
3. **One-shot alert classes** and pruning.

## 9. Running it

```
tlasany BidControl.tla
tlc -workers 2 -config BidControl.cfg     MCBidControl.tla
tlc -workers 2 -config BidLiveness.cfg    StillMarket.tla
tlc -workers 2 -config TierSmoothing.cfg  MCTierSmoothing.tla
tlc -workers 2 -config OrderLifecycle.cfg OrderLifecycle.tla
tlc -workers 2 -config RunModes.cfg       RunModes.tla
tlc -workers 2 -config AlertLifecycle.cfg AlertLifecycle.tla
tlc -workers 2 -config BraiinsBid.cfg     MCBraiinsBid.tla
tlc -workers 2 -config Payouts.cfg        MCPayouts.tla
tlc -workers 2 -config Deposits.cfg       Deposits.tla
tlc -workers 2 -config DynamicDns.cfg     DynamicDns.tla
tlc -workers 2 -config PayoutHistory.cfg  MCPayouts.tla    # violated
tlc -workers 2 -config Shutdown.cfg       TickLoop.tla     # violated
for m in Ascending BidControl OrderLifecycle BraiinsBid AlertLifecycle Deposits Payouts Services
do tlapm ${m}Proofs.tla; done
```

Each passing property has a mutant: an operator `X_Something` beside `X` that alters it the way a
plausible bug would, listed under "mutants" in `PROJECT.json`. With `X` replaced by it the
property fails under the run's own configuration.
