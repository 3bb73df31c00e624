# kalshi-mm in TLA+

Models, model checks and proofs of the trading core of `kalshi-mm`, a
market-making bot for the Kalshi exchange. Source paths are relative to the
repository root.

## The system

One tokio task, the *trader* (`src/main.rs`, `struct Trader`), owns all mutable
state and runs one handler at a time from a `select!` loop (`event_loop`). Two
more tasks, the Kalshi WebSocket (`src/transport.rs`) and the Coinbase spot feed
(`src/spot.rs`), only send it events through a bounded channel. Handlers await
REST calls; while one waits, the exchange moves on and nothing else of the trader
runs. Nothing is persisted: a restart starts from empty memory and the
exchange's answers.

| Component | State | Operations | Hard part | What makes it correct |
|---|---|---|---|---|
| Position keeping (`main.rs`, `state.rs`) | position, entry, carried, last fill, fill ids, watermark, settlement checks | fills poll (5 s), sync (30 s), settlements, backfill, refresh (15 min), restart | two feeds write the same position; snapshots and polls race; records lag; the poll is paged, overlaps itself and forgets | positions converge; settlements are booked; each fill is booked, and once |
| Category kill switch (`state.rs`, `main.rs`) | streaks, halted categories | book a close, enforce, daily reset | closes come from four paths with different exemptions | trips in the deciding step, only on closes of what its fills add up to |
| Resting quotes (`engine.rs`, `executor.rs`, `main.rs`) | order-id slots, ever_quoted, backoff | requote, book a fill, gate pull, halt | cancels and answers get lost, partial fills, market close | ids and orders part only for known causes; the budget admits |
| Startup and halt (`main.rs`, `api.rs`) | nothing: the exchange's answers | judge leftover orders, cancel all, relaunch | what the dead process left goes on trading; one unpaged listing | only unwinding leftovers stay; a halt leaves nothing |
| Spot gate (`main.rs`, `spot.rs`) | tick history, latch | fold a tick, evaluate on ticks and on a timer | staleness has no event; hysteresis reads the latch it sets; bad prints look like moves | a closing gate leaves no spot-bound quote resting; no guard shuts quoting out for good |
| Exits (`main.rs`, `engine.rs`) | retry ladder, unwind holdoff | stop-loss, expiry, spot-adverse IOC | fills are booked seconds after they happen; two triggers with different inputs | no exit reverses a position; retries go on; a stop needs a real move |
| Cost basis and PnL (`state.rs`) | entry price, realized PnL | fold a fill, replay | newest-first pages, flips | replay equals the live fold; PnL accounts for the cash |
| Market universe (`main.rs`, `transport.rs`) | active tickers, subscriptions | discover, refresh, subscribe, reconnect | partial discovery, refresh during a connect | every open market gets subscribed |
| Order book (`book.rs`, `main.rs`) | levels by side | fold snapshots and deltas, from the channel and over REST | two sources of snapshots, one of deltas | the book is the exchange's, less what is under way |
| Quote construction (`engine.rs`, `book.rs`) | last quotes | shift, price, clamp, fee gate, keep | grid, clamp and fee edge interact | quotes are passive, on the grid, with edge |
| Ladders, tail gate (`ladder.rs`, `main.rs`) | strikes | tail losses | worst case over strikes | neither tail loss grows past the cap |
| Risk limits (`engine.rs`) | PnL counters, locked value | check, halt | what is admitted may still lose | the loss of what was admitted is bounded, in active markets |
| Volatility filter (`features.rs`, `book.rs`) | sampled mids | sample, filter | samples only where the gates let an update through | it lets go again |
| Policy, the other features, the rest of the REST client, paper client, config, logging | | | pure computation or I/O | not modelled |

## Modules

* `CategoryBreaker` - what the kill switch promises: per category a streak of
  losses, tripped in the step in which it reaches the limit, released only
  together with every streak.
* `PositionKeeping` - the trader's inventory against the exchange's, and the
  switch fed by it. `stage` is the await the running handler stands at (`boot`,
  `idle`, `fills`, `settle`, `backfill`); the exchange acts at any of them.
  `FetchFills`/`ProcessFill` are the fills poll, newest first, a failing page
  cutting it short (`process_fill`, `apply_fill`, `book_realized_close`,
  `enforce_category_halt`); `SyncPositions`, `ResolveVanished` and
  `BackfillEntries` are the three parts of `sync_positions`, with
  `SyncUnavailable` and `SettlementsUnavailable` for failing requests;
  `RefreshMarkets`, `ResetDaily`, `Restart` are what they are named for.
  Prices are abstracted to whether a cost basis is known and to the sign of a
  close. `built` is a history variable: the position as this process's fills made
  it, and a correction of a ticker that was filled before; the `carried` flag of
  the code plays no part in it. The settlements request finds every listed record,
  where the code reads the newest 200. Checked in `MCPositions`, proved in `PositionProofs`.
* `QuoteOrders` - the orders resting at the exchange against the ids in
  `bid_order_id`/`ask_order_id`. `Requote` is `on_book_update`'s way through
  `MayQuote` (spot defense), `MayPlan` (backoff and budget of `plan_quotes`) and
  `apply_quote_plan`: it cancels what the slots name, ignores failing cancels,
  places the sides the inventory cap allows and stores the ids it was told.
  `BookFill` is the slot release in `apply_fill`; `UpdateSpotGate` and `SpotTick`
  evaluate the gate and pull on its rising edge; `HaltAllTrading` is the
  account-wide halt. `adrift` is a history flag of an order: the trader forgot
  it while it rests. Whether a book update gets as far as requoting, the prices
  and the sides the tail gate drops are open choices. Checked in `MCOrders`,
  proved in `OrderProofs`.
* `ExitOrders` - how one position gets out. `Attempt` is `check_exits` sending an
  order (`exit_decision`, the holdoff check, `market_closed`, the ladder of
  `exit_retries`), `Reap` the same pass over a flat position; `SpotUnwind` is
  `check_spot_unwind`. Both size an IOC by the local position while `held` is
  the exchange's; `Poll` and `Sync` bring the first up to the second. The clock
  ticks in units of the 5 s fills interval and deadlines are kept as the time
  left. A ladder entry holds its last delay instead of a count of attempts:
  `exit_retry_delay_s` doubles it up to the cap. `exited` and `unwound` are
  history: contracts sold that the local position still shows. Whether the stop
  or the unwind threshold is passed is open whenever the code could evaluate
  it. Checked as it is, proved in `ExitProofs`.
* `FillFeed` - which fills the poll reads and which it books. A sweep
  (`StartSweep`, `ProcessFill`, `EndSweep`) reads the fills since the watermark
  less the overlap, newest first; `FailPage` ends it between two pages and keeps
  the watermark; `Remembered` is the bounded FIFO of `seen_fill`. A page is one
  fill long. `lapse` marks the two cases in which the code makes no promise: a
  sweep cut by its 25 pages, or longer than the overlap. `PositionKeeping` takes
  the outcome of this module - each fill once, in some order - and asks what
  positions become of it.
* `Accounts` - the money, in exact fractions of cents where the code has
  doubles (`Ratio` in lowest terms): `LongYes`, `PriceYes` and `Fee` of a fill
  (`normalize_fill`, `fill_fee`), `FoldEntry`, `Realized`, `Settle`, `Drift` (which
  overwrites the position and keeps the entry price), `GiveUp` (which clears both),
  `Backfill` with its sort by seconds and its cap of pages, and the limits of
  `check_risk_limits` with `position_value`, which counts the tickers in `active`
  only; `RefreshMarkets` changes that set, and which corrections a vanished position
  is up for (`Vanished`). `cash` is a history variable: what
  was paid and received, started over where the code itself gives up the account
  (a correction, a close of unknown cost).
* `MarketData` - from the listings to the books: `DiscoverCategory`,
  `SeedUniverse`, `RefreshMarkets` (`diff_universe` and the prune),
  `FetchSnapshot` and `FetchDone` are the awaits of the start and of a refresh;
  `published` and `unseen` the watch channel; `Connect`, `SubscribeTo`,
  `SubscribeDone`, `Changed`, `Pump` and `Drop` the WebSocket task; `OnBookUpdate`
  folds an event, `RestPoll` replaces the WebSocket where there are no
  credentials. A book is one level: levels and sides do not touch each other.
  `lapsed` is a history variable: markets that left the universe and came back
  without a snapshot from the WebSocket.
* `QuotePricing` - the prices. From the levels of three books to mids, `Delta`
  (`delta_for`), `Shift` (`fv_shift_for`), and `Desired`: offsets of the policy
  (open), rounding to the grid, the legal range, `Clamped` to the touch, `EdgeOk`;
  then `Kept` (the tick-move rule), sizes and `Placeable`. Prices are integer
  millidollars and shifts fractions; where rounding meets a tie either neighbour
  is allowed, since the last bit of a double decides. Orders at the exchange are
  left to `LadderRisk` and `QuoteOrders`: `FillBooked` books a fill of any order, of
  the quote, of the remainder of one whose slot was released, or of a replaced one, so
  that the position may be past the cap.
* `LadderRisk` - contracts of one market of a ladder: resting behind a slot,
  resting astray, filled and not yet booked, booked. `Requote` replaces (a cancel
  or a placement may fail), `Poll` books, `LadderMoves` moves the marks and the
  other strikes' holdings. `loose` and `over` are history variables: contracts
  that ever went astray, and contracts traded on a side since its tail loss
  stands at the cap. `MaxPlans` is what the throttle of `plan_quotes` lets
  through between two polls that succeed: a poll that fails (`main.rs:639-648`) books
  nothing and lets more plans by, so that it is as large as an outage is long, and the
  theorems hold for every value.
* `Signals` - the windows of the past: spot ticks with the outlier guard and the
  retention (`Accepted`, `Folded`), `SpotGated` with `Base` of the 60 s return and
  the hysteresis, and the sampled mids behind the volatility filter (`Sampled`,
  `Volatile`). Instants are kept as ages. `believed` is a history variable: the
  latest price at each of the instants that the retention covers.

* `Lifecycle` - what a life of the trader leaves to the next: `ReadPositions`,
  `ListOrders` and `TidyOrder` are the awaits of `optimize_startup_orders`,
  `HaltLists`, `CancelOrder` and `Stop` those of `halt_all_trading` and
  `cancel_all_orders`; `Restart` is a crash or deployment, `Relaunch` the container
  that brings an ended process back (`deploy/aws_deploy.sh`). `Listing` is what one
  answer of `get_orders` holds. `own` and `missed` are history variables: this
  life's orders, and those that a failed or short answer kept from it.
* `ExitTriggers` - `StopLossTriggered`, `ExitDecision` and `SpotUnwindDecision`
  over a book, an entry price and a shift that move. A quote is
  any passive pair of prices; `opened` is a history variable: the book and the shift
  the quote was made on whose fill opened the position. One contract at a time,
  since averages are in `Accounts`.

The modules meet where one takes the other's outcome as an open choice:
`QuoteOrders` leaves prices and sides open, `QuotePricing` and `LadderRisk` leave
lost orders to it; `FillFeed` says which fills are booked, `PositionKeeping` what
they do to positions and `Accounts` what they are worth; `Signals` decides when
the gate closes, `QuoteOrders` what is pulled then; `ExitTriggers` decides when to
get out, `ExitOrders` how the order fares; `Lifecycle` hands `QuoteOrders` and
`LadderRisk` the orders they start with; `MarketData` delivers the
books that `QuotePricing` reads.

## Runs

| Run | Shows |
|---|---|
| `positions` | `SwitchNeverLate`, `OnlyOwnClosesTrip` (no settlement, drift or inherited inventory lengthens a streak, but for what a sync corrects on a ticker that was filled before), `ImplementsBreaker` (refinement of `CategoryBreaker`), `SettlementsAreBooked`, and `Converges`: once the exchange is quiet and answers, local positions agree with it for good |
| `orders` | `OrphansAreExplained`, `SlotsAreLive`, `BudgetAdmits`, `RisingEdgePulls` |
| `exits` | `ExitsAwaitBookings`: while polls succeed often enough no exit sells what an unbooked one sold; `DueExitsAreRetried`: a position due at expiry with a side to cross into is worked again and again |
| `market_data` | `BooksFollow`, `BooksSettle`: a followed book and what is under way make up the exchange's book, and in the end they are equal; `OpenMarketsAreServed`: a market that stays open is subscribed to for good, over failing pages, drops and handovers; `ExpiredAreForgotten` |
| `fill_feed` | `EachFillOnce`, `NothingSkipped`, `FillsAreBooked`: failing pages and sweeps, and a memory that forgets, neither lose nor repeat a fill |
| `accounts` | `BooksBalance`: realized PnL plus inventory at cost is the cash, through flips, averages, late and reordered bookings; an entry price stays a price, however many fills it averages (`TypeOK`); `AdmittedLossIsBounded`: what the limits let through cannot lose more than the limits plus `max_position_value` in the active markets, the only ones that `position_value` counts; `BackfillIsExact` |
| `quote_pricing` | quotes keep to the legal prices (`TypeOK`); `RoundTripsPay`: however two resting quotes fill in parts, the round trip pays its rounded fees and the minimum edge; `QuotesArePassive`; `ShiftFollowsSpot` |
| `ladder_risk` | `InventoryIsBounded`, `TailIsBounded`: by how much late bookings and orders gone astray can exceed the two caps |
| `signals` | `BaseIsOldBelief`: the base of a return is what the trader believed then, and it is missing only behind a gap longer than the retention; `QuotingResumes`: when spot and mid hold still, no guard keeps quoting shut |
| `lifecycle` | `LeftoversUnwind`: whatever trades during startup, afterwards no inherited order rests that could have added to the position it read, unless a request failed or the listing was short; `HaltClears`: the same bounds what a halt leaves |
| `exit_triggers` | `WideningNeverStops`: a passive entry is not stopped out by its book getting wider |
| `double_exit` | violated: a spot unwind ignores the exit just sent and reverses the position |

The last one checks a statement quoted from a comment of the source; the quote and
what the code does instead are in `PROJECT.json` under `findings`.

### Further counterexamples

These configurations each check one more statement of a comment, and TLC finds it
violated (`tlc -config X.cfg M`). The first four weigh most; the others describe
smaller disagreements:

| Configuration, module | Statement | What happens |
|---|---|---|
| `DoubleCount.cfg`, `MCPositions` | `CaughtUp` (`main.rs:623`, `1014-1018`) | a fill copied in by the sync's snapshot is booked again by the poll: dedupe knows only ids it has seen, and the guard at `main.rs:1018` covers only fills booked in the last 10 s. The next sync corrects the position, not the PnL booked meanwhile |
| `StaleBook.cfg`, `MCMarketData` | `NoStaleBook` (`main.rs:830-831`) | a market pruned and added back on one connection is seeded over REST while a delta of it is still queued; the delta is folded twice, and no snapshot is asked for until the next connection |
| `KeptOrders.cfg`, `Lifecycle` | `KeptOrdersOnlyReduce` (`main.rs:327`) | every restart keeps the unwinding orders of the one before, each judged by itself against the whole position; together they are more than it |
| `HaltRestart.cfg`, `Lifecycle` | `HaltHolds` (`engine.rs:413-414`) | the container, run with `--restart unless-stopped` (`deploy/aws_deploy.sh:158`), brings a halted process back, which trades on with its loss counters at zero |
| `StaleChecks.cfg`, `MCPositions` | `ChecksOnlyWhileHeld` (`main.rs:190-191`) | settlement checks outlive the vanished position: `settlement_checks` is cleared only inside `resolve_vanished_positions`, so a ticker flattened by the poll keeps its count and is given up early next time |
| `InheritedLosses.cfg`, `MCPositions` | `InheritedIsExempt` (`state.rs:222-228`) | the boot sync fails, the poll books a fill, and the sync that finds the inherited position ten seconds later does not mark it carried, because the ticker was filled already (`main.rs:1027`): its losing closes count |
| `StaleCarried.cfg`, `MCPositions` | `CarriedWhileHeld` (`state.rs:227-228`) | only a fill clears the carried flag: a position cleared by drift or by a give-up leaves it set, and the closes of what opens next are exempt |
| `StaleEntry.cfg`, `MCAccounts` | `NoEntryWhenFlat` (`state.rs:194-195`) | drift to nothing, of a market that left the universe, leaves the entry price (`main.rs:1022-1030`); the next fill opens at its own price, so that no close uses it, but a correction back to a position would |
| `SilentCategory.cfg`, `MCPositions` | `EveryStreakHalts` (`main.rs:961-962`) | a ticker first seen by the boot sync of a failed discovery is filed under the empty category; its losses halt nothing |
| `GateHole.cfg`, `MCOrders` | `StaleFeedPullsQuotes` (`main.rs:745-749`) | a quote let through while the latch is still on survives a feed that dies before the next evaluation: there is no rising edge |
| `BudgetLeak.cfg`, `MCOrders` | `OnlyRestingOrdersCounted` (`state.rs:300`) | ids of closed markets stay in the order budget until it is used up |
| `FailedPoll.cfg`, `ExitOrders` | `UnwindsNeverStack` (`main.rs:791-792`) | ten seconds of failing polls outlast the holdoff, and the unwind fires again |
| `TailLeak.cfg`, `MCLadderRisk` | `SuppressedSideIsPulled` (`main.rs:710-713`) | a plan that keeps its quotes leaves the order on the suppressed side resting |
| `UnwindChurn.cfg`, `MCExitTriggers` | `UnwindsFollowMoves` (`engine.rs:370-372`) | `fv_shift_max` (0.10) is above `unwind_shift` (0.04): what fills while the shift is large is unwound at once, at the very shift it was priced with |
| `OffGrid.cfg`, `MCQuotePricing` | `OnGrid` (`engine.rs:142`) | `tick` is the finest step of any range, so a quote in a coarser range is off its grid |

`Accounts` also states `BackfillIsInOrder` (`main.rs:1152`): with
`Waits = {0, 1}` it is violated, because the sort is by seconds and stable, so
that fills of one second stay newest first.

**Bounds.** `positions`: one ticker, three fills of +1 or -2 (enough to open,
extend, reduce, flatten and flip), one restart, a limit of two losses, two
settlement checks. Nothing in the code couples two tickers except the streak,
the batch of settlements and the discovery of a category; the theorems cover any
number of tickers. `orders`: one spot-bound market and one that is not, two
requotes, orders of two contracts (so fills are partial or full), a budget of
one and one unreported fill at a time. The budget is the smallest that blocks; a
second requote is what lets one ticker meet the other's orders, and its own old
ones. `exits`: two contracts
either way and at most two net contracts unbooked (so orders fill in part), a base
delay and a holdoff of two ticks (10 s) and, to keep the clock small, a cap of four
ticks where the code has twelve: the ladder climbs once and is then capped.
`MaxLag = 1` says that the trader never goes ten seconds without a fills poll that
succeeds; `FailedPoll.cfg` raises it to 2. The counterexamples use the same
modules with the same or smaller bounds; `GateHole.cfg` and
`BudgetLeak.cfg` also start with an order of an earlier process.
`market_data`: two markets of one series, so that a page can list one and miss
the other, a channel of one event, one change of a book or a position, and one
failure (of a page, a snapshot, a REST poll or the connection). One failure
suffices for every pair of a failure and its repair; `StaleBook.cfg` uses one as
well. `fill_feed`: five fills over three seconds, sweeps of at most two, a memory
of three ids - the least the assumption on `FillIdCap` allows, the code has 20,000
against sweeps of 5,000 - one failing page, one restart. `accounts`: one market,
fills that open, average, close and flip long and short, maker and taker, three of
them, each result of a settlement, one restart; a backfill reads three fills, and
that shorter ones are harmless is an `ASSUME` over all logs of up to five, and proved
for all (`ReplayOfEnd`).
`quote_pricing`: three strikes, the middle one quoted, with mids in the middle and
in the extreme band, crossed ladders and both ticks; two half spreads, and a booked
position of up to one contract past the inventory cap. `ladder_risk`:
one neighbour, orders of one or two contracts against an inventory cap of one, one
plan between polls, one failing request. `signals`: a unit of time is 10 s, and the
windows are shortened (10 s, 20 s and 30 s for 10 s, 60 s and 120 s) in their order;
the spot prices differ by less than the gate's band, by more than the gate and by
more than the outlier limit; two moves and one fault. `lifecycle`: one market, three requotes
over two restarts - the least in which the leftovers of two lives meet - a listing
shorter than what they can leave behind, one failing request. `exit_triggers`: four
prices, so that spreads lie below and above the floor of the stop, quotes at both
ends, shifts beyond the threshold both ways.
Deadlock is checked in `quote_pricing`, `ladder_risk`, `signals` and
`exit_triggers`. Elsewhere it is
not: the bounds stop the models, and `HaltAllTrading` stops the program.

**Fairness.** `PositionKeeping!FairSpec`: the interval timers keep firing and
`select!` picks a ready branch at random, so no handler starves (strong fairness
of `SyncPositions` and of a complete `FetchFills`, weak fairness within a running
handler); the settlements and fills endpoints answer again and again; clocks
advance (`TimePasses`). Fairness asks nothing of the exchange's trading, of
refreshes, resets or restarts. `QuoteOrders!FairSpec`: weak fairness of
`UpdateSpotGate`, which a 10 s timer runs. `ExitOrders!FairSpec`: weak fairness of
the clock, of a fills poll that succeeds and of `check_exits`, all three run by
interval timers. `DueExitsAreRetried` is about a market that stays in its expiry
window, so it says that nothing switches exits off, not how many fit in 120 s.
`MarketData!FairSpec`: the WebSocket task and the awaits of a running handler go
on (weak), and `select!` picks at random among the ready branches of the event
loop, so none starves (strong fairness of `RefreshTick`, `OnBookUpdate`,
`RestPoll`); failures are bounded by `MaxFaults`, so the liveness is about what
happens once they end. `FillFeed!FairSpec`: sweeps start, proceed and end, with
boundedly many failures. `Signals!FairSpec`: the feed ticks once per unit while it
is connected and reconnects, the channel is served and the timer fires (weak);
books go on being updated, which counts only when the gate lets them through
(strong).

## Proofs

For every set of tickers, categories and limits, and without the bounds of the
runs mattering:

* `PositionProofs`: `TypeCorrect`; `NeverLate` for `SwitchNeverLate` from the
  inductive invariant `IInv == TypeOK /\ CategoryInv /\ SwitchNeverLate`
  (a close is counted under the category in the ticker's state but the halt is
  enforced on its series, so the two must be related: `CategoryInv`);
  `TripsOnlyOnOwnCloses`, from `BuiltInv`: a position that is not marked carried is
  what `built` says; `BreakerImplemented` (initial states and every step
  map to `CategoryBreaker`), `SettlementsBooked`.
* `OrderProofs`: `OrderTypes`; `OrphansExplained` and `SlotsLive` from
  `OInv == OrphansAreExplained /\ SlotsAreLive`, one lemma per handler;
  `BudgetHolds` for `BudgetAdmits`: a plan fills at most the two slots of its ticker,
  and the slots in use are finitely many (`SlotsFinite`).
* `FeedProofs`, two of the trader's feeds. Market data: `MarketTypes` for
  `TypeOK`, `BooksFollowTheExchange` for `BooksFollow`, from `MInv`. A book and the
  messages under way to it lead to the exchange's book (`BooksLead`), which needs that
  the markets subscribed to are in the universe or have left it (`SubscribedKnown`),
  that a market a refresh fetches is not yet published, unless it had left
  (`FetchedAreNew`), that snapshots wait until the trader first listens
  (`StartSnapshots`), and that nothing is under way without a connection (`NoLink`).
  `Leads` relates two books by a queue of messages, through the sequence of books in
  between. Fills: `FeedTypes`, `FillsBookedOnce` for `EachFillOnce` and
  `NoFillSkipped` for `NothingSkipped`, from `FInv`: the memory holds every booked fill
  a later sweep can read again (`MemorySuffices`), and the running sweep is still to
  reach whatever it has not booked (`SweepCovers`).
* `ExitProofs`: `TypeCorrect`; `ExitsCovered`, the inductive `HInv`: an unbooked
  unwind is covered by what is left of the holdoff plus the time polls have been
  missing, an unbooked exit by its ladder entry, which survives because the
  local position has not moved; `AwaitBookings` for `ExitsAwaitBookings` from it,
  under `PollsKeepUp` (polls succeed more often than the base delay and the
  holdoff). `FailedPoll.cfg` shows that this hypothesis is needed.
* `LadderProofs`: `LadderTypes`; `InventoryBounded` and `TailBounded` for the two
  caps of `LadderRisk`. The invariant counts per side what can still be booked:
  since the last poll no more can have filled than the order that rested then, one
  size per plan since, and what is astray; and past the tail cap what was traded,
  what rests and what is astray together never exceed one order plus what went
  astray.
* `PricingProofs`: `ShiftFollows` for `ShiftFollowsSpot`: the slope between two
  strikes is never negative (a crossed ladder has none), and limiting it and its
  product with the distance keeps the sign; `QuotesPassive` for `QuotesArePassive`:
  the clamp to the touch is the last step, and a resting quote was passive when it
  was made. Levels are bounded by `Top`, so that a side has a best one. `QuoteTypes`
  for `TypeOK`: quotes keep to the legal prices, because rounding is limited to them and
  the clamp moves a price no further than a tick from the band, which ends more than a
  tick before them (`BandAssumption`). `PairsPay` for `RoundTripsPay`: a pair of quotes
  keeps the edge it was made with (`EdgeHolds`), which is that of fills of one contract;
  rounding the fee of many contracts up once costs no more than rounding it up for each
  (`FeeOfSize`), so that no way to fill costs more (`WeighedWithin`). Signals:
  `SignalTypes` for `SignalTypeOK` and `ReturnsCompareBeliefs` for `BaseIsOldBelief`,
  from `SInv`: the ages fall along the ticks, for every age within the retention the
  newest tick of that age or more holds the belief of that instant (`BeliefsKept`), and
  what was believed before the oldest kept tick had stood for the retention
  (`BeliefsBefore`), because a tick is dropped only when it is older than that.
* `AccountProofs`, the money and the stop-loss. `AccountTypes` for `TypeOK` and
  `BooksAreBalanced` for `BooksBalance`, inductive together (`AccountInv`). A fraction
  in lowest terms is awkward to compute with, so the lemmas say of an amount that it is
  `n / d` (`Is`): at a common denominator amounts add up as integers do. An average
  of prices is a price, so that a short never locks less than nothing
  (`AverageIsPrice`). Of a booking there are four kinds - it opens or flips, extends,
  reduces, or closes at an unknown cost - and for each what was paid and what was realized differ by the inventory's
  worth (`Opens`, `Extends`, `Closes`, `StartsOver`). `LossIsBounded` for
  `AdmittedLossIsBounded`, about the active markets: however one settles, a position
  loses no more than it locks (`LockCovers`), and sums compare as their parts do. It
  needs the types only: the limits bound the loss whatever led to them. `RebuiltEntriesAreExact` for
  `BackfillIsExact`: time never falls along the log (`TimesRise`), so the sort keeps the
  order of fills with distinct seconds; the newest pages are the end of the history;
  and a replay of the end that arrives at the position of the whole began where the whole
  was flat, and goes through the same states from there (`ReplayOfEnd`). So a backfill
  that its sanity check accepts is right however short its pages fall. With two fills of
  one second it is not: `BackfillIsInOrder`, above. `TriggerTypes`; `WobbleSafe` for
  `WideningNeverStops`, from an invariant that carries the passivity of a quote over to
  the entry price it becomes: against a passive entry a widened book shows a loss below
  its own spread, and the stop waits for twice the spread.
* `LifecycleProofs`: `LifecycleTypes`; `LeftoversOnlyUnwind` for `LeftoversUnwind` and
  `HaltLeavesNothing` for `HaltClears`, from `Dealt`: of the orders that rest while
  startup or a halt goes through its listing, each is still to be dealt with, was
  missed, or unwinds, because a fill changes neither the key nor the side of an order
  and nothing is placed meanwhile; `UnwindingSurvives` for `UnwindsSurvive`: startup
  cancels nothing that unwinds the position it read.

Sums and folds are recursive functions on the naturals, and the proofs reason about
them by a least counterexample (`Least`, and `Climb` in the form of a set that contains
0 and each successor), which needs no induction theorem.

Assumptions are those of the modules (`CategoryAssumption`, `LimitAssumption`,
`ChecksAssumption`, `FillAssumption`; `BoundAssumption`, `SizeAssumption`,
`LeftoverAssumption`, `NoOrderAssumption`; `BackoffAssumption`, `HoldoffAssumption`,
`LagAssumption`, `NetAssumption`, `NoRetryAssumption`; `MarkAssumption`,
`HoldingAssumption`, `SizeAssumption`, `CapAssumption` of `LadderRisk`;
`OwnAssumption`, `StrikeAssumption`, `LevelAssumption`, `RangeAssumption`,
`SpotAssumption`, `ActionAssumption`, `SizeAssumption`, `FeeAssumption`,
`InventoryAssumption`, `PositionAssumption`, `NoneAssumption`, `BandAssumption` of
`QuotePricing`;
`PriceAssumption`, `WindowAssumption`, `LengthAssumption`, `SignalBoundAssumption` of
`Signals`; those of `MarketData` and `FillFeed`; `PriceAssumption`,
`ShiftAssumption`, `NoneAssumption` of `ExitTriggers`; `TickerAssumption`,
`KindAssumption`, `RateAssumption`, `WaitAssumption`, `ResultAssumption`,
`LimitAssumption`, `BoundAssumption` of `Accounts`; `SizeAssumption`,
`LimitAssumption`, `BoundAssumption` of `Lifecycle`), all evaluated in the runs.

Only model-checked: `Converges`, `RisingEdgePulls`, `DueExitsAreRetried`,
`BooksSettle`, `OpenMarketsAreServed`, `ExpiredAreForgotten`, `FillsAreBooked` and
`QuotingResumes`, because
they are liveness. Every safety property that a passing run checks is also proved. The types of
`ExitTriggers`, `Lifecycle` and `QuoteOrders`, and `UnwindsSurvive`, are proved and not
run.

## Plan

The modules of the first plan are written. What is left:

1. In `ExitOrders`, a history of the flat moment: how much of a backoff a position
   inherits that went flat and reopened at the same size between two passes.
2. Composition of `ExitOrders` and `QuoteOrders` on one position: exits and quotes
   that fill between two polls, against the inventory cap.
3. Close times in `MarketData`: a details request that fails is not repeated, and the
   expiry exits of that market never fire.

## Not modelled

The feature vector, the EMA and ONNX inference are floating point without control;
their results are open choices in the models, but for the mid samples
(`Signals`) and what follows from the EMA's distance (`QuotePricing`). Signing, JSON
and the wording of requests; of the REST client only which answers fail, which are
paged and what a listing holds is kept. The paper client accepts every order and
fills none. Configuration, the instance lock, logging and reports (of
positions that cannot get out, too: `exit_block`) are I/O. Trade
prints feed only the feature vector.
