--------------------------- MODULE PositionKeeping ---------------------------
(***************************************************************************)
(* How the trader's in-memory inventory follows the exchange's.  Two feeds *)
(* change it: the fills poll, which books fills one at a time, and the     *)
(* position sync, which overwrites it with the exchange's snapshot, books  *)
(* settlements of positions that vanished and rebuilds lost cost bases.    *)
(* The kill switch counts the losing closes the bookings produce.          *)
(*                                                                         *)
(* The trader is one task: handlers run one at a time, and an await inside *)
(* one lets only the exchange move.  `stage` says which await the running  *)
(* handler stands at.  A REST answer and the code that consumes it are one *)
(* step: nothing of the trader runs between them.                          *)
(*                                                                         *)
(* Prices are abstracted to what the switch can tell apart: whether a cost *)
(* basis is known (entry_price.is_some()) and the sign of a close.         *)
(***************************************************************************)
EXTENDS Integers, Sequences, FiniteSets

CONSTANTS
    Tickers,
    Categories,
    CategoryOf,   \* [Tickers -> Categories], the series a ticker's prefix names
    NoCategory,   \* "": the category of a state created for an inactive ticker
    Absent,       \* no TickerState yet
    HaltLimit,    \* halt_on_consecutive_losses
    MaxChecks,    \* MAX_SETTLEMENT_CHECKS
    FillDeltas,   \* [Tickers -> SUBSET Int], signed contract counts its fills may carry
    MaxFills,     \* bound: fills the exchange reports
    MaxBoots      \* bound: restarts of the process

ASSUME CategoryAssumption ==
    /\ CategoryOf \in [Tickers -> Categories]
    /\ NoCategory \notin Categories
    /\ Absent \notin Categories \cup {NoCategory}
ASSUME LimitAssumption == HaltLimit \in Nat
ASSUME ChecksAssumption == MaxChecks \in Nat \ {0}
ASSUME FillAssumption ==
    /\ \A t \in Tickers : FillDeltas[t] \subseteq Int \ {0}
    /\ MaxFills \in Nat

VARIABLES
    \* the exchange
    fillLog,      \* every fill it ever reported, oldest first; the index is the id
    market,       \* open; closed (settled, no record yet); yes/no or void record
    traded,       \* net contracts of all fills of a ticker
    \* the trader's memory
    stage,        \* boot, idle, fills, settle, backfill
    inbox,        \* fetched fills not yet processed
    vanished,     \* positions the running sync found gone
    position,
    hasEntry,     \* entry_price.is_some()
    carried,
    everFilled,   \* last_fill_epoch # 0
    recentFill,   \* last_fill_epoch is less than 10s ago
    category,     \* TickerState.category, or Absent
    checks,       \* settlement_checks
    active,       \* the keys of active_tickers
    seen,         \* fill_ids
    horizon,      \* fills older than the first lookback: never fetched
    losses,       \* consecutive_losses
    halted,       \* halted_categories
    settledPnl,   \* markets whose settlement this process booked as PnL
    boots,
    \* history, read by no action
    built         \* contracts of the position its own fills account for

exchangeVars == <<fillLog, market, traded>>
accountVars == <<seen, losses, halted>>
holdingVars == <<position, hasEntry, carried, everFilled, recentFill, built>>
vars == <<exchangeVars, accountVars, holdingVars, stage, inbox, vanished,
          category, checks, active, horizon, settledPnl, boots>>

AllCategories == Categories \cup {NoCategory}
Records == {"binary", "void"}
IsOpen(t) == market[t] = "open"

\* The snapshot lists only live positions: a settled one is gone.
Remote(t) == IF IsOpen(t) THEN traded[t] ELSE 0
------------------------------------------------------------------------------
\* The exchange.

ExchangeFill(t, d) ==
    /\ IsOpen(t)
    /\ Len(fillLog) < MaxFills
    /\ fillLog' = Append(fillLog, [ticker |-> t, delta |-> d])
    /\ traded' = [traded EXCEPT ![t] = @ + d]
    /\ UNCHANGED <<market, accountVars, holdingVars, stage, inbox, vanished,
                   category, checks, active, horizon, settledPnl, boots>>

MarketMoves(t, from, to) ==
    /\ market[t] = from
    /\ market' = [market EXCEPT ![t] = to]
    /\ UNCHANGED <<fillLog, traded, accountVars, holdingVars, stage, inbox,
                   vanished, category, checks, active, horizon, settledPnl, boots>>

ExchangeSettles(t) == MarketMoves(t, "open", "closed")
SettlementRecorded(t) == \E r \in Records : MarketMoves(t, "closed", r)

\* Ten seconds pass without a fill booked on t.
TimePasses(t) ==
    /\ recentFill[t]
    /\ recentFill' = [recentFill EXCEPT ![t] = FALSE]
    /\ UNCHANGED <<exchangeVars, accountVars, position, hasEntry, carried,
                   everFilled, built, stage, inbox, vanished, category, checks,
                   active, horizon, settledPnl, boots>>
------------------------------------------------------------------------------
\* The fills poll.

\* The answer lists newest fills first; a failing page cuts it short.
FetchFills(n) ==
    /\ stage = "idle"
    /\ n \in 1 .. Len(fillLog) - horizon
    /\ inbox' = [i \in 1 .. n |-> Len(fillLog) + 1 - i]
    /\ stage' = "fills"
    /\ UNCHANGED <<exchangeVars, accountVars, holdingVars, vanished, category,
                   checks, active, horizon, settledPnl, boots>>

Crosses(old, new) == old # 0 /\ (old > 0) # (new > 0)
Reduces(old, d) == (old > 0 /\ d < 0) \/ (old < 0 /\ d > 0)
Abs(n) == IF n < 0 THEN -n ELSE n

\* fold_entry_price, as far as "is there an entry" goes
EntryAfterFill(old, new, had) ==
    /\ new # 0
    /\ old = 0 \/ Crosses(old, new) \/ Abs(new) > Abs(old) \/ had

\* Signs of realized PnL a fill may produce: closing without a cost basis
\* marks against the fill's own price and realizes exactly zero.
Outcomes(t, d) == IF Reduces(position[t], d) /\ hasEntry[t] THEN {-1, 0, 1} ELSE {0}

\* book_realized_close: the streaks after a close
StreakAfterClose(cat, realized, exempt) ==
    IF realized = 0 \/ exempt THEN losses
    ELSE IF realized > 0 THEN [losses EXCEPT ![cat] = 0]
    ELSE [losses EXCEPT ![cat] = @ + 1]

\* enforce_category_halt for a set of categories, on the given streaks
HaltsAfterLimit(cats, streak) ==
    halted \cup {c \in cats : HaltLimit > 0 /\ streak[c] > HaltLimit}
HaltsAfter(cats, streak) ==
    halted \cup {c \in cats : HaltLimit > 0 /\ streak[c] >= HaltLimit}

ApplyFill(t, d, realized) ==
    LET old == position[t]
        new == old + d
        cat == IF category[t] = Absent THEN CategoryOf[t] ELSE category[t]
    IN  /\ position' = [position EXCEPT ![t] = new]
        /\ hasEntry' = [hasEntry EXCEPT ![t] = EntryAfterFill(old, new, @)]
        /\ carried' = [carried EXCEPT ![t] = @ /\ new # 0 /\ ~Crosses(old, new)]
        /\ everFilled' = [everFilled EXCEPT ![t] = TRUE]
        /\ recentFill' = [recentFill EXCEPT ![t] = TRUE]
        /\ category' = [category EXCEPT ![t] = cat]
        /\ losses' = StreakAfterClose(cat, realized, carried[t])
        /\ halted' = HaltsAfter({CategoryOf[t]}, losses')
        /\ built' = [built EXCEPT ![t] = IF new = 0 \/ Crosses(old, new) THEN new ELSE @ + d]

SeenFill(id) == id \in seen

ProcessFill ==
    /\ stage = "fills"
    /\ inbox' = Tail(inbox)
    /\ stage' = IF inbox' = <<>> THEN "idle" ELSE "fills"
    /\ LET id == Head(inbox)
           t == fillLog[id].ticker
           d == fillLog[id].delta
       IN  \/ /\ SeenFill(id)
              /\ UNCHANGED <<accountVars, holdingVars, category>>
           \/ /\ ~SeenFill(id)
              /\ seen' = seen \cup {id}
              /\ \E realized \in Outcomes(t, d) : ApplyFill(t, d, realized)
    /\ UNCHANGED <<exchangeVars, vanished, checks, active, horizon, settledPnl, boots>>
------------------------------------------------------------------------------
\* The position sync: snapshot, settlements of what vanished, backfill.

Drifted(t) == position[t] # Remote(t)

\* Gone from the snapshot while this bot quotes it: presumed settled.
VanishedNever(t) == FALSE
Vanished(t) == Drifted(t) /\ Remote(t) = 0 /\ t \in active

\* A ticker this process has ever traded is never overwritten.
CorrectedNoTrades(t) == Drifted(t) /\ ~Vanished(t) /\ ~everFilled[t]
\* Overwritten with the snapshot, unless a fill was booked moments ago.
Corrected(t) == Drifted(t) /\ ~Vanished(t) /\ ~recentFill[t]

Inherited(t) == position[t] = 0 /\ ~everFilled[t] /\ Remote(t) # 0

\* A correction of a ticker that was traded passes for this process's trading.
BuiltAfterSync(t) == IF Corrected(t) /\ everFilled[t] THEN Remote(t) ELSE built[t]

SyncPositions ==
    /\ stage \in {"boot", "idle"}
    /\ position' = [t \in Tickers |-> IF Corrected(t) THEN Remote(t) ELSE position[t]]
    /\ carried' = [t \in Tickers |-> carried[t] \/ (Corrected(t) /\ Inherited(t))]
    /\ built' = [t \in Tickers |-> BuiltAfterSync(t)]
    /\ category' = [t \in Tickers |->
           IF category[t] # Absent \/ (Remote(t) = 0 /\ position[t] = 0) THEN category[t]
           ELSE IF t \in active THEN CategoryOf[t] ELSE NoCategory]
    /\ vanished' = {t \in Tickers : Vanished(t)}
    /\ stage' = IF vanished' = {} THEN "backfill" ELSE "settle"
    /\ UNCHANGED <<exchangeVars, accountVars, hasEntry, everFilled, recentFill,
                   inbox, checks, active, horizon, settledPnl, boots>>

\* The positions request failed: nothing changes.
SyncUnavailable ==
    /\ stage = "boot"
    /\ stage' = "idle"
    /\ UNCHANGED <<exchangeVars, accountVars, holdingVars, inbox, vanished,
                   category, checks, active, horizon, settledPnl, boots>>

Misses(t) == checks[t] + 1

\* Still no settlement record after MAX_SETTLEMENT_CHECKS syncs.
GivenUpLate(t) == Misses(t) > MaxChecks
GivenUp(t) == Misses(t) >= MaxChecks

\* An expiry is not a trading decision and a ladder's arrive as one batch:
\* however many settlements are booked at once, the streaks stand.
StreaksWithSettlements(booked) ==
    [c \in AllCategories |-> losses[c] + Cardinality({t \in booked : category[t] = c})]
StreaksAfterSettlements(booked) == losses

\* The code asks for the newest 200 records; here it finds whatever is listed.
ResolveVanished ==
    /\ stage = "settle"
    /\ LET found == {t \in vanished : market[t] \in Records}
           missed == vanished \ found
           givenUp == {t \in missed : GivenUp(t)}
           booked == {t \in found : hasEntry[t] /\ market[t] = "binary"}
       IN  /\ position' = [t \in Tickers |-> IF t \in found \cup givenUp THEN 0 ELSE position[t]]
           /\ hasEntry' = [t \in Tickers |-> hasEntry[t] /\ t \notin found \cup givenUp]
           /\ carried' = [t \in Tickers |-> carried[t] /\ t \notin found]
           /\ built' = [t \in Tickers |-> IF t \in found \cup givenUp THEN 0 ELSE built[t]]
           /\ checks' = [t \in Tickers |-> IF t \in missed \ givenUp THEN Misses(t)
                                           ELSE IF t \in vanished THEN 0 ELSE checks[t]]
           /\ settledPnl' = settledPnl \cup booked
           /\ losses' = StreaksAfterSettlements(booked)
           /\ halted' = HaltsAfter({CategoryOf[t] : t \in booked}, losses')
    /\ stage' = "backfill"
    /\ vanished' = {}
    /\ UNCHANGED <<exchangeVars, seen, everFilled, recentFill, inbox, category,
                   active, horizon, boots>>

SettlementsUnavailable ==
    /\ stage = "settle"
    /\ stage' = "backfill"
    /\ vanished' = {}
    /\ UNCHANGED <<exchangeVars, accountVars, holdingVars, inbox, category,
                   checks, active, horizon, settledPnl, boots>>

NeedsBackfill(t) == t \in active /\ position[t] # 0 /\ ~hasEntry[t]

\* Each replay is a request of its own that may fail; its result is kept only
\* when the replayed position is the live one.
BackfillEntries ==
    /\ stage = "backfill"
    /\ \E answered \in SUBSET {t \in Tickers : NeedsBackfill(t)} :
          hasEntry' = [t \in Tickers |->
              hasEntry[t] \/ (t \in answered /\ traded[t] = position[t])]
    /\ stage' = "idle"
    /\ UNCHANGED <<exchangeVars, accountVars, position, carried, everFilled,
                   recentFill, built, inbox, vanished, category, checks, active,
                   horizon, settledPnl, boots>>
------------------------------------------------------------------------------
\* The universe, the day and the process.

\* A state exists for every active ticker: its details are fetched first.
CategoriesWith(tracked, added) ==
    [t \in Tickers |-> IF t \in added /\ tracked[t] = Absent THEN CategoryOf[t]
                       ELSE tracked[t]]

\* Discovery walks one category at a time and drops a category that fails.
\* Tickers are some of the markets: an empty set here is a discovery that found
\* only others (one that finds nothing at all changes nothing).  An expired
\* ticker is pruned when flat.
RefreshMarkets(discovered) ==
    /\ stage = "idle"
    /\ active' = discovered \cup {t \in active : position[t] # 0}
    /\ category' = CategoriesWith(category, discovered)
    /\ UNCHANGED <<exchangeVars, accountVars, holdingVars, stage, inbox,
                   vanished, checks, horizon, settledPnl, boots>>

ResetHaltsOnly ==
    /\ stage = "idle"
    /\ halted' = {}
    /\ UNCHANGED <<exchangeVars, seen, losses, holdingVars, stage, inbox, vanished,
                   category, checks, active, horizon, settledPnl, boots>>
ResetDaily ==
    /\ stage = "idle"
    /\ losses' = [c \in AllCategories |-> 0]
    /\ halted' = {}
    /\ UNCHANGED <<exchangeVars, seen, holdingVars, stage, inbox, vanished,
                   category, checks, active, horizon, settledPnl, boots>>

NoTicker(v) == [t \in Tickers |-> v]

\* A crash or a redeploy, at any await.  Nothing is persisted.  The lookback
\* of the new process starts somewhere in the old log.
Restart(discovered, h) ==
    /\ boots < MaxBoots
    /\ boots' = boots + 1
    /\ stage' = "boot"
    /\ inbox' = <<>>
    /\ vanished' = {}
    /\ position' = NoTicker(0)
    /\ hasEntry' = NoTicker(FALSE)
    /\ carried' = NoTicker(FALSE)
    /\ everFilled' = NoTicker(FALSE)
    /\ recentFill' = NoTicker(FALSE)
    /\ built' = NoTicker(0)
    /\ category' = CategoriesWith(NoTicker(Absent), discovered)
    /\ checks' = NoTicker(0)
    /\ active' = discovered
    /\ seen' = {}
    /\ horizon' = h
    /\ losses' = [c \in AllCategories |-> 0]
    /\ halted' = {}
    /\ settledPnl' = {}
    /\ UNCHANGED exchangeVars
------------------------------------------------------------------------------
OpenTickers == {t \in Tickers : IsOpen(t)}

Init ==
    /\ fillLog = <<>>
    /\ market = NoTicker("open")
    /\ traded = NoTicker(0)
    /\ stage = "boot"
    /\ inbox = <<>>
    /\ vanished = {}
    /\ position = NoTicker(0)
    /\ hasEntry = NoTicker(FALSE)
    /\ carried = NoTicker(FALSE)
    /\ everFilled = NoTicker(FALSE)
    /\ recentFill = NoTicker(FALSE)
    /\ built = NoTicker(0)
    /\ checks = NoTicker(0)
    /\ active \in SUBSET Tickers
    /\ category = CategoriesWith(NoTicker(Absent), active)
    /\ seen = {}
    /\ horizon = 0
    /\ losses = [c \in AllCategories |-> 0]
    /\ halted = {}
    /\ settledPnl = {}
    /\ boots = 0

Exchange ==
    \E t \in Tickers :
        \/ \E d \in FillDeltas[t] : ExchangeFill(t, d)
        \/ ExchangeSettles(t)
        \/ SettlementRecorded(t)
        \/ TimePasses(t)

Trader ==
    \/ \E n \in 1 .. MaxFills : FetchFills(n)
    \/ ProcessFill
    \/ SyncPositions
    \/ SyncUnavailable
    \/ ResolveVanished
    \/ SettlementsUnavailable
    \/ BackfillEntries
    \/ \E discovered \in SUBSET OpenTickers : RefreshMarkets(discovered)
    \/ ResetDaily

Crash ==
    \E discovered \in SUBSET OpenTickers, h \in horizon .. Len(fillLog) :
        Restart(discovered, h)

Next == Exchange \/ Trader \/ Crash

Spec == Init /\ [][Next]_vars

\* The timers keep firing and select! picks a ready branch at random, so no
\* handler starves; the API answers again and again; clocks advance.
FetchAll == FetchFills(Len(fillLog) - horizon)
Fairness ==
    /\ SF_vars(FetchAll)
    /\ WF_vars(ProcessFill)
    /\ SF_vars(SyncPositions)
    /\ WF_vars(SyncUnavailable)
    /\ SF_vars(ResolveVanished)
    /\ WF_vars(BackfillEntries)
    /\ \A t \in Tickers : SF_vars(TimePasses(t))

FairSpec == Spec /\ Fairness
------------------------------------------------------------------------------
\* Every variable keeps to its values.
TypeOK ==
    /\ fillLog \in Seq([ticker : Tickers, delta : Int])
    /\ market \in [Tickers -> {"open", "closed"} \cup Records]
    /\ traded \in [Tickers -> Int]
    /\ stage \in {"boot", "idle", "fills", "settle", "backfill"}
    /\ inbox \in Seq(1 .. Len(fillLog))
    /\ (stage = "fills") = (inbox # <<>>)
    /\ vanished \subseteq Tickers
    /\ position \in [Tickers -> Int]
    /\ hasEntry \in [Tickers -> BOOLEAN]
    /\ carried \in [Tickers -> BOOLEAN]
    /\ everFilled \in [Tickers -> BOOLEAN]
    /\ recentFill \in [Tickers -> BOOLEAN]
    /\ built \in [Tickers -> Int]
    /\ category \in [Tickers -> AllCategories \cup {Absent}]
    /\ checks \in [Tickers -> 0 .. MaxChecks - 1]
    /\ active \subseteq Tickers
    /\ seen \subseteq 1 .. Len(fillLog)
    /\ horizon \in 0 .. Len(fillLog)
    /\ losses \in [AllCategories -> Nat]
    /\ halted \subseteq Categories
    /\ settledPnl \subseteq Tickers
    /\ boots \in Nat

\* The kill switch is never late: at every await, a category whose streak has
\* reached halt_on_consecutive_losses is already in halted_categories, whatever
\* fills, settlements, corrections and resets came in between.
SwitchNeverLate ==
    HaltLimit > 0 => \A c \in Categories \ halted : losses[c] < HaltLimit

Breaker == INSTANCE CategoryBreaker WITH
    losses <- [c \in Categories |-> losses[c]],
    tripped <- halted

\* The position keeper implements the promised breaker: a category trips in the
\* step that books the deciding loss, never by a settlement, a correction or a
\* carried close, and is released only together with every streak.
ImplementsBreaker == Breaker!Spec

\* A close of a position that this process's own fills add up to.
OwnClose(t) ==
    /\ seen' # seen
    /\ Reduces(position[t], position'[t] - position[t])
    /\ position[t] = built[t]

\* Only own trading counts: a streak grows, and a category trips, only in a step
\* that books a fill closing a position of that category, all of which the fills
\* this process booked account for.  Neither settlements nor drift corrections
\* lengthen a streak, nor do closes of inventory found by a sync before the
\* ticker's first fill.  What a drift correction puts on a ticker that was
\* filled before counts as built: the code takes it for its own trading,
\* although after a failed boot sync it is not (InheritedIsExempt, below).
OnlyOwnClosesTrip ==
    [][/\ halted' \ halted \subseteq {c \in Categories : losses'[c] > losses[c]}
       /\ \A c \in AllCategories :
              losses'[c] > losses[c] =>
                  \E t \in Tickers : OwnClose(t) /\ category'[t] = c]_vars

\* A settlement is booked, not lost: the position sync never clears a held
\* position with a cost basis on a quoted market whose binary record is already
\* listed without booking its PnL.
SettlementsAreBooked ==
    [][\A t \in active :
          /\ position[t] # 0 /\ hasEntry[t] /\ market[t] = "binary"
          /\ stage \in {"idle", "settle"} /\ boots' = boots
          /\ position'[t] # position[t]
          => t \in settledPnl']_vars

\* Once the exchange goes quiet and its API answers, every local position comes
\* to agree with the exchange and stays so: whatever was double-counted,
\* missed, vanished or lost in a restart is corrected.
Converges == <>[](\A t \in Tickers : position[t] = Remote(t))
------------------------------------------------------------------------------
\* Statements of the repository's comments that the code does not keep.

\* main.rs says dedupe by id handles the overlap re-reads, and that a snapshot
\* racing the fills poll is given one cycle to converge: once every fetched
\* fill is booked, the local position of an open market is the exchange's.
CaughtUp ==
    stage = "idle" /\ seen = 1 .. Len(fillLog) =>
        \A t \in OpenTickers : position[t] = traded[t]

\* settlement_checks counts how many syncs a vanished position has waited for
\* its record: a ticker that holds nothing has no count.
ChecksOnlyWhileHeld == \A t \in Tickers : checks[t] > 0 => position[t] # 0

\* The exchange's net position of t after its first n fills.
NetOf(t) ==
    LET net[n \in 0 .. Len(fillLog)] ==
            IF n = 0 THEN 0
            ELSE net[n - 1] + (IF fillLog[n].ticker = t THEN fillLog[n].delta ELSE 0)
    IN  net

\* Held since before the fills this process can read, up to the n-th: never flat
\* nor flipped in between.
HeldSinceHorizon(t, n) ==
    /\ NetOf(t)[horizon] # 0
    /\ \A k \in horizon .. n : NetOf(t)[k] * NetOf(t)[horizon] > 0

\* state.rs says that closes of inventory carried across a restart are exempt
\* from the streak: no fill that closes a position held since before the log
\* this process reads lengthens one, when it knows the position in full and has
\* booked every fill up to this one.
InheritedIsExempt ==
    [][\A c \in AllCategories : losses'[c] > losses[c] =>
          \A id \in seen' \ seen :
              LET t == fillLog[id].ticker
              IN  position[t] = NetOf(t)[id - 1] /\ seen = horizon + 1 .. id - 1
                      => ~HeldSinceHorizon(t, id - 1)]_vars

\* state.rs says that the carried flag is cleared when the position flattens.
CarriedWhileHeld == \A t \in Tickers : carried[t] => position[t] # 0

\* After N consecutive losing closes in a category the category is halted: so
\* no quoted ticker books its losses under a streak that halts nothing.
EveryStreakHalts ==
    \A t \in active :
        HaltLimit > 0 /\ category[t] # Absent /\ losses[category[t]] >= HaltLimit
            => CategoryOf[t] \in halted
==============================================================================
