------------------------------- MODULE Accounts -------------------------------
(***************************************************************************)
(* The money: the positions, entry prices and PnL that booked fills make,  *)
(* through settlements, corrections by the position sync, cost bases       *)
(* rebuilt from history, daily resets and restarts, and the risk limits    *)
(* that read them.  Which fills a sweep reads is FillFeed's matter: a      *)
(* sweep books newest first and a failed one leaves the older for later,   *)
(* so that here any fill may be booked next.                               *)
(*                                                                         *)
(* Money is in cents.  Entry prices and PnL are exact fractions, where the *)
(* code rounds to a double.                                                *)
(***************************************************************************)
EXTENDS Integers, Sequences, FiniteSets, FiniteSetsExt

CONSTANTS
    Tickers,
    Kinds,        \* fills: ticker, action, side, price of that side, size, taker
    Rate,         \* [BOOLEAN -> Nat], 1/10000: taker_fee_rate and maker_fee_rate
    Waits,        \* seconds from one fill to the next
    Results,      \* of markets: "yes", "no", "void"
    HistoryCap,   \* fills a backfill reads at most: 10 pages of 200
    MaxDailyLoss, \* max_daily_loss
    StopLoss,     \* stop_loss_threshold
    MaxValue,     \* max_position_value
    MaxFills, MaxBoots   \* bounds

Dollar == 100

ASSUME TickerAssumption == IsFiniteSet(Tickers)
ASSUME KindAssumption ==
    Kinds \subseteq [ticker : Tickers, action : {"buy", "sell"}, side : {"yes", "no"},
                     price : 0 .. Dollar, size : Nat \ {0}, taker : BOOLEAN]
ASSUME RateAssumption == Rate \in [BOOLEAN -> Nat]
ASSUME WaitAssumption == Waits \subseteq Nat
ASSUME ResultAssumption == Results \subseteq {"yes", "no", "void"}
ASSUME LimitAssumption == {MaxDailyLoss, MaxValue, HistoryCap} \subseteq Nat /\ StopLoss \in Int
ASSUME BoundAssumption == {MaxFills, MaxBoots} \subseteq Nat

VARIABLES
    \* the exchange
    fills,      \* fills and their seconds, oldest first; the index is the id
    settled,    \* "open", or the result
    \* the trader
    active,     \* the keys of active_tickers
    position,
    entry,      \* entry_price, a fraction of cents, or Unknown
    realized,   \* realized_pnl
    daily,      \* daily_pnl
    cumulative, \* cumulative_pnl
    fees,       \* fees_paid
    running,
    booked,     \* fills this process booked
    \* bounds and history
    horizon,    \* fills that are older than its first window
    cash,       \* received less paid for what it booked
    boots

exchangeVars == <<fills, settled>>
moneyVars == <<realized, daily, cumulative, fees>>
boundVars == <<horizon, boots>>
vars == <<exchangeVars, active, position, entry, moneyVars, running, booked,
          boundVars, cash>>
-------------------------------------------------------------------------------
\* Fractions.

Unknown == [num |-> 0, den |-> 0]
Abs(n) == IF n < 0 THEN -n ELSE n
\* In lowest terms: the least k of which n * k is a multiple of d.
Ratio(n, d) ==
    LET den == Min({k \in 1 .. d : (n * k) % d = 0}) IN
    [num |-> (n * den) \div d, den |-> den]
Whole(n) == [num |-> n, den |-> 1]
Plus(a, b) == Ratio(a.num * b.den + b.num * a.den, a.den * b.den)
Times(k, a) == Ratio(k * a.num, a.den)
Minus(a, b) == Plus(a, Times(-1, b))
AtMost(a, b) == a.num * b.den <= b.num * a.den
-------------------------------------------------------------------------------
\* Pure rules of one booking.

\* normalize_fill: the action alone gives the direction, the side the price.
LongYesByBoth(f) == (f.action = "buy") = (f.side = "yes")
LongYes(f) == f.action = "buy"
PriceYes(f) == IF f.side = "yes" THEN f.price ELSE Dollar - f.price
Signed(f) == IF LongYes(f) THEN f.size ELSE -f.size
\* What the exchange charges for it, without the fee.
YesCost(f) == (IF f.action = "buy" THEN f.size ELSE -f.size) * PriceYes(f)

\* fill_fee: rate * contracts * p * (1 - p), up to the next cent.
Fee(f) ==
    -((-Rate[f.taker] * f.size * PriceYes(f) * (Dollar - PriceYes(f))) \div 1000000)

\* fold_entry_price: a fill that opens or flips sets the entry, one that
\* extends averages it by size, one that reduces leaves it.
ExtendedByOld(old, before, size, price) ==
    LET known == IF before = Unknown THEN Whole(price) ELSE before IN
    Ratio(Abs(old) * known.num + size * price * known.den, known.den * Abs(old))
Extended(old, before, size, price) ==
    LET known == IF before = Unknown THEN Whole(price) ELSE before IN
    Ratio(Abs(old) * known.num + size * price * known.den, known.den * (Abs(old) + size))
FoldEntry(old, new, before, size, price) ==
    CASE new = 0 -> Unknown
      [] new # 0 /\ (old = 0 \/ (old > 0) # (new > 0)) -> Whole(price)
      [] old # 0 /\ (old > 0) = (new > 0) /\ Abs(new) > Abs(old) ->
           Extended(old, before, size, price)
      [] OTHER -> before

\* The close a fill makes, at the entry price before it.
Realized(old, before, f) ==
    IF before = Unknown \/ old = 0 \/ (old > 0) = LongYes(f) THEN Whole(0)
    ELSE LET closed == IF f.size < Abs(old) THEN f.size ELSE Abs(old)
             gain == Minus(Whole(PriceYes(f)), before)
         IN Times(IF old > 0 THEN closed ELSE -closed, gain)

\* replay_entry_price: a position and its entry price after each fill.
Replays(history) ==
    LET held[k \in 0 .. Len(history)] ==
          IF k = 0 THEN [position |-> 0, entry |-> Unknown]
          ELSE LET old == held[k - 1]
                   f == history[k]
                   new == old.position + Signed(f)
               IN  [position |-> new,
                    entry |-> FoldEntry(old.position, new, old.entry, f.size, PriceYes(f))]
    IN  held
Replay(history) == Replays(history)[Len(history)]
-------------------------------------------------------------------------------
\* The exchange.

ExchangeFill ==
    \E f \in Kinds, wait \in Waits :
      /\ settled[f.ticker] = "open"
      /\ Len(fills) < MaxFills
      /\ fills' = Append(fills, [fill |-> f,
                                 at |-> wait + IF fills = <<>> THEN 0 ELSE fills[Len(fills)].at])
      /\ UNCHANGED <<settled, active, position, entry, moneyVars, running, booked,
                     boundVars, cash>>

ExchangeSettles ==
    \E t \in Tickers, result \in Results :
      /\ settled[t] = "open"
      /\ settled' = [settled EXCEPT ![t] = result]
      /\ UNCHANGED <<fills, active, position, entry, moneyVars, running, booked,
                     boundVars, cash>>

OfTicker(t) == {id \in DOMAIN fills : fills[id].fill.ticker = t}

\* The fills of some ids: the one with k - 1 others before it comes k-th.
InOrder(ids, Before(_, _)) ==
    [k \in 1 .. Cardinality(ids) |->
       fills[CHOOSE id \in ids :
               Cardinality({other \in ids : Before(other, id)}) = k - 1].fill]
AsHappened(ids) == InOrder(ids, LAMBDA i, j : i < j)

\* Contracts the exchange reports: the sum of the fills; a settled market is gone.
Net(history) ==
    LET sum[k \in 0 .. Len(history)] ==
          IF k = 0 THEN 0 ELSE sum[k - 1] + Signed(history[k])
    IN  sum[Len(history)]
Held(t) == IF settled[t] # "open" THEN 0 ELSE Net(AsHappened(OfTicker(t)))
-------------------------------------------------------------------------------
\* Bookings.

Worth(p, e) == IF e = Unknown THEN Whole(0) ELSE Times(p, e)

\* The account of what was paid starts over from the inventory as it stands.
StartOver(t) ==
    cash' = [cash EXCEPT ![t] = Minus(realized'[t], Worth(position'[t], entry'[t]))]

\* process_fill and apply_fill
BookFill ==
    \E id \in (horizon + 1 .. Len(fills)) \ booked :
      LET f == fills[id].fill
          t == f.ticker
          new == position[t] + Signed(f)
          gain == Realized(position[t], entry[t], f)
          net == Minus(gain, Whole(Fee(f)))
      IN
      /\ running
      /\ booked' = booked \cup {id}
      /\ position' = [position EXCEPT ![t] = new]
      /\ entry' = [entry EXCEPT ![t] = FoldEntry(position[t], new, @, f.size, PriceYes(f))]
      /\ realized' = [realized EXCEPT ![t] = Plus(@, gain)]
      /\ daily' = Plus(daily, net)
      /\ cumulative' = Plus(cumulative, net)
      /\ fees' = fees + Fee(f)
      /\ UNCHANGED <<exchangeVars, active, running, boundVars>>
      /\ IF position[t] # 0 /\ entry[t] = Unknown
         THEN StartOver(t)
         ELSE cash' = [cash EXCEPT ![t] = Minus(@, Whole(YesCost(f)))]

\* What the sync finds gone is presumed settled where the bot quotes it.
Vanished(t) == t \in active /\ position[t] # 0 /\ Held(t) = 0

\* apply_settlement, for a position the exchange no longer reports: a binary
\* result is booked at the entry price, if there is one; the position is cleared
\* in any case.  A void refunds it at cost.
SettleValue(t) == IF settled[t] = "yes" THEN Dollar ELSE 0
Settle(t) ==
    LET binary == entry[t] # Unknown /\ settled[t] # "void"
        gain == IF binary THEN Times(position[t], Minus(Whole(SettleValue(t)), entry[t]))
                ELSE Whole(0)
    IN
    /\ running
    /\ Vanished(t) /\ settled[t] # "open"
    /\ position' = [position EXCEPT ![t] = 0]
    /\ entry' = [entry EXCEPT ![t] = Unknown]
    /\ realized' = [realized EXCEPT ![t] = Plus(@, gain)]
    /\ daily' = Plus(daily, gain)
    /\ cumulative' = Plus(cumulative, gain)
    /\ UNCHANGED <<exchangeVars, active, fees, running, booked, boundVars>>
    /\ IF binary
       THEN cash' = [cash EXCEPT ![t] = Plus(@, Whole(position[t] * SettleValue(t)))]
       ELSE StartOver(t)

\* Drift: the position is overwritten, and keeps its entry price even when there
\* is nothing left of it.  A fill booked in the last ten seconds puts this off;
\* here those have passed.
Drift(t) ==
    /\ running
    /\ position[t] # Held(t) /\ ~Vanished(t)
    /\ position' = [position EXCEPT ![t] = Held(t)]
    /\ UNCHANGED <<exchangeVars, active, entry, moneyVars, running, booked, boundVars>>
    /\ StartOver(t)

\* A vanished position without a settlement record is zeroed in the end, with its
\* entry price.  The record may lag or be missing, whatever the market did.
GiveUp(t) ==
    /\ running
    /\ Vanished(t)
    /\ position' = [position EXCEPT ![t] = 0]
    /\ entry' = [entry EXCEPT ![t] = Unknown]
    /\ UNCHANGED <<exchangeVars, active, moneyVars, running, booked, boundVars>>
    /\ StartOver(t)

\* backfill_entry_price: the newest pages of a ticker's history, sorted by the
\* second of each fill.  The sort is stable and its input newest first, so that
\* fills of one second stay newest first.
NewestOf(ids, n) == {id \in ids : Cardinality({later \in ids : later > id}) < n}
Earlier(i, j) == IF fills[i].at = fills[j].at THEN i > j ELSE fills[i].at < fills[j].at
HistoryAsReported(ids) == InOrder(ids, LAMBDA i, j : i > j)
History(ids) == InOrder(ids, Earlier)
Replayed(t) == Replay(History(NewestOf(OfTicker(t), HistoryCap)))

Backfills(t) == Replayed(t).entry # Unknown /\ Replayed(t).position = position[t]

Backfill(t) ==
    /\ running
    /\ t \in active /\ position[t] # 0 /\ entry[t] = Unknown
    /\ Backfills(t)
    /\ entry' = [entry EXCEPT ![t] = Replayed(t).entry]
    /\ UNCHANGED <<exchangeVars, active, position, moneyVars, running, booked, boundVars>>
    /\ StartOver(t)
-------------------------------------------------------------------------------
\* Risk limits, days, and the process.

Listed == CHOOSE q \in [1 .. Cardinality(Tickers) -> Tickers] :
            \A i, j \in DOMAIN q : q[i] = q[j] => i = j
SumOver(value) ==
    LET sum[k \in 0 .. Cardinality(Tickers)] ==
          IF k = 0 THEN Whole(0) ELSE Plus(sum[k - 1], value[Listed[k]])
    IN  sum[Cardinality(Tickers)]

\* position_value: a long locks its entry price, a short the rest of a dollar;
\* an unknown entry counts as half of it.  Only active tickers count.
Basis(t) == IF entry[t] = Unknown THEN Whole(50) ELSE entry[t]
LockedAtEntry(t) == Times(Abs(position[t]), Basis(t))
Locked(t) ==
    Times(Abs(position[t]),
          IF position[t] > 0 THEN Basis(t) ELSE Minus(Whole(Dollar), Basis(t)))
PositionValue == SumOver([t \in Tickers |-> IF t \in active THEN Locked(t) ELSE Whole(0)])

\* check_risk_limits
LossLimit == AtMost(daily, Whole(-MaxDailyLoss)) \/ AtMost(cumulative, Whole(StopLoss))
MayQuote == running /\ ~LossLimit /\ ~AtMost(Whole(MaxValue), PositionValue)

\* A book update past a loss limit stops the process for good.
HaltAllTrading ==
    /\ running
    /\ LossLimit
    /\ running' = FALSE
    /\ UNCHANGED <<exchangeVars, active, position, entry, moneyVars, booked, boundVars,
                   cash>>

ResetDaily ==
    /\ running
    /\ daily' = Whole(0)
    /\ UNCHANGED <<exchangeVars, active, position, entry, realized, cumulative, fees,
                   running, booked, boundVars, cash>>

Open == {t \in Tickers : settled[t] = "open"}

\* refresh_markets: what a discovery lists, some of the open markets, and what is
\* held.  Tickers are some of the markets: a discovery may find only others.
RefreshMarkets ==
    /\ running
    /\ \E discovered \in SUBSET Open :
          active' = discovered \cup {t \in active : position[t] # 0}
    /\ UNCHANGED <<exchangeVars, position, entry, moneyVars, running, booked, boundVars,
                   cash>>

Fresh(v) == [t \in Tickers |-> v]

\* A crash or a redeploy: nothing is kept, the first position sync comes before
\* the first sweep and may fail, and the first window of that begins somewhere in
\* the log.
Restart ==
    /\ boots < MaxBoots
    /\ boots' = boots + 1
    /\ horizon' \in horizon .. Len(fills)
    /\ running' = TRUE
    /\ booked' = {}
    /\ active' \in SUBSET Open
    /\ position' \in {[t \in Tickers |-> Held(t)], Fresh(0)}
    /\ entry' = Fresh(Unknown)
    /\ realized' = Fresh(Whole(0))
    /\ daily' = Whole(0)
    /\ cumulative' = Whole(0)
    /\ fees' = 0
    /\ cash' = Fresh(Whole(0))
    /\ UNCHANGED exchangeVars
-------------------------------------------------------------------------------
Init ==
    /\ fills = <<>>
    /\ settled = Fresh("open")
    /\ active \in SUBSET Tickers
    /\ position = Fresh(0)
    /\ entry = Fresh(Unknown)
    /\ realized = Fresh(Whole(0))
    /\ daily = Whole(0)
    /\ cumulative = Whole(0)
    /\ fees = 0
    /\ running = TRUE
    /\ booked = {}
    /\ horizon = 0
    /\ cash = Fresh(Whole(0))
    /\ boots = 0

Next ==
    \/ ExchangeFill \/ ExchangeSettles
    \/ BookFill
    \/ \E t \in Tickers : Settle(t) \/ Drift(t) \/ GiveUp(t) \/ Backfill(t)
    \/ HaltAllTrading \/ ResetDaily \/ RefreshMarkets \/ Restart

Spec == Init /\ [][Next]_vars
-------------------------------------------------------------------------------
\* Amounts are in lowest terms.
Fractions == {f \in [num : Int, den : Nat \ {0}] : f = Ratio(f.num, f.den)}

\* A price, or an average of prices.
Entries == {f \in Fractions : AtMost(Whole(0), f) /\ AtMost(f, Whole(Dollar))}
             \cup {Unknown}

\* Every variable keeps to its type, and an entry price stays a price, however
\* many fills it averages: a short locks the rest of a dollar, which is no less
\* than nothing.
TypeOK ==
    /\ fills \in Seq([fill : Kinds, at : Nat]) /\ Len(fills) <= MaxFills
    /\ settled \in [Tickers -> {"open"} \cup Results]
    /\ active \subseteq Tickers
    /\ position \in [Tickers -> Int]
    /\ entry \in [Tickers -> Entries]
    /\ {realized, cash} \subseteq [Tickers -> Fractions]
    /\ {daily, cumulative} \subseteq Fractions
    /\ booked \subseteq DOMAIN fills
    /\ running \in BOOLEAN
    /\ horizon \in 0 .. Len(fills)
    /\ {boots, fees} \subseteq Nat

\* No money is made or lost by bookkeeping: what a ticker realized is what was
\* received for it less what was paid, plus its inventory at the entry price;
\* over flips, partial closes, averages, settlements, fills booked in another
\* order than they happened and fills booked after their market settled.  The
\* account's total is the tickers' less the fees.
BooksBalance ==
    /\ \A t \in Tickers : realized[t] = Plus(cash[t], Worth(position[t], entry[t]))
    /\ cumulative = Minus(SumOver(realized), Whole(fees))

\* What position t loses if its market settles to a value: of a position of
\* unknown cost nothing is booked.
LossAt(t, value) ==
    IF entry[t] = Unknown THEN Whole(0)
    ELSE Times(position[t], Minus(entry[t], Whole(value)))

\* The risk limits bound what an expiry can do: whatever the held markets of the
\* active set settle to while quoting is allowed, the PnL does not pass the loss
\* limits by more than max_position_value.  The code scopes the value limit to
\* active tickers (engine.rs:414-415), so that what it holds elsewhere is not
\* counted, and this property does not bound it.
AdmittedLossIsBounded ==
    MayQuote =>
      \A outcome \in [Tickers -> {0, Dollar}] :
        LET loss == SumOver([t \in Tickers |->
                      IF t \in active THEN LossAt(t, outcome[t]) ELSE Whole(0)])
        IN /\ AtMost(Plus(Whole(-MaxDailyLoss), loss), Plus(daily, Whole(MaxValue)))
           /\ AtMost(Plus(Whole(StopLoss), loss), Plus(cumulative, Whole(MaxValue)))

\* A rebuilt entry price is the one a process that lived through all the fills
\* would have, although pages of older fills may be missing, provided that the
\* position is the exchange's and no two fills share a second.
BackfillIsExact ==
    [][\A t \in Tickers :
         LET ids == OfTicker(t) IN
         /\ entry[t] = Unknown /\ entry'[t] # Unknown /\ position'[t] = position[t]
         /\ position[t] = Held(t)
         /\ \A i, j \in ids : i # j => fills[i].at # fills[j].at
         => entry'[t] = Replay(AsHappened(ids)).entry]_vars

\* "Weighted avg entry; None when flat" (state.rs:194).
NoEntryWhenFlat == \A t \in Tickers : position[t] = 0 => entry[t] = Unknown

\* "The API returns fills newest-first; the replay needs oldest-first"
\* (main.rs:1152): a rebuilt entry price is that of the fills as they happened.
BackfillIsInOrder ==
    [][\A t \in Tickers :
         /\ entry[t] = Unknown /\ entry'[t] # Unknown /\ position'[t] = position[t]
         /\ position[t] = Held(t)
         => entry'[t] = Replay(AsHappened(OfTicker(t))).entry]_vars
===============================================================================
