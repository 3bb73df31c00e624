----------------------------- MODULE QuotePricing -----------------------------
(***************************************************************************)
(* What prices the trader quotes: from the levels of the order books to    *)
(* the best prices (book.rs), the spot-implied shift read off the strike   *)
(* ladder (ladder.rs, fv_shift_for), and the quote with its touch clamp,   *)
(* its fee edge and its tick-move rule (plan_quotes).  The quotes followed *)
(* are those of one market, Own, among the books of its ladder.            *)
(*                                                                         *)
(* Prices are millidollars, the keys of the books.  A shift is a fraction  *)
(* of them, [num, den].  Where rounding meets a tie either neighbour is    *)
(* allowed, because the doubles of the code decide it by their last bit.   *)
(* Which orders rest, fill and wait to be booked is left to QuoteOrders    *)
(* and LadderRisk: here a fill of any order the trader may have had can be *)
(* booked at any time.                                                     *)
(***************************************************************************)
EXTENDS Integers, FiniteSets, FiniteSetsExt

CONSTANTS
    Tickers,      \* threshold markets and others, by [expiry, strike]
    NoStrike,     \* the strike of a market that is not a threshold market
    Own,
    Levels,       \* the prices each side of each book may have
    Top,          \* no price and no strike is above
    Ranges,       \* price_ranges of Own: [lo, hi, step]
    Dists,        \* values of the spot price less its average, in dollars
    DeltaMax,     \* delta_max, in millidollars per dollar
    ShiftMax,     \* fv_shift_max
    HalfSpreads, Skews,   \* what the policy's actions scale to
    BandLo, BandHi,       \* quote_band_lo, quote_band_hi
    Subpenny,     \* subpenny_enabled
    QuoteSize, ExtremeSize, ExtremeBand,
    FeeRate,      \* maker_fee_rate, in hundredths of a percent
    MinEdge,      \* min_quote_edge
    MaxInventory,
    MaxPosition,  \* bound: of the booked position, either way
    None          \* no price, no shift, no quote

Dollar == 1000   \* ONE_DOLLAR_MD

ASSUME OwnAssumption == Own \in Tickers
ASSUME StrikeAssumption ==
    /\ \A t \in Tickers : t.strike \in {NoStrike} \cup 0 .. Top
    /\ \A t, u \in Tickers :
         t # u /\ t.expiry = u.expiry /\ t.strike # NoStrike => t.strike # u.strike
ASSUME LevelAssumption ==
    Top \in Nat /\ Levels \in [Tickers -> [yes : SUBSET (0 .. Top), no : SUBSET (0 .. Top)]]
ASSUME RangeAssumption ==
    \A r \in Ranges : r.lo \in Nat /\ r.hi \in Nat /\ r.step \in Nat \ {0}
ASSUME SpotAssumption ==
    Dists \subseteq Int /\ DeltaMax \in Nat /\ ShiftMax \in Nat
ASSUME ActionAssumption == HalfSpreads \subseteq 10 .. 500 /\ Skews \subseteq -50 .. 50
ASSUME SizeAssumption == {QuoteSize, ExtremeSize} \subseteq Nat \ {0} /\ ExtremeBand \in Nat
ASSUME FeeAssumption == FeeRate \in Nat /\ MinEdge \in Nat
ASSUME InventoryAssumption == {MaxInventory, BandLo, BandHi} \subseteq Nat /\ Subpenny \in BOOLEAN
ASSUME PositionAssumption == MaxPosition \in Nat
ASSUME NoneAssumption == None \notin Int

VARIABLES
    book,      \* the price levels with a quantity, by side, of each market
    dist,      \* spot.latest() - spot.ema()
    tick,      \* of Own
    position,  \* in Own, as booked
    quote      \* Own's quoted prices, the sizes, and the sides that have an id

vars == <<book, dist, tick, position, quote>>

Abs(n) == IF n < 0 THEN -n ELSE n
-------------------------------------------------------------------------------
\* Book, in YES terms.

BestBid(b) == IF b.yes = {} THEN None ELSE Max(b.yes)
BestAsk(b) ==
    IF b.no = {} THEN None
    ELSE IF Max(b.no) > Dollar THEN 0 ELSE Dollar - Max(b.no)
IsValid(b) == b.yes # {} /\ b.no # {} /\ BestAsk(b) > BestBid(b)

\* Twice the mid, to stay in whole millidollars.
Mid2(b) == BestBid(b) + BestAsk(b)
-------------------------------------------------------------------------------
\* Ladders and the shift.

Ladder(t) == {u \in Tickers : u.expiry = t.expiry /\ u.strike # NoStrike}
Lower(t) == {u \in Ladder(t) : u.strike < t.strike}
Upper(t) == {u \in Ladder(t) : u.strike > t.strike}
LowEnd(t) ==
    IF Lower(t) = {} THEN t ELSE CHOOSE u \in Lower(t) : \A v \in Lower(t) : v.strike <= u.strike
HighEnd(t) ==
    IF Upper(t) = {} THEN t ELSE CHOOSE u \in Upper(t) : \A v \in Upper(t) : u.strike <= v.strike

\* A fraction within a limit.
AtMost(f, limit) == IF f.num > limit * f.den THEN [num |-> limit, den |-> 1] ELSE f
AtLeast(f, limit) == IF f.num < limit * f.den THEN [num |-> limit, den |-> 1] ELSE f

\* delta_for: the slope of the mids around t, in millidollars per dollar; none
\* for an orphan, a neighbour without a mid, or crossed mids.
Delta(bs, t) ==
    LET lo == LowEnd(t)
        hi == HighEnd(t)
    IN  IF \/ t.strike = NoStrike
           \/ lo = hi
           \/ ~IsValid(bs[lo])
           \/ ~IsValid(bs[hi])
           \/ Mid2(bs[lo]) < Mid2(bs[hi])
        THEN None
        ELSE AtMost([num |-> Mid2(bs[lo]) - Mid2(bs[hi]), den |-> 2 * (hi.strike - lo.strike)],
                    DeltaMax)

LimitedAbove(f) == AtMost(f, ShiftMax)
Limited(f) == AtLeast(AtMost(f, ShiftMax), -ShiftMax)

\* fv_shift_for, of a category bound to the spot feed (of others it is what it
\* is here at a dist of zero).  An unknown shift is zero while it could not
\* reach a cent.
Shift(bs, t) ==
    LET delta == Delta(bs, t) IN
    IF delta # None
    THEN Limited([num |-> delta.num * dist, den |-> delta.den])
    ELSE IF DeltaMax * Abs(dist) < 10 THEN [num |-> 0, den |-> 1]
    ELSE None
-------------------------------------------------------------------------------
\* plan_quotes.

MarketTick == IF Ranges = {} THEN 10 ELSE Min({r.step : r \in Ranges})

\* The whole numbers nearest to n / d.
Nearest(n, d) == {m \in {n \div d, n \div d + 1} : 2 * Abs(m * d - n) <= d}

InLegalRange(p) == IF p < 10 THEN 10 ELSE IF p > 990 THEN 990 ELSE p
Grid == IF tick <= 1 THEN 1 ELSE 10

\* To the grid, without the legal range.
SnappedAnywhere(n, d) == {Grid * q : q \in Nearest(n, Grid * d)}
\* The prices a quote at n / d may be snapped to.
Snapped(n, d) == {InLegalRange(Grid * q) : q \in Nearest(n, Grid * d)}

\* The fee of one fill, rounded up to a cent.
NominalFee(size, price) == (FeeRate * size * price * (Dollar - price)) \div 10000000
Fee(size, price) == -10 * ((-FeeRate * size * price * (Dollar - price)) \div 100000000)

EdgeOkNominal(bid, ask) ==
    ask - bid > NominalFee(1, bid) + NominalFee(1, ask) + MinEdge
EdgeOk(bid, ask) == ask - bid > Fee(1, bid) + Fee(1, ask) + MinEdge

\* The touch clamp: never across the other side's best price.
Unclamped(b, p) == p
Clamped(b, p) ==
    [bid |-> Min({p.bid, BestAsk(b) - tick}), ask |-> Max({p.ask, BestBid(b) + tick})]

\* The quotes an action may lead to, when nothing stops it.
Desired(bs, half, skew) ==
    LET b == bs[Own]
        shift == Shift(bs, Own)
        improve == IF tick <= 1 /\ Subpenny THEN 1 ELSE 0
        at(offset) == Snapped(Mid2(b) * shift.den + 2 * shift.num + 2 * shift.den * offset,
                              2 * shift.den)
        model == {p \in [bid : at(skew - half + improve), ask : at(skew + half - improve)] :
                    p.bid < p.ask}
    IN  IF IsValid(b) /\ Mid2(b) \in 2 * BandLo .. 2 * BandHi /\ shift # None
        THEN {p \in {Clamped(b, m) : m \in model} : p.bid < p.ask /\ EdgeOk(p.bid, p.ask)}
        ELSE {}

BidSize(p) == IF p.bid >= Dollar - ExtremeBand THEN ExtremeSize ELSE QuoteSize
AskSize(p) == IF p.ask <= ExtremeBand THEN ExtremeSize ELSE QuoteSize

\* The tick-move rule: both quotes rest, and neither is a tick off.
Kept(p) ==
    /\ quote # None
    /\ quote.on = {"bid", "ask"}
    /\ Abs(quote.bid - p.bid) < tick
    /\ Abs(quote.ask - p.ask) < tick

\* The sides the inventory cap lets through.
Placeable(p) ==
    {side \in {"bid", "ask"} :
       IF side = "bid" THEN Abs(position + BidSize(p)) <= MaxInventory
                       ELSE Abs(position - AskSize(p)) <= MaxInventory}
-------------------------------------------------------------------------------
\* fetch_market_details: the finest step, or a cent when the request fails.
Ticks == {MarketTick, 10}
\* The default band, 5 to 95 cents, ends more than a tick before the legal prices.
ASSUME BandAssumption == \A t \in Ticks : BandLo >= 10 + t /\ BandHi + t <= 990

BookMoves(t) ==
    \E side \in {"yes", "no"} : \E level \in Levels[t][side] :
      book' = [book EXCEPT ![t][side] =
                 IF level \in @ THEN @ \ {level} ELSE @ \cup {level}]

\* An update that is folded and leads to no quote: of another market, or
\* throttled, gated, over a limit or a budget, or refused by the plan.
BookUpdate ==
    /\ \E t \in Tickers : BookMoves(t)
    /\ UNCHANGED <<dist, tick, position, quote>>

\* on_book_update of Own: fold, plan, and replace both quotes.  Each side that
\* is placed gets an id or a rejection.
Requote ==
    /\ BookMoves(Own)
    /\ \E half \in HalfSpreads, skew \in Skews :
       \E p \in Desired(book', half, skew) :
         /\ ~Kept(p)
         /\ \E on \in SUBSET Placeable(p) :
              quote' = [bid |-> p.bid, ask |-> p.ask, on |-> on,
                        size |-> [bid |-> BidSize(p), ask |-> AskSize(p)]]
    /\ UNCHANGED <<dist, tick, position>>

SpotTick ==
    /\ dist' \in Dists
    /\ UNCHANGED <<book, tick, position, quote>>

\* The slots after a fill: its order's is released, whatever of the order still
\* rests; a remainder whose slot was released, or a replaced order, has none.
Released(side) ==
    {quote} \cup
    (IF quote # None /\ side \in quote.on THEN {[quote EXCEPT !.on = @ \ {side}]} ELSE {})

\* A fill is booked, of a quote or of an order before it.
FillBooked ==
    /\ \E side \in {"bid", "ask"}, n \in 1 .. Max({QuoteSize, ExtremeSize}) :
         /\ position' = IF side = "bid" THEN position + n ELSE position - n
         /\ quote' \in Released(side)
    /\ Abs(position') <= MaxPosition
    /\ UNCHANGED <<book, dist, tick>>

Init ==
    /\ book = [t \in Tickers |-> [yes |-> {}, no |-> {}]]
    /\ dist \in Dists
    /\ tick \in Ticks
    /\ position = 0
    /\ quote = None

Next == BookUpdate \/ Requote \/ SpotTick \/ FillBooked

Spec == Init /\ [][Next]_vars
-------------------------------------------------------------------------------
Quotes == [bid : 10 .. 990, ask : 10 .. 990, on : SUBSET {"bid", "ask"},
           size : [bid : {QuoteSize, ExtremeSize}, ask : {QuoteSize, ExtremeSize}]]

\* Books keep to their levels, and whatever the shift, the improvement and the
\* clamp make of a quote, it keeps to the legal prices.
TypeOK ==
    /\ \A t \in Tickers :
         book[t].yes \subseteq Levels[t].yes /\ book[t].no \subseteq Levels[t].no
    /\ dist \in Dists
    /\ tick \in Ticks
    /\ position \in Int
    /\ quote \in Quotes \cup {None}

\* f[1] times w[1] and so on, up to f[n] times w[n], in all.
Weighed(n, f, w) ==
    LET sum[k \in 0 .. n] == IF k = 0 THEN 0 ELSE sum[k - 1] + f[k] * w[k]
    IN  sum[n]

\* How n contracts may fill: f[k] fills of k contracts each.
Splits(n) == {f \in [1 .. n -> 0 .. n] : Weighed(n, f, [k \in 1 .. n |-> k]) = n}
Fees(n, f, price) == Weighed(n, f, [k \in 1 .. n |-> Fee(k, price)])

\* As long as both quotes rest they are one pair, and however each of them
\* fills, a round trip of n contracts beats its fees by the minimum edge:
\* "Kalshi rounds each fill's fee UP to the next cent" (book.rs:234-235).
RoundTripsPay ==
    quote # None /\ quote.on = {"bid", "ask"} =>
      \A n \in 1 .. Min({quote.size.bid, quote.size.ask}) :
      \A buys, sells \in Splits(n) :
        n * (quote.ask - quote.bid)
          > Fees(n, buys, quote.bid) + Fees(n, sells, quote.ask) + n * MinEdge

\* No quote is sent that the book it was made from would execute: "bid stays
\* under the market ask, ask stays over the market bid" (book.rs:212-213),
\* with the shift, the improvement and the rounding all in place.
QuotesArePassive ==
    [][quote' # quote /\ quote'.on # {} /\ book' # book =>
         quote'.bid < BestAsk(book'[Own]) /\ quote'.ask > BestBid(book'[Own])]_vars

\* The shift has the sign of the spot's move, whatever the books of the ladder
\* look like, and keeps to fv_shift_max: a falling spot never raises a quote.
ShiftFollowsSpot ==
    LET shift == Shift(book, Own) IN
    shift # None => /\ shift.num * dist >= 0
                    /\ Abs(shift.num) <= ShiftMax * shift.den

\* "Snap to the market's tick grid and legal price range" (engine.rs:142):
\* every quote that rests is a price its market allows.
OnGrid ==
    quote # None =>
      \A side \in quote.on :
        \E r \in Ranges : quote[side] \in r.lo .. r.hi /\ quote[side] % r.step = 0
===============================================================================
