---------------------------- MODULE PricingProofs ----------------------------
(***************************************************************************)
(* What holds of shifts and quotes for all books, ladders, ticks, policies *)
(* and fees, and of the spot returns that gate them, for all windows.      *)
(***************************************************************************)
EXTENDS QuotePricing, Signals, WellFoundedInduction, TLAPS

-------------------------------------------------------------------------------
\* Extremes of sets of naturals.
LEMMA Least ==
    ASSUME NEW S \in SUBSET Nat, S # {}
    PROVE  \E n \in S : \A m \in S : n <= m
<1> DEFINE R == OpToRel(<, Nat)
<1>1. IsWellFoundedOn(R, Nat)
  BY NatLessThanWellFounded, Zenon
<1> HIDE DEF R
<1>2. PICK n \in S : \A m \in S : ~ (<<m, n>> \in R)
  BY <1>1, WFMin
<1>3. ASSUME NEW m \in S PROVE n <= m
  <2>1. <<m, n>> \in Nat \X Nat /\ <<m, n>>[1] = m /\ <<m, n>>[2] = n
    OBVIOUS
  <2>2. m < n => <<m, n>> \in R
    BY <2>1 DEF R, OpToRel
  <2> QED
    BY <1>2, <2>2
<1> QED
  BY <1>3

LEMMA Greatest ==
    ASSUME NEW top \in Nat, NEW S \in SUBSET (0 .. top), S # {}
    PROVE  \E n \in S : \A m \in S : m <= n
<1> DEFINE T == {top - m : m \in S}
<1>1. T \in SUBSET Nat /\ T # {}
  <2>1. ASSUME NEW m \in S PROVE top - m \in Nat
    <3>1. m \in 0 .. top
      OBVIOUS
    <3> QED
      BY <3>1
  <2>2. T \in SUBSET Nat
    BY <2>1
  <2>3. T # {}
    OBVIOUS
  <2> QED
    BY <2>2, <2>3
<1>2. PICK k \in T : \A j \in T : k <= j
  <2> HIDE DEF T
  <2> QED
    BY <1>1, Least
<1>3. PICK n \in S : k = top - n
  BY <1>2
<1>4. ASSUME NEW m \in S PROVE m <= n
  <2>1. top - m \in T
    OBVIOUS
  <2>2. top - n <= top - m
    BY <1>2, <1>3, <2>1
  <2> QED
    BY <2>2
<1> QED
  BY <1>4

LEMMA MinOf ==
    ASSUME NEW S, \E n \in S : \A m \in S : n <= m
    PROVE  Min(S) \in S /\ \A m \in S : Min(S) <= m
  BY DEF Min

LEMMA MaxOf ==
    ASSUME NEW S, \E n \in S : \A m \in S : n >= m
    PROVE  Max(S) \in S /\ \A m \in S : Max(S) >= m
  BY DEF Max

LEMMA MinOfPair ==
    ASSUME NEW a \in Int, NEW b \in Int
    PROVE  Min({a, b}) \in Int /\ Min({a, b}) <= a /\ Min({a, b}) <= b
<1>1. \E n \in {a, b} : \A m \in {a, b} : n <= m
  <2>1. CASE a <= b
    BY <2>1
  <2>2. CASE b <= a
    BY <2>2
  <2> QED
    BY <2>1, <2>2
<1> QED
  BY <1>1, MinOf

LEMMA MaxOfPair ==
    ASSUME NEW a \in Int, NEW b \in Int
    PROVE  Max({a, b}) \in Int /\ Max({a, b}) >= a /\ Max({a, b}) >= b
<1>1. \E n \in {a, b} : \A m \in {a, b} : n >= m
  <2>1. CASE a >= b
    BY <2>1
  <2>2. CASE b >= a
    BY <2>2
  <2> QED
    BY <2>1, <2>2
<1> QED
  BY <1>1, MaxOf

LEMMA TopOf ==
    ASSUME NEW S \in SUBSET (0 .. Top), S # {}
    PROVE  Max(S) \in 0 .. Top /\ \A m \in S : Max(S) >= m
<1>1. PICK n \in S : \A m \in S : m <= n
  BY Greatest, LevelAssumption
<1>2. \E k \in S : \A m \in S : k >= m
  BY <1>1, LevelAssumption
<1> QED
  BY <1>2, MaxOf
-------------------------------------------------------------------------------
\* Books and ticks.
Books == [yes : SUBSET (0 .. Top), no : SUBSET (0 .. Top)]
PInv == book \in [Tickers -> Books] /\ dist \in Int /\ tick \in Nat \ {0}

LEMMA TicksArePositive == Ticks \subseteq Nat \ {0}
<1>1. MarketTick \in Nat \ {0}
  <2>1. CASE Ranges = {}
    BY <2>1 DEF MarketTick
  <2>2. CASE Ranges # {}
    <3> DEFINE steps == {r.step : r \in Ranges}
    <3>1. steps \subseteq Nat \ {0} /\ steps # {}
      BY <2>2, RangeAssumption
    <3>2. \E n \in steps : \A m \in steps : n <= m
      <4> HIDE DEF steps
      <4>1. steps \in SUBSET Nat
        BY <3>1
      <4> QED
        BY <3>1, <4>1, Least
    <3>3. Min(steps) \in steps
      BY <3>2, MinOf
    <3>4. MarketTick = Min(steps)
      BY <2>2 DEF MarketTick
    <3> HIDE DEF steps
    <3> QED
      BY <3>1, <3>3, <3>4
  <2> QED
    BY <2>1, <2>2
<1> QED
  BY <1>1 DEF Ticks

LEMMA BookMovesType ==
    ASSUME book \in [Tickers -> Books], NEW t \in Tickers, BookMoves(t)
    PROVE  book' \in [Tickers -> Books]
<1>1. PICK side \in {"yes", "no"} :
        \E level \in Levels[t][side] :
          book' = [book EXCEPT ![t][side] =
                     IF level \in @ THEN @ \ {level} ELSE @ \cup {level}]
  BY DEF BookMoves
<1> PICK level \in Levels[t][side] :
        book' = [book EXCEPT ![t][side] =
                   IF level \in @ THEN @ \ {level} ELSE @ \cup {level}]
  BY <1>1
<1>2. Levels[t].yes \subseteq 0 .. Top /\ Levels[t].no \subseteq 0 .. Top
  BY LevelAssumption
<1>3. book[t] \in Books
  OBVIOUS
<1>4. CASE side = "yes"
  <2>1. book' = [book EXCEPT ![t].yes = IF level \in @ THEN @ \ {level} ELSE @ \cup {level}]
    BY <1>4
  <2>2. level \in 0 .. Top
    BY <1>2, <1>4
  <2> QED
    BY <1>3, <2>1, <2>2 DEF Books
<1>5. CASE side = "no"
  <2>1. book' = [book EXCEPT ![t].no = IF level \in @ THEN @ \ {level} ELSE @ \cup {level}]
    BY <1>5
  <2>2. level \in 0 .. Top
    BY <1>2, <1>5
  <2> QED
    BY <1>3, <2>1, <2>2 DEF Books
<1> QED
  BY <1>4, <1>5

LEMMA PricingInit == Init => PInv
  BY TicksArePositive, OwnAssumption, SpotAssumption DEF Init, PInv, Books

LEMMA PricingStep ==
    ASSUME PInv, [Next]_vars
    PROVE  PInv'
<1>1. CASE BookUpdate
  BY <1>1, BookMovesType DEF BookUpdate, PInv
<1>2. CASE Requote
  BY <1>2, BookMovesType, OwnAssumption DEF Requote, PInv
<1>3. CASE SpotTick
  BY <1>3, SpotAssumption DEF SpotTick, PInv
<1>4. CASE FillBooked
  BY <1>4 DEF FillBooked, PInv
<1>5. CASE UNCHANGED vars
  BY <1>5 DEF vars, PInv
<1> QED
  BY <1>1, <1>2, <1>3, <1>4, <1>5 DEF Next

\* A valid book has both best prices.
LEMMA ValidPrices ==
    ASSUME NEW b \in Books, IsValid(b)
    PROVE  /\ BestBid(b) \in Nat /\ BestAsk(b) \in Int /\ BestBid(b) < BestAsk(b)
           /\ Mid2(b) \in Int
<1>1. b.yes # {} /\ b.no # {} /\ BestAsk(b) > BestBid(b)
  BY DEF IsValid
<1>2. b.yes \in SUBSET (0 .. Top) /\ b.no \in SUBSET (0 .. Top)
  BY DEF Books
<1>3. Max(b.yes) \in 0 .. Top /\ Max(b.no) \in 0 .. Top
  BY <1>1, <1>2, TopOf
<1>4. BestBid(b) \in Nat /\ BestAsk(b) \in Int
  BY <1>1, <1>3, LevelAssumption DEF BestBid, BestAsk, Dollar
<1> QED
  BY <1>1, <1>4 DEF Mid2
-------------------------------------------------------------------------------
\* The shift: ladders first, then slopes, then the limits.
LEMMA LowEndOf ==
    ASSUME NEW t \in Tickers, Lower(t) # {}
    PROVE  LowEnd(t) \in Lower(t)
<1> DEFINE S == {u.strike : u \in Lower(t)}
<1>1. S \in SUBSET (0 .. Top) /\ S # {}
  BY StrikeAssumption DEF Lower, Ladder
<1>2. PICK n \in S : \A m \in S : m <= n
  <2> HIDE DEF S
  <2> QED
    BY <1>1, Greatest, LevelAssumption
<1>3. PICK u \in Lower(t) : n = u.strike
  BY <1>2
<1>4. \A v \in Lower(t) : v.strike <= u.strike
  BY <1>2, <1>3
<1> HIDE DEF S
<1> QED
  BY <1>4 DEF LowEnd

LEMMA HighEndOf ==
    ASSUME NEW t \in Tickers, Upper(t) # {}
    PROVE  HighEnd(t) \in Upper(t)
<1> DEFINE S == {u.strike : u \in Upper(t)}
<1>1. S \in SUBSET Nat /\ S # {}
  BY StrikeAssumption, LevelAssumption DEF Upper, Ladder
<1>2. PICK n \in S : \A m \in S : n <= m
  <2> HIDE DEF S
  <2> QED
    BY <1>1, Least
<1>3. PICK u \in Upper(t) : n = u.strike
  BY <1>2
<1>4. \A v \in Upper(t) : u.strike <= v.strike
  BY <1>2, <1>3
<1> HIDE DEF S
<1> QED
  BY <1>4 DEF HighEnd

LEMMA Ends ==
    ASSUME NEW t \in Tickers, t.strike # NoStrike, LowEnd(t) # HighEnd(t)
    PROVE  /\ LowEnd(t) \in Tickers /\ HighEnd(t) \in Tickers
           /\ LowEnd(t).strike \in Nat /\ HighEnd(t).strike \in Nat
           /\ LowEnd(t).strike < HighEnd(t).strike
<1>1. t.strike \in 0 .. Top
  BY StrikeAssumption
<1>2. \/ Lower(t) = {} /\ LowEnd(t) = t
      \/ LowEnd(t) \in Lower(t)
  BY LowEndOf DEF LowEnd
<1>3. \/ Upper(t) = {} /\ HighEnd(t) = t
      \/ HighEnd(t) \in Upper(t)
  BY HighEndOf DEF HighEnd
<1>4. ASSUME NEW u \in Lower(t)
      PROVE  u \in Tickers /\ u.strike \in 0 .. Top /\ u.strike < t.strike
  BY <1>4, StrikeAssumption DEF Lower, Ladder
<1>5. ASSUME NEW u \in Upper(t)
      PROVE  u \in Tickers /\ u.strike \in 0 .. Top /\ u.strike > t.strike
  BY <1>5, StrikeAssumption DEF Upper, Ladder
<1>6. CASE LowEnd(t) = t
  <2>1. HighEnd(t) \in Upper(t)
    BY <1>3, <1>6
  <2> QED
    BY <1>1, <1>5, <1>6, <2>1, LevelAssumption
<1>7. CASE HighEnd(t) = t
  <2>1. LowEnd(t) \in Lower(t)
    BY <1>2, <1>7
  <2> QED
    BY <1>1, <1>4, <1>7, <2>1, LevelAssumption
<1>8. CASE LowEnd(t) \in Lower(t) /\ HighEnd(t) \in Upper(t)
  BY <1>1, <1>4, <1>5, <1>8, LevelAssumption
<1> QED
  BY <1>2, <1>3, <1>6, <1>7, <1>8

Fractions == [num : Int, den : Nat \ {0}]

LEMMA LimitsType ==
    ASSUME NEW f \in Fractions, NEW limit \in Int
    PROVE  AtMost(f, limit) \in Fractions /\ AtLeast(f, limit) \in Fractions
  BY DEF Fractions, AtMost, AtLeast

\* The slope of a ladder is never negative.
LEMMA DeltaType ==
    ASSUME NEW bs \in [Tickers -> Books], NEW t \in Tickers, Delta(bs, t) # None
    PROVE  Delta(bs, t) \in Fractions /\ Delta(bs, t).num >= 0
<1> DEFINE lo == LowEnd(t)
           hi == HighEnd(t)
           f == [num |-> Mid2(bs[lo]) - Mid2(bs[hi]), den |-> 2 * (hi.strike - lo.strike)]
<1>1. t.strike # NoStrike /\ lo # hi /\ IsValid(bs[lo]) /\ IsValid(bs[hi])
      /\ ~(Mid2(bs[lo]) < Mid2(bs[hi])) /\ Delta(bs, t) = AtMost(f, DeltaMax)
  BY DEF Delta
<1>2. lo \in Tickers /\ hi \in Tickers /\ lo.strike \in Nat /\ hi.strike \in Nat
      /\ lo.strike < hi.strike
  BY <1>1, Ends
<1>3. bs[lo] \in Books /\ bs[hi] \in Books
  BY <1>2
<1>4. Mid2(bs[lo]) \in Int /\ Mid2(bs[hi]) \in Int
  BY <1>1, <1>3, ValidPrices
<1>5. f.num \in Int /\ f.num >= 0
  BY <1>1, <1>4
<1>6. f.den \in Nat \ {0} /\ f \in Fractions
  BY <1>2, <1>5 DEF Fractions
<1> HIDE DEF f
<1>7. AtMost(f, DeltaMax) \in Fractions
  BY <1>6, LimitsType, SpotAssumption
<1>8. AtMost(f, DeltaMax).num >= 0
  BY <1>5, SpotAssumption DEF AtMost
<1> QED
  BY <1>1, <1>7, <1>8

\* The limits keep the sign.
LEMMA LimitedKeeps ==
    ASSUME NEW f \in Fractions, NEW x \in Int,
           (f.num >= 0 /\ x >= 0) \/ (f.num <= 0 /\ x <= 0)
    PROVE  /\ Limited(f) \in Fractions
           /\ (Limited(f).num >= 0 /\ x >= 0) \/ (Limited(f).num <= 0 /\ x <= 0)
           /\ Limited(f).num <= ShiftMax * Limited(f).den
           /\ Limited(f).num >= -ShiftMax * Limited(f).den
  BY SpotAssumption DEF Fractions, Limited, AtMost, AtLeast

LEMMA SignOfProduct ==
    ASSUME NEW n \in Int, NEW x \in Int, n >= 0
    PROVE  (n * x >= 0 /\ x >= 0) \/ (n * x <= 0 /\ x <= 0)
<1>1. CASE x >= 0
  BY <1>1
<1>2. CASE x <= 0
  BY <1>2
<1> QED
  BY <1>1, <1>2

LEMMA SameSigns ==
    ASSUME NEW n \in Int, NEW x \in Int, (n >= 0 /\ x >= 0) \/ (n <= 0 /\ x <= 0)
    PROVE  n * x >= 0
<1>1. CASE n >= 0 /\ x >= 0
  BY <1>1
<1>2. CASE n <= 0 /\ x <= 0
  BY <1>2
<1> QED
  BY <1>1, <1>2

LEMMA ShiftType ==
    ASSUME NEW bs \in [Tickers -> Books], NEW t \in Tickers, dist \in Int,
           Shift(bs, t) # None
    PROVE  /\ Shift(bs, t) \in Fractions
           /\ Shift(bs, t).num * dist >= 0
           /\ Abs(Shift(bs, t).num) <= ShiftMax * Shift(bs, t).den
<1> DEFINE d == Delta(bs, t)
           f == [num |-> d.num * dist, den |-> d.den]
           s == Shift(bs, t)
<1>1. CASE d # None
  <2>1. d \in Fractions /\ d.num >= 0
    BY <1>1, DeltaType
  <2>2. d.num \in Int /\ d.den \in Nat \ {0} /\ d.num * dist \in Int
    BY <2>1 DEF Fractions
  <2>3. (f.num >= 0 /\ dist >= 0) \/ (f.num <= 0 /\ dist <= 0)
    <3> HIDE DEF d
    <3> QED
      BY <2>1, <2>2, SignOfProduct
  <2>4. f \in Fractions
    BY <2>2 DEF Fractions
  <2>5. s = Limited(f)
    BY <1>1 DEF Shift
  <2> HIDE DEF d, f, s
  <2>6. s \in Fractions /\ ((s.num >= 0 /\ dist >= 0) \/ (s.num <= 0 /\ dist <= 0))
        /\ s.num <= ShiftMax * s.den /\ s.num >= -ShiftMax * s.den
    BY <2>3, <2>4, <2>5, LimitedKeeps
  <2>7. s.num \in Int /\ s.den \in Int
    BY <2>6 DEF Fractions
  <2>8. s.num * dist >= 0
    BY <2>6, <2>7, SameSigns
  <2>9. Abs(s.num) <= ShiftMax * s.den
    BY <2>6, <2>7, SpotAssumption DEF Abs
  <2> QED
    BY <2>6, <2>8, <2>9 DEF s
<1>2. CASE d = None
  <2>1. s = [num |-> 0, den |-> 1]
    BY <1>2 DEF Shift
  <2> QED
    BY <2>1, SpotAssumption DEF Fractions, Abs
<1> QED
  BY <1>1, <1>2

\* For every ladder, book and spot the shift has the sign of the spot's move
\* and keeps to its limit (ladder.rs:71-104, main.rs:691-704).
THEOREM ShiftFollows == Spec => []ShiftFollowsSpot
<1>1. PInv => ShiftFollowsSpot
  BY ShiftType, OwnAssumption DEF PInv, ShiftFollowsSpot
<1> QED
  BY <1>1, PricingInit, PricingStep, PTL DEF Spec
-------------------------------------------------------------------------------
\* The touch clamp.
LEMMA SnappedType ==
    ASSUME NEW n \in Int, NEW d \in Nat \ {0}, tick \in Nat \ {0}, NEW p \in Snapped(n, d)
    PROVE  p \in Int
<1>1. Grid \in Nat \ {0}
  BY DEF Grid
<1>2. Grid * d \in Nat \ {0}
  BY <1>1
<1>3. PICK q \in Nearest(n, Grid * d) : p = InLegalRange(Grid * q)
  BY DEF Snapped
<1>4. n \div (Grid * d) \in Int
  BY <1>2
<1>5. q \in Int
  BY <1>3, <1>4 DEF Nearest
<1>6. Grid * q \in Int
  BY <1>1, <1>5
<1> QED
  BY <1>3, <1>6 DEF InLegalRange

LEMMA ClampedIsPassive ==
    ASSUME NEW b \in Books, IsValid(b), tick \in Nat \ {0},
           NEW m, m.bid \in Int, m.ask \in Int
    PROVE  Clamped(b, m).bid < BestAsk(b) /\ Clamped(b, m).ask > BestBid(b)
<1>1. BestAsk(b) - tick \in Int /\ BestBid(b) + tick \in Int
  BY ValidPrices
<1>2. Min({m.bid, BestAsk(b) - tick}) \in Int
      /\ Min({m.bid, BestAsk(b) - tick}) <= BestAsk(b) - tick
  BY <1>1, MinOfPair
<1>3. Max({m.ask, BestBid(b) + tick}) \in Int
      /\ Max({m.ask, BestBid(b) + tick}) >= BestBid(b) + tick
  BY <1>1, MaxOfPair
<1> QED
  BY <1>2, <1>3, ValidPrices DEF Clamped

LEMMA DesiredIsPassive ==
    ASSUME NEW bs \in [Tickers -> Books], dist \in Int, tick \in Nat \ {0},
           NEW half \in HalfSpreads, NEW skew \in Skews, NEW p \in Desired(bs, half, skew)
    PROVE  p.bid < BestAsk(bs[Own]) /\ p.ask > BestBid(bs[Own])
<1> DEFINE b == bs[Own]
           shift == Shift(bs, Own)
           improve == IF tick <= 1 /\ Subpenny THEN 1 ELSE 0
           at(offset) == Snapped(Mid2(b) * shift.den + 2 * shift.num + 2 * shift.den * offset,
                                 2 * shift.den)
           model == {q \in [bid : at(skew - half + improve), ask : at(skew + half - improve)] :
                       q.bid < q.ask}
<1>1. IsValid(b) /\ shift # None /\ p \in {Clamped(b, m) : m \in model}
  BY DEF Desired
<1>2. b \in Books
  BY OwnAssumption
<1>3. shift \in Fractions
  BY <1>1, OwnAssumption, ShiftType
<1>4. shift.num \in Int /\ shift.den \in Nat \ {0} /\ Mid2(b) \in Int
  BY <1>1, <1>2, <1>3, ValidPrices DEF Fractions
<1>5. PICK m \in model : p = Clamped(b, m)
  BY <1>1
<1>6. m.bid \in at(skew - half + improve) /\ m.ask \in at(skew + half - improve)
  BY <1>5
<1>7. skew - half + improve \in Int /\ skew + half - improve \in Int
  BY ActionAssumption
<1>8. ASSUME NEW offset \in Int, NEW x \in at(offset) PROVE x \in Int
  <2> HIDE DEF b, shift
  <2>1. Mid2(b) * shift.den + 2 * shift.num + 2 * shift.den * offset \in Int
    BY <1>4
  <2>2. 2 * shift.den \in Nat \ {0}
    BY <1>4
  <2> QED
    BY <2>1, <2>2, SnappedType
<1>9. m.bid \in Int /\ m.ask \in Int
  <2> HIDE DEF at, improve
  <2> QED
    BY <1>6, <1>7, <1>8
<1> HIDE DEF b, model
<1>10. Clamped(b, m).bid < BestAsk(b) /\ Clamped(b, m).ask > BestBid(b)
  BY <1>1, <1>2, <1>9, ClampedIsPassive
<1> QED
  BY <1>5, <1>10 DEF b

LEMMA NextIsPassive ==
    ASSUME PInv, PInv', Next, quote' # quote, book' # book
    PROVE  quote'.bid < BestAsk(book'[Own]) /\ quote'.ask > BestBid(book'[Own])
<1>1. Requote
  BY DEF Next, BookUpdate, SpotTick, FillBooked
<1>2. PICK half \in HalfSpreads, skew \in Skews :
        \E p \in Desired(book', half, skew) :
          \E on \in SUBSET Placeable(p) :
            quote' = [bid |-> p.bid, ask |-> p.ask, on |-> on,
                      size |-> [bid |-> BidSize(p), ask |-> AskSize(p)]]
  BY <1>1 DEF Requote
<1>3. PICK p \in Desired(book', half, skew) : quote'.bid = p.bid /\ quote'.ask = p.ask
  BY <1>2
<1>4. book' \in [Tickers -> Books] /\ dist \in Int /\ tick \in Nat \ {0}
  BY DEF PInv
<1> QED
  BY <1>3, <1>4, DesiredIsPassive

\* For every ladder, tick, policy and fee no quote is sent that the book it
\* was made from would execute (engine.rs:147-149, book.rs:212-219).
THEOREM QuotesPassive == Spec => QuotesArePassive
<1>1. PInv /\ PInv' /\ [Next]_vars =>
        [quote' # quote /\ quote'.on # {} /\ book' # book =>
           quote'.bid < BestAsk(book'[Own]) /\ quote'.ask > BestBid(book'[Own])]_vars
  BY NextIsPassive DEF vars
<1> QED
  BY <1>1, PricingInit, PricingStep, PTL DEF Spec, QuotesArePassive
-------------------------------------------------------------------------------
\* The quotes, their prices and their edge.

EdgeHolds == quote # None => EdgeOk(quote.bid, quote.ask)
QInv == PInv /\ TypeOK /\ EdgeHolds

\* The legal prices.
Legal == 10 .. 990

LEMMA SnappedIsLegal ==
    ASSUME NEW n \in Int, NEW d \in Nat \ {0}, tick \in Nat \ {0}, NEW p \in Snapped(n, d)
    PROVE  p \in Legal
<1>1. PICK q \in Nearest(n, Grid * d) : p = InLegalRange(Grid * q)
  BY DEF Snapped
<1>2. p \in Int
  BY SnappedType
<1>3. Grid \in Nat \ {0} /\ Grid * d \in Nat \ {0}
  <2>1. Grid \in Nat \ {0}
    BY DEF Grid
  <2> QED
    BY <2>1
<1>4. n \div (Grid * d) \in Int
  BY <1>3
<1>5. q \in Int
  BY <1>1, <1>4 DEF Nearest
<1>6. Grid * q \in Int
  BY <1>3, <1>5
<1> QED
  BY <1>1, <1>6 DEF InLegalRange, Legal

LEMMA MinWithin ==
    ASSUME NEW a \in Legal, NEW b \in Int, b >= 10
    PROVE  Min({a, b}) \in Legal
<1>1. a \in Int /\ a >= 10 /\ a <= 990
  BY DEF Legal
<1>2. Min({a, b}) \in {a, b}
  <2>1. a <= b \/ b <= a
    BY <1>1
  <2>2. \E n \in {a, b} : \A m \in {a, b} : n <= m
    BY <1>1, <2>1
  <2> QED
    BY <2>2, MinOf
<1>3. Min({a, b}) \in Int /\ Min({a, b}) <= a
  BY <1>1, MinOfPair
<1> QED
  BY <1>1, <1>2, <1>3 DEF Legal

LEMMA MaxWithin ==
    ASSUME NEW a \in Legal, NEW b \in Int, b <= 990
    PROVE  Max({a, b}) \in Legal
<1>1. a \in Int /\ a >= 10 /\ a <= 990
  BY DEF Legal
<1>2. Max({a, b}) \in {a, b}
  <2>1. a >= b \/ b >= a
    BY <1>1
  <2>2. \E n \in {a, b} : \A m \in {a, b} : n >= m
    BY <1>1, <2>1
  <2> QED
    BY <2>2, MaxOf
<1>3. Max({a, b}) \in Int /\ Max({a, b}) >= a
  BY <1>1, MaxOfPair
<1> QED
  BY <1>1, <1>2, <1>3 DEF Legal

\* The touch clamp moves a quote no further than a tick beyond the mid, and the
\* band keeps the mid off the ends.
LEMMA ClampedIsLegal ==
    ASSUME NEW b \in Books, IsValid(b), tick \in Ticks, Mid2(b) \in 2 * BandLo .. 2 * BandHi,
           NEW m, m.bid \in Legal, m.ask \in Legal,
           Clamped(b, m).bid < Clamped(b, m).ask
    PROVE  Clamped(b, m).bid \in Legal /\ Clamped(b, m).ask \in Legal
<1>1. tick \in Nat \ {0} /\ BandLo \in Nat /\ BandHi \in Nat
      /\ BandLo >= 10 + tick /\ BandHi + tick <= 990
  BY TicksArePositive, BandAssumption, InventoryAssumption
<1>2. /\ BestBid(b) \in Int /\ BestAsk(b) \in Int /\ BestBid(b) < BestAsk(b)
      /\ BestBid(b) + BestAsk(b) >= 2 * BandLo /\ BestBid(b) + BestAsk(b) <= 2 * BandHi
  <2>1. BestBid(b) \in Int /\ BestAsk(b) \in Int /\ BestBid(b) < BestAsk(b)
    BY ValidPrices
  <2> QED
    BY <1>1, <2>1 DEF Mid2
<1>3. BestAsk(b) - tick \in Int /\ BestBid(b) + tick \in Int
      /\ BestAsk(b) - tick >= 10 /\ BestBid(b) + tick <= 990
  BY <1>1, <1>2
<1>4. Min({m.bid, BestAsk(b) - tick}) \in Legal
  <2> DEFINE a == m.bid
             e == BestAsk(b) - tick
  <2>1. a \in Legal /\ e \in Int /\ e >= 10
    BY <1>3
  <2> HIDE DEF a, e
  <2>2. Min({a, e}) \in Legal
    BY <2>1, MinWithin
  <2> QED
    BY <2>2 DEF a, e
<1>5. Max({m.ask, BestBid(b) + tick}) \in Legal
  <2> DEFINE a == m.ask
             e == BestBid(b) + tick
  <2>1. a \in Legal /\ e \in Int /\ e <= 990
    BY <1>3
  <2> HIDE DEF a, e
  <2>2. Max({a, e}) \in Legal
    BY <2>1, MaxWithin
  <2> QED
    BY <2>2 DEF a, e
<1> QED
  BY <1>4, <1>5 DEF Clamped

LEMMA DesiredIsLegal ==
    ASSUME NEW bs \in [Tickers -> Books], dist \in Int, tick \in Ticks,
           NEW half \in HalfSpreads, NEW skew \in Skews, NEW p \in Desired(bs, half, skew)
    PROVE  p.bid \in Legal /\ p.ask \in Legal /\ EdgeOk(p.bid, p.ask)
<1> DEFINE b == bs[Own]
           shift == Shift(bs, Own)
           improve == IF tick <= 1 /\ Subpenny THEN 1 ELSE 0
           at(offset) == Snapped(Mid2(b) * shift.den + 2 * shift.num + 2 * shift.den * offset,
                                 2 * shift.den)
           model == {q \in [bid : at(skew - half + improve), ask : at(skew + half - improve)] :
                       q.bid < q.ask}
<1>1. /\ IsValid(b) /\ shift # None /\ Mid2(b) \in 2 * BandLo .. 2 * BandHi
      /\ p \in {Clamped(b, m) : m \in model} /\ p.bid < p.ask /\ EdgeOk(p.bid, p.ask)
  BY DEF Desired
<1>2. b \in Books /\ tick \in Nat \ {0}
  BY OwnAssumption, TicksArePositive
<1>3. shift \in Fractions
  BY <1>1, OwnAssumption, ShiftType
<1>4. shift.num \in Int /\ shift.den \in Nat \ {0} /\ Mid2(b) \in Int
  BY <1>1, <1>2, <1>3, ValidPrices DEF Fractions
<1>5. PICK m \in model : p = Clamped(b, m)
  BY <1>1
<1>6. m.bid \in at(skew - half + improve) /\ m.ask \in at(skew + half - improve)
  BY <1>5
<1>7. skew - half + improve \in Int /\ skew + half - improve \in Int
  BY ActionAssumption
<1>8. ASSUME NEW offset \in Int, NEW x \in at(offset) PROVE x \in Legal
  <2> HIDE DEF b, shift
  <2>1. Mid2(b) * shift.den + 2 * shift.num + 2 * shift.den * offset \in Int
    BY <1>4
  <2>2. 2 * shift.den \in Nat \ {0}
    BY <1>4
  <2> DEFINE n == Mid2(b) * shift.den + 2 * shift.num + 2 * shift.den * offset
             d == 2 * shift.den
  <2>3. x \in Snapped(n, d)
    OBVIOUS
  <2>4. n \in Int /\ d \in Nat \ {0} /\ tick \in Nat \ {0}
    BY <1>2, <2>1, <2>2
  <2> HIDE DEF n, d, at
  <2> QED
    BY <2>3, <2>4, SnappedIsLegal
<1>9. m.bid \in Legal /\ m.ask \in Legal
  <2> HIDE DEF at, improve
  <2> QED
    BY <1>6, <1>7, <1>8
<1> HIDE DEF b, model
<1>10. Clamped(b, m).bid \in Legal /\ Clamped(b, m).ask \in Legal
  BY <1>1, <1>2, <1>5, <1>9, ClampedIsLegal
<1> QED
  BY <1>1, <1>5, <1>10

\* The parameters of the quotes are numbers.
LEMMA QuoteNumbers ==
    /\ QuoteSize \in Nat \ {0} /\ ExtremeSize \in Nat \ {0}
    /\ MaxInventory \in Nat /\ FeeRate \in Nat /\ MinEdge \in Nat
    /\ None \notin Int
  BY SizeAssumption, InventoryAssumption, FeeAssumption, NoneAssumption

LEMMA QuotesInit == Init => QInv
<1> SUFFICES ASSUME Init PROVE QInv
  OBVIOUS
<1>1. PInv
  BY PricingInit
<1>2. TypeOK
  BY QuoteNumbers DEF Init, TypeOK
<1>3. EdgeHolds
  BY DEF Init, EdgeHolds
<1> QED
  BY <1>1, <1>2, <1>3 DEF QInv

\* Books keep to their levels.
LEMMA BookMovesLevels ==
    ASSUME PInv, TypeOK, NEW t \in Tickers, BookMoves(t)
    PROVE  \A u \in Tickers :
             book'[u].yes \subseteq Levels[u].yes /\ book'[u].no \subseteq Levels[u].no
<1>1. PICK side \in {"yes", "no"} :
        \E level \in Levels[t][side] :
          book' = [book EXCEPT ![t][side] =
                     IF level \in @ THEN @ \ {level} ELSE @ \cup {level}]
  BY DEF BookMoves
<1>2. PICK level \in Levels[t][side] :
        book' = [book EXCEPT ![t][side] =
                   IF level \in @ THEN @ \ {level} ELSE @ \cup {level}]
  BY <1>1
<1>3. book \in [Tickers -> Books] /\ book[t] \in Books
      /\ \A u \in Tickers :
           book[u].yes \subseteq Levels[u].yes /\ book[u].no \subseteq Levels[u].no
  BY DEF PInv, TypeOK
<1>4. \A u \in Tickers : u # t => book'[u] = book[u]
  BY <1>2, <1>3
<1>5. CASE side = "yes"
  <2>1. book' = [book EXCEPT ![t].yes = IF level \in @ THEN @ \ {level} ELSE @ \cup {level}]
        /\ level \in Levels[t].yes
    BY <1>2, <1>5
  <2>2. book'[t].no = book[t].no
        /\ book'[t].yes \subseteq book[t].yes \cup {level}
    BY <1>3, <2>1 DEF Books
  <2> QED
    BY <1>3, <1>4, <2>1, <2>2
<1>6. CASE side = "no"
  <2>1. book' = [book EXCEPT ![t].no = IF level \in @ THEN @ \ {level} ELSE @ \cup {level}]
        /\ level \in Levels[t].no
    BY <1>2, <1>6
  <2>2. book'[t].yes = book[t].yes
        /\ book'[t].no \subseteq book[t].no \cup {level}
    BY <1>3, <2>1 DEF Books
  <2> QED
    BY <1>3, <1>4, <2>1, <2>2
<1> QED
  BY <1>5, <1>6

LEMMA QuoteRequoteStep ==
    ASSUME QInv, Requote
    PROVE  QInv'
<1> USE DEF QInv
<1>1. PICK half \in HalfSpreads, skew \in Skews :
        \E p \in Desired(book', half, skew) :
          \E on \in SUBSET Placeable(p) :
            quote' = [bid |-> p.bid, ask |-> p.ask, on |-> on,
                      size |-> [bid |-> BidSize(p), ask |-> AskSize(p)]]
  BY DEF Requote
<1>2. PICK p \in Desired(book', half, skew) :
        \E on \in SUBSET Placeable(p) :
          quote' = [bid |-> p.bid, ask |-> p.ask, on |-> on,
                    size |-> [bid |-> BidSize(p), ask |-> AskSize(p)]]
  BY <1>1
<1>3. PICK on \in SUBSET Placeable(p) :
        quote' = [bid |-> p.bid, ask |-> p.ask, on |-> on,
                  size |-> [bid |-> BidSize(p), ask |-> AskSize(p)]]
  BY <1>2
<1>4. UNCHANGED <<dist, tick, position>> /\ BookMoves(Own)
  BY DEF Requote
<1>5. PInv'
  BY PricingStep DEF Next
<1>6. p.bid \in Legal /\ p.ask \in Legal /\ EdgeOk(p.bid, p.ask)
  <2>1. book' \in [Tickers -> Books] /\ dist \in Int /\ tick \in Ticks
    BY <1>4, <1>5 DEF PInv, TypeOK
  <2> QED
    BY <1>2, <2>1, DesiredIsLegal
<1>7. /\ BidSize(p) \in {QuoteSize, ExtremeSize} /\ AskSize(p) \in {QuoteSize, ExtremeSize}
  BY DEF BidSize, AskSize
<1>8. on \subseteq {"bid", "ask"}
  BY DEF Placeable
<1>9. quote' \in Quotes
  BY <1>3, <1>6, <1>7, <1>8 DEF Quotes, Legal
<1>10. TypeOK'
  <2>1. \A u \in Tickers :
          book'[u].yes \subseteq Levels[u].yes /\ book'[u].no \subseteq Levels[u].no
    BY <1>4, OwnAssumption, BookMovesLevels
  <2> QED
    BY <1>4, <1>9, <2>1 DEF TypeOK
<1>11. EdgeHolds'
  BY <1>3, <1>6 DEF EdgeHolds, EdgeOk, Fee
<1> QED
  BY <1>5, <1>10, <1>11

LEMMA QuoteFillStep ==
    ASSUME QInv, FillBooked
    PROVE  QInv'
<1> USE DEF QInv
<1>1. PICK side \in {"bid", "ask"}, n \in 1 .. Max({QuoteSize, ExtremeSize}) :
        /\ position' = IF side = "bid" THEN position + n ELSE position - n
        /\ quote' \in Released(side)
  BY DEF FillBooked
<1>2. UNCHANGED <<book, dist, tick>>
  BY DEF FillBooked
<1>3. PInv'
  BY PricingStep DEF Next
<1>4. position' \in Int
  BY <1>1 DEF TypeOK
<1>5. CASE quote' = quote
  BY <1>2, <1>3, <1>4, <1>5 DEF TypeOK, EdgeHolds, EdgeOk, Fee
<1>6. CASE quote # None /\ quote' = [quote EXCEPT !.on = @ \ {side}]
  <2>1. quote \in Quotes
    BY <1>6 DEF TypeOK
  <2>2. quote' \in Quotes /\ quote'.bid = quote.bid /\ quote'.ask = quote.ask
    BY <1>6, <2>1 DEF Quotes
  <2>3. EdgeHolds'
    BY <1>6, <2>2 DEF EdgeHolds, EdgeOk, Fee
  <2> QED
    BY <1>2, <1>3, <1>4, <2>2, <2>3 DEF TypeOK
<1> QED
  BY <1>1, <1>5, <1>6 DEF Released

LEMMA QuotesStep ==
    ASSUME QInv, [Next]_vars
    PROVE  QInv'
<1> USE DEF QInv
<1>1. PInv'
  BY PricingStep
<1>2. CASE BookUpdate
  <2>1. PICK t \in Tickers : BookMoves(t)
    BY <1>2 DEF BookUpdate
  <2>2. UNCHANGED <<dist, tick, position, quote>>
    BY <1>2 DEF BookUpdate
  <2>3. \A u \in Tickers :
          book'[u].yes \subseteq Levels[u].yes /\ book'[u].no \subseteq Levels[u].no
    BY <2>1, BookMovesLevels
  <2> QED
    BY <1>1, <2>2, <2>3 DEF TypeOK, EdgeHolds, EdgeOk, Fee
<1>3. CASE SpotTick
  BY <1>1, <1>3 DEF SpotTick, TypeOK, EdgeHolds, EdgeOk, Fee
<1>4. CASE UNCHANGED vars
  BY <1>1, <1>4 DEF vars, TypeOK, EdgeHolds, EdgeOk, Fee
<1> QED
  BY <1>2, <1>3, <1>4, QuoteRequoteStep, QuoteFillStep DEF Next

\* For every ladder, band, tick, policy and size: whatever the shift, the
\* improvement, the rounding and the clamp, quotes are legal prices
\* (engine.rs:142-160).
THEOREM QuoteTypes == Spec => []TypeOK
<1>1. QInv => TypeOK
  BY DEF QInv
<1> QED
  BY <1>1, QuotesInit, QuotesStep, PTL DEF Spec
-------------------------------------------------------------------------------
\* Weighed sums, and what a fill's rounding can cost.

\* The sums of the first k products.
Sums(k, f, w, g) ==
    /\ g \in [0 .. k -> Int]
    /\ g[0] = 0
    /\ \A m \in 1 .. k : g[m] = g[m - 1] + f[m] * w[m]

LEMMA SumsExist ==
    ASSUME NEW n \in Nat, NEW f \in [1 .. n -> Int], NEW w \in [1 .. n -> Int]
    PROVE  \E g : Sums(n, f, w, g)
<1> DEFINE Bad == {k \in 0 .. n : ~ \E g : Sums(k, f, w, g)}
<1>1. SUFFICES ASSUME Bad # {} PROVE FALSE
  <2>1. n \in 0 .. n /\ n \notin Bad => \E g : Sums(n, f, w, g)
    BY Zenon
  <2> HIDE DEF Bad
  <2> QED
    BY <2>1
<1>2. PICK k \in Bad : \A m \in Bad : k <= m
  <2>1. Bad \in SUBSET Nat
    OBVIOUS
  <2> HIDE DEF Bad
  <2> QED
    BY <1>1, <2>1, Least
<1>3. k \in 0 .. n /\ ~ \E g : Sums(k, f, w, g)
  BY <1>2
<1>4. k # 0
  <2>1. Sums(0, f, w, [m \in 0 .. 0 |-> 0])
    BY DEF Sums
  <2> QED
    BY <1>3, <2>1
<1>5. k - 1 \in 0 .. n /\ k - 1 \notin Bad /\ k \in 1 .. n
  BY <1>2, <1>3, <1>4
<1>6. PICK g : Sums(k - 1, f, w, g)
  BY <1>5
<1> DEFINE last == g[k - 1] + f[k] * w[k]
           h == [m \in 0 .. k |-> IF m = k THEN last ELSE g[m]]
<1>7. last \in Int
  <2>1. g[k - 1] \in Int /\ f[k] \in Int /\ w[k] \in Int
    BY <1>5, <1>6 DEF Sums
  <2> QED
    BY <2>1
<1>8. h \in [0 .. k -> Int]
  <2> HIDE DEF last
  <2>1. g \in [0 .. k - 1 -> Int]
    BY <1>6 DEF Sums
  <2> QED
    BY <1>5, <1>7, <2>1
<1>9. h[0] = 0
  BY <1>5, <1>6 DEF Sums
<1>10. ASSUME NEW m \in 1 .. k PROVE h[m] = h[m - 1] + f[m] * w[m]
  <2>1. h[m - 1] = g[m - 1]
    BY <1>5
  <2>2. CASE m = k
    <3>1. h[m] = last
      BY <1>5, <2>2
    <3> QED
      BY <2>1, <2>2, <3>1
  <2>3. CASE m # k
    <3>1. m \in 1 .. k - 1 /\ h[m] = g[m]
      BY <1>5, <2>3
    <3> QED
      BY <1>6, <2>1, <3>1 DEF Sums
  <2> QED
    BY <2>2, <2>3
<1>11. Sums(k, f, w, h)
  <2> HIDE DEF h
  <2> QED
    BY <1>8, <1>9, <1>10 DEF Sums
<1> QED
  BY <1>3, <1>11

\* The recursive function of Weighed computes these sums.
LEMMA WeighedIs ==
    ASSUME NEW n \in Nat, NEW f \in [1 .. n -> Int], NEW w \in [1 .. n -> Int]
    PROVE  \E g : Sums(n, f, w, g) /\ Weighed(n, f, w) = g[n]
<1> DEFINE Step(g) == [k \in 0 .. n |-> IF k = 0 THEN 0 ELSE g[k - 1] + f[k] * w[k]]
           sum == CHOOSE g : g = Step(g)
<1>1. PICK g : Sums(n, f, w, g)
  BY SumsExist
<1>2. g = Step(g)
  <2>1. ASSUME NEW k \in 0 .. n
        PROVE  g[k] = IF k = 0 THEN 0 ELSE g[k - 1] + f[k] * w[k]
    <3>1. CASE k = 0
      BY <1>1, <3>1 DEF Sums
    <3>2. CASE k # 0
      <4>1. k \in 1 .. n
        BY <3>2
      <4> QED
        BY <1>1, <3>2, <4>1 DEF Sums
    <3> QED
      BY <3>1, <3>2
  <2>2. g \in [0 .. n -> Int]
    BY <1>1 DEF Sums
  <2> QED
    BY <2>1, <2>2
<1>3. sum = Step(sum)
  <2> HIDE DEF Step
  <2> QED
    BY <1>2
<1>4. Weighed(n, f, w) = sum[n]
  BY DEF Weighed
<1>5. sum[n] = g[n]
  <2> DEFINE Bad == {k \in 0 .. n : sum[k] # g[k]}
  <2> HIDE DEF sum
  <2>1. SUFFICES ASSUME Bad # {} PROVE FALSE
    OBVIOUS
  <2>2. PICK k \in Bad : \A m \in Bad : k <= m
    <3>1. Bad \in SUBSET Nat
      OBVIOUS
    <3> HIDE DEF Bad
    <3> QED
      BY <2>1, <3>1, Least
  <2>3. k \in 0 .. n /\ sum[k] # g[k]
    BY <2>2
  <2>4. /\ sum[k] = IF k = 0 THEN 0 ELSE sum[k - 1] + f[k] * w[k]
        /\ g[k] = IF k = 0 THEN 0 ELSE g[k - 1] + f[k] * w[k]
    BY <1>2, <1>3, <2>3
  <2>5. k # 0
    BY <2>3, <2>4
  <2>6. k - 1 \in 0 .. n /\ k - 1 \notin Bad
    BY <2>2, <2>3, <2>5
  <2> QED
    BY <2>3, <2>4, <2>5, <2>6
<1> QED
  BY <1>1, <1>4, <1>5

LEMMA NextSum ==
    ASSUME NEW a \in Nat, NEW c \in Int, NEW p \in Int, NEW q \in Int,
           NEW x \in Int, NEW y \in Int, p <= c * q, x <= c * y
    PROVE  p + a * x <= c * (q + a * y)
<1> DEFINE z == c * y
<1>1. z \in Int /\ x <= z /\ c * q \in Int
  OBVIOUS
<1>2. a * x <= a * z /\ a * x \in Int /\ a * z \in Int
  <2> HIDE DEF z
  <2> QED
    BY <1>1
<1>3. c * q + a * (c * y) = c * (q + a * y)
  OBVIOUS
<1> QED
  BY <1>1, <1>2, <1>3

\* Weights within a multiple of others sum within the multiple of their sum.
LEMMA WeighedWithin ==
    ASSUME NEW n \in Nat, NEW f \in [1 .. n -> Nat], NEW c \in Int,
           NEW w \in [1 .. n -> Int], NEW v \in [1 .. n -> Int],
           \A k \in 1 .. n : w[k] <= c * v[k]
    PROVE  /\ Weighed(n, f, w) \in Int /\ Weighed(n, f, v) \in Int
           /\ Weighed(n, f, w) <= c * Weighed(n, f, v)
<1>1. f \in [1 .. n -> Int]
  OBVIOUS
<1>2. PICK g : Sums(n, f, w, g) /\ Weighed(n, f, w) = g[n]
  BY <1>1, WeighedIs
<1>3. PICK h : Sums(n, f, v, h) /\ Weighed(n, f, v) = h[n]
  BY <1>1, WeighedIs
<1>4. g \in [0 .. n -> Int] /\ h \in [0 .. n -> Int]
  BY <1>2, <1>3 DEF Sums
<1> DEFINE Bad == {k \in 0 .. n : ~(g[k] <= c * h[k])}
<1>5. Bad = {}
  <2>1. SUFFICES ASSUME Bad # {} PROVE FALSE
    OBVIOUS
  <2>2. PICK k \in Bad : \A m \in Bad : k <= m
    <3>1. Bad \in SUBSET Nat
      OBVIOUS
    <3> HIDE DEF Bad
    <3> QED
      BY <2>1, <3>1, Least
  <2>3. k \in 0 .. n /\ ~(g[k] <= c * h[k])
    BY <2>2
  <2>4. k # 0
    <3>1. g[0] = 0 /\ h[0] = 0
      BY <1>2, <1>3 DEF Sums
    <3>2. g[0] <= c * h[0]
      BY <3>1
    <3> QED
      BY <2>3, <3>2
  <2>5. k \in 1 .. n /\ k - 1 \in 0 .. n /\ k - 1 \notin Bad
    BY <2>2, <2>3, <2>4
  <2>6. g[k - 1] <= c * h[k - 1]
    BY <2>5
  <2>7. g[k] = g[k - 1] + f[k] * w[k] /\ h[k] = h[k - 1] + f[k] * v[k]
    BY <1>2, <1>3, <2>5 DEF Sums
  <2> DEFINE a == f[k]
             p == g[k - 1]
             q == h[k - 1]
             x == w[k]
             y == v[k]
  <2>8. a \in Nat /\ p \in Int /\ q \in Int /\ x \in Int /\ y \in Int
        /\ p <= c * q /\ x <= c * y
    BY <1>4, <2>5, <2>6
  <2>9. g[k] = p + a * x /\ h[k] = q + a * y
    BY <2>7
  <2> HIDE DEF a, p, q, x, y
  <2>10. p + a * x <= c * (q + a * y)
    BY <2>8, NextSum
  <2> QED
    BY <2>3, <2>9, <2>10
<1>6. n \in 0 .. n
  OBVIOUS
<1>7. g[n] <= c * h[n]
  BY <1>5, <1>6
<1> QED
  BY <1>2, <1>3, <1>4, <1>6, <1>7

LEMMA Quotient ==
    ASSUME NEW x \in Int, NEW d \in Nat \ {0}
    PROVE  x \div d \in Int /\ d * (x \div d) <= x /\ x < d * (x \div d) + d
<1>1. x = d * (x \div d) + (x % d) /\ x \div d \in Int /\ x % d \in 0 .. d - 1
  OBVIOUS
<1> QED
  BY <1>1

\* A multiple of a quotient, rounded down before or after.
LEMMA QuotientOfMultiple ==
    ASSUME NEW k \in Nat, NEW x \in Int, NEW d \in Nat \ {0}
    PROVE  k * (x \div d) <= (k * x) \div d
<1> DEFINE q == x \div d
           y == k * x
           r == y \div d
<1>1. q \in Int /\ d * q <= x
  BY Quotient
<1>2. y \in Int
  OBVIOUS
<1>3. r \in Int /\ y < d * r + d
  <2> HIDE DEF y
  <2> QED
    BY <1>2, Quotient
<1> HIDE DEF q, r
<1>4. d * (k * q) <= y
  <2>1. d * q \in Int
    BY <1>1
  <2>2. k * (d * q) <= k * x
    BY <1>1, <2>1
  <2>3. k * (d * q) = d * (k * q)
    BY <1>1
  <2> QED
    BY <2>2, <2>3
<1> HIDE DEF y
<1>5. k * q <= r
  <2> DEFINE m == k * q
  <2>1. m \in Int /\ d * m < d * r + d
    BY <1>1, <1>2, <1>3, <1>4
  <2> HIDE DEF m
  <2>2. ~(m >= r + 1)
    <3>1. SUFFICES ASSUME m >= r + 1 PROVE FALSE
      OBVIOUS
    <3>2. d * m >= d * (r + 1)
      BY <1>3, <2>1, <3>1
    <3>3. d * (r + 1) = d * r + d
      BY <1>3
    <3> QED
      BY <1>3, <2>1, <3>2, <3>3
  <2>3. m <= r
    BY <1>3, <2>1, <2>2
  <2> QED
    BY <2>3 DEF m
<1> QED
  BY <1>5 DEF q, r, y

\* k contracts filled at once cost no more than k fills of one.
LEMMA FeeOfSize ==
    ASSUME NEW k \in Nat, NEW p \in Legal
    PROVE  Fee(k, p) \in Int /\ Fee(1, p) \in Int /\ Fee(k, p) <= Fee(1, p) * k
<1> DEFINE x == -FeeRate * 1 * p * (Dollar - p)
           y == -FeeRate * k * p * (Dollar - p)
           d == 100000000
<1>1. FeeRate \in Nat /\ p \in Int /\ Dollar \in Int
  BY QuoteNumbers DEF Legal, Dollar
<1>2. x \in Int /\ y = k * x
  <2> DEFINE z == p * (Dollar - p)
  <2>1. z \in Int
    BY <1>1
  <2>2. x = -FeeRate * z /\ y = (-FeeRate * k) * z
    BY <1>1
  <2> HIDE DEF z, x, y
  <2>3. (-FeeRate * k) * z = k * (-FeeRate * z)
    BY <1>1, <2>1
  <2> QED
    BY <1>1, <2>1, <2>2, <2>3
<1>3. d \in Nat \ {0}
  OBVIOUS
<1>4. Fee(k, p) = -10 * (y \div d) /\ Fee(1, p) = -10 * (x \div d)
  BY DEF Fee
<1> HIDE DEF x, y, d
<1>5. k * (x \div d) <= (k * x) \div d
  BY <1>2, <1>3, QuotientOfMultiple
<1> DEFINE q == x \div d
           r == y \div d
<1>6. q \in Int /\ r \in Int /\ k * q <= r
  <2>1. k * x \in Int
    BY <1>2
  <2> QED
    BY <1>2, <1>3, <1>5, <2>1, Quotient
<1>7. Fee(k, p) = -10 * r /\ Fee(1, p) = -10 * q
  BY <1>4
<1> HIDE DEF q, r
<1>8. k * q \in Int /\ (-10 * q) * k = -10 * (k * q)
  BY <1>6
<1> QED
  BY <1>6, <1>7, <1>8

LEMMA FeesOfSplit ==
    ASSUME NEW n \in Nat, NEW f \in Splits(n), NEW p \in Legal
    PROVE  Fees(n, f, p) \in Int /\ Fees(n, f, p) <= Fee(1, p) * n
<1> DEFINE w == [k \in 1 .. n |-> Fee(k, p)]
           v == [k \in 1 .. n |-> k]
           c == Fee(1, p)
<1>1. f \in [1 .. n -> Nat] /\ Weighed(n, f, v) = n
  BY DEF Splits
<1>2. ASSUME NEW k \in 1 .. n PROVE w[k] \in Int /\ v[k] \in Int /\ w[k] <= c * v[k]
  BY FeeOfSize
<1>3. c \in Int /\ w \in [1 .. n -> Int] /\ v \in [1 .. n -> Int]
  <2>1. c \in Int
    BY FeeOfSize
  <2> QED
    BY <1>2, <2>1
<1>4. Fees(n, f, p) = Weighed(n, f, w)
  BY DEF Fees
<1> HIDE DEF w, v, c
<1>5. Weighed(n, f, w) \in Int /\ Weighed(n, f, w) <= c * Weighed(n, f, v)
  BY <1>1, <1>2, <1>3, WeighedWithin
<1> QED
  BY <1>1, <1>4, <1>5 DEF c

LEMMA PairPays ==
    ASSUME NEW n \in Nat \ {0}, NEW gain \in Int, NEW a \in Int, NEW b \in Int,
           NEW e \in Int, gain > a + b + e,
           NEW buy \in Int, NEW sell \in Int, buy <= a * n, sell <= b * n
    PROVE  n * gain > buy + sell + n * e
<1> DEFINE s == a + b + e
<1>1. s \in Int /\ gain >= s + 1
  OBVIOUS
<1>2. n * gain >= n * (s + 1)
  <2> HIDE DEF s
  <2> QED
    BY <1>1
<1>3. n * (s + 1) = a * n + b * n + n * e + n
  OBVIOUS
<1> QED
  BY <1>2, <1>3

\* For every fee rate, minimum edge and size, however the two quotes of a pair
\* are filled, a contract at a time or many at once, a round trip beats the fees
\* by the minimum edge (engine.rs:150-157, book.rs:226-243).
THEOREM PairsPay == Spec => []RoundTripsPay
<1>1. QInv => RoundTripsPay
  <2> SUFFICES ASSUME QInv, quote # None,
                      NEW n \in 1 .. Min({quote.size.bid, quote.size.ask}),
                      NEW buys \in Splits(n), NEW sells \in Splits(n)
               PROVE  n * (quote.ask - quote.bid)
                        > Fees(n, buys, quote.bid) + Fees(n, sells, quote.ask) + n * MinEdge
    BY DEF RoundTripsPay
  <2>1. quote.bid \in Legal /\ quote.ask \in Legal
        /\ quote.size.bid \in Int /\ quote.size.ask \in Int
    BY QuoteNumbers DEF QInv, TypeOK, Quotes, Legal
  <2>2. Min({quote.size.bid, quote.size.ask}) \in Int
    BY <2>1, MinOfPair
  <2>3. n \in Nat \ {0}
    BY <2>2
  <2> DEFINE bid == quote.bid
             ask == quote.ask
             a == Fee(1, bid)
             b == Fee(1, ask)
             buy == Fees(n, buys, bid)
             sell == Fees(n, sells, ask)
  <2>4. a \in Int /\ b \in Int /\ bid \in Int /\ ask \in Int /\ MinEdge \in Int
    <3>1. bid \in Legal /\ ask \in Legal
      BY <2>1
    <3> HIDE DEF bid, ask
    <3>2. 1 \in Nat
      OBVIOUS
    <3>3. a \in Int /\ b \in Int
      BY <3>1, <3>2, FeeOfSize
    <3> QED
      BY <3>1, <3>3, QuoteNumbers DEF Legal
  <2>5. ask - bid > a + b + MinEdge
    BY DEF QInv, EdgeHolds, EdgeOk
  <2>6. buy \in Int /\ buy <= a * n /\ sell \in Int /\ sell <= b * n
    BY <2>1, <2>3, FeesOfSplit
  <2> HIDE DEF bid, ask, a, b, buy, sell
  <2>7. n * (ask - bid) > buy + sell + n * MinEdge
    <3>1. ask - bid \in Int
      BY <2>4
    <3> QED
      BY <2>3, <2>4, <2>5, <2>6, <3>1, PairPays
  <2> QED
    BY <2>7 DEF bid, ask, buy, sell
<1> QED
  BY <1>1, QuotesInit, QuotesStep, PTL DEF Spec
-------------------------------------------------------------------------------
\* The ticks of spot, and what the trader believed.

TicksInOrder == \A i, j \in DOMAIN ticks : i <= j => ticks[i].age >= ticks[j].age

\* Tick i is the newest of those of an age of k or more.
IsNewest(ts, i, k) == ts[i].age >= k /\ (i # Len(ts) => ts[i + 1].age < k)
BeliefsKept ==
    \A k \in 0 .. Retain, i \in DOMAIN ticks :
      IsNewest(ticks, i, k) => believed[k] = ticks[i].price

\* What was believed before the oldest tick had stood for the retention.
BeliefsBefore ==
    /\ ticks = <<>> => \A k \in 0 .. Retain : believed[k] = NoPrice
    /\ ticks # <<>> =>
         \A j, k \in ticks[1].age + 1 .. Retain : believed[j] = believed[k]

SInv == SignalTypeOK /\ TicksInOrder /\ BeliefsKept /\ BeliefsBefore

Tick == [age : 0 .. Retain + 1, price : Prices]

LEMMA SignalNumbers ==
    /\ Retain \in Nat /\ ReturnWindow \in Nat /\ ReturnWindow < Retain /\ MidWindow \in Nat
    /\ Capacity \in Nat \ {0} /\ HistoryLen \in Nat \ {0}
    /\ MaxMoves \in Nat /\ MaxFaults \in Nat /\ NoPrice \notin Prices
  BY WindowAssumption, LengthAssumption, SignalBoundAssumption, PriceAssumption

LEMMA SignalsInit == SignalInit => SInv
<1> SUFFICES ASSUME SignalInit PROVE SInv
  OBVIOUS
<1>1. SignalTypeOK
  <2>1. MidWindow + 1 \in 0 .. MidWindow + 1 /\ 0 \in 0 .. MaxMoves /\ 0 \in 0 .. MaxFaults
    BY SignalNumbers
  <2>2. /\ channel \in Seq(Prices) /\ Len(channel) <= Capacity
        /\ history \in Seq(Mids) /\ Len(history) <= HistoryLen
        /\ ticks \in Seq([age : 0 .. Retain + 1, price : Prices])
    BY SignalNumbers DEF SignalInit
  <2>3. {linked, reported, gateOn} \subseteq BOOLEAN
    BY DEF SignalInit
  <2> QED
    BY <2>1, <2>2, <2>3 DEF SignalInit, SignalTypeOK
<1>2. TicksInOrder /\ BeliefsKept /\ BeliefsBefore
  BY DEF SignalInit, TicksInOrder, BeliefsKept, BeliefsBefore
<1> QED
  BY <1>1, <1>2 DEF SInv

LEMMA OlderBy ==
    ASSUME NEW a \in Nat, NEW b \in Nat,
           b = IF a > Retain THEN a ELSE a + 1
    PROVE  /\ a > Retain => b > Retain
           /\ a <= Retain => b = a + 1
           /\ b >= a
           /\ \A k \in 1 .. Retain : b >= k <=> a >= k - 1
  BY SignalNumbers

LEMMA OlderInOrder ==
    ASSUME NEW a \in Nat, NEW b \in Nat, NEW c \in Nat, NEW d \in Nat, a >= c,
           b = IF a > Retain THEN a ELSE a + 1,
           d = IF c > Retain THEN c ELSE c + 1
    PROVE  b >= d
  BY SignalNumbers

\* Time ages the ticks and the beliefs alike.
LEMMA SignalTimeStep ==
    ASSUME SInv, TimePasses
    PROVE  SInv'
<1> USE DEF SInv
<1>1. /\ ticks \in Seq(Tick) /\ believed \in [0 .. Retain -> Prices \cup {NoPrice}]
      /\ sampled \in 0 .. MidWindow + 1
  BY DEF SignalTypeOK, Tick
<1>2. /\ ticks' = [k \in DOMAIN ticks |-> [ticks[k] EXCEPT !.age = Older(@, Retain)]]
      /\ believed' = [k \in 0 .. Retain |-> IF k = 0 THEN believed[0] ELSE believed[k - 1]]
      /\ sampled' = Older(sampled, MidWindow)
  BY <1>1 DEF TimePasses
<1>3. Len(ticks) \in Nat /\ DOMAIN ticks = 1 .. Len(ticks)
  BY <1>1
<1>4. ASSUME NEW i \in DOMAIN ticks
      PROVE  /\ ticks[i] \in Tick
             /\ ticks'[i] = [ticks[i] EXCEPT !.age = Older(@, Retain)]
             /\ ticks'[i] \in Tick
             /\ ticks'[i].price = ticks[i].price
             /\ ticks[i].age \in Nat /\ ticks'[i].age \in Nat
             /\ ticks'[i].age = IF ticks[i].age > Retain THEN ticks[i].age ELSE ticks[i].age + 1
  <2>1. ticks[i] \in Tick
    BY <1>1
  <2>2. ticks'[i] = [ticks[i] EXCEPT !.age = Older(@, Retain)]
    BY <1>2
  <2>3. ticks[i].age \in 0 .. Retain + 1 /\ ticks'[i].age = Older(ticks[i].age, Retain)
        /\ ticks'[i].price = ticks[i].price /\ ticks[i].price \in Prices
    BY <2>1, <2>2 DEF Tick
  <2>4. ticks'[i].age \in 0 .. Retain + 1
    BY <2>3, SignalNumbers DEF Older
  <2>5. ticks'[i] \in Tick
    BY <2>1, <2>2, <2>3, <2>4 DEF Tick
  <2> QED
    BY <2>1, <2>2, <2>3, <2>4, <2>5, SignalNumbers DEF Older
<1>5. /\ ticks' = [k \in 1 .. Len(ticks) |-> ticks'[k]]
      /\ ticks' \in Seq(Tick) /\ Len(ticks') = Len(ticks) /\ DOMAIN ticks' = DOMAIN ticks
  <2>1. ticks' = [k \in 1 .. Len(ticks) |-> ticks'[k]]
    BY <1>2, <1>3
  <2>2. ticks' \in [1 .. Len(ticks) -> Tick]
    BY <1>3, <1>4, <2>1
  <2> QED
    BY <1>3, <2>1, <2>2
<1>6. SignalTypeOK'
  <2>1. sampled' \in 0 .. MidWindow + 1
    BY <1>1, <1>2, SignalNumbers DEF Older
  <2>2. believed' \in [0 .. Retain -> Prices \cup {NoPrice}]
    BY <1>1, <1>2, SignalNumbers
  <2>3. faults' \in 0 .. MaxFaults
    BY SignalNumbers DEF TimePasses, Fault, SignalTypeOK
  <2>4. UNCHANGED <<worldVars, linked, channel, gateOn, history, moves>> /\ reported' = FALSE
    BY DEF TimePasses
  <2> QED
    BY <1>5, <2>1, <2>2, <2>3, <2>4 DEF SignalTypeOK, Tick, worldVars
<1>7. TicksInOrder'
  <2>1. ASSUME NEW i \in DOMAIN ticks, NEW j \in DOMAIN ticks, i <= j
        PROVE  ticks'[i].age >= ticks'[j].age
    <3>1. ticks[i].age >= ticks[j].age
      BY <2>1 DEF TicksInOrder
    <3> DEFINE a == ticks[i].age
               b == ticks'[i].age
               c == ticks[j].age
               d == ticks'[j].age
    <3>2. /\ a \in Nat /\ b \in Nat /\ c \in Nat /\ d \in Nat /\ a >= c
          /\ b = IF a > Retain THEN a ELSE a + 1
          /\ d = IF c > Retain THEN c ELSE c + 1
      BY <1>4, <3>1
    <3> HIDE DEF a, b, c, d
    <3>3. b >= d
      BY <3>2, OlderInOrder
    <3> QED
      BY <3>3 DEF b, d
  <2> QED
    BY <1>5, <2>1 DEF TicksInOrder
<1>8. BeliefsKept'
  <2>1. ASSUME NEW k \in 0 .. Retain, NEW i \in DOMAIN ticks, IsNewest(ticks', i, k)
        PROVE  believed'[k] = ticks'[i].price
    <3>1. CASE k = 0
      <4>1. i = Len(ticks)
        <5>1. SUFFICES ASSUME i # Len(ticks) PROVE FALSE
          OBVIOUS
        <5>2. i + 1 \in DOMAIN ticks
          BY <1>3, <5>1
        <5>3. ticks'[i + 1].age < 0 /\ ticks'[i + 1].age \in 0 .. Retain + 1
          BY <1>4, <1>5, <2>1, <3>1, <5>1, <5>2 DEF IsNewest, Tick
        <5> QED
          BY <5>3, SignalNumbers
      <4>2. IsNewest(ticks, i, 0)
        <5>1. ticks[i].age \in Nat
          BY <1>4
        <5>2. ticks[i].age >= 0
          BY <5>1
        <5> QED
          BY <4>1, <5>2 DEF IsNewest
      <4>3. believed[0] = ticks[i].price
        BY <3>1, <4>2 DEF BeliefsKept
      <4> QED
        BY <1>2, <1>4, <3>1, <4>3
    <3>2. CASE k # 0
      <4>1. k - 1 \in 0 .. Retain /\ k \in Int /\ k >= 1 /\ k <= Retain
        BY <3>2, SignalNumbers
      <4> DEFINE Aged(n) == ticks'[n].age >= k <=> ticks[n].age >= k - 1
      <4>2. ASSUME NEW n \in DOMAIN ticks PROVE Aged(n)
        <5> DEFINE a == ticks[n].age
                   b == ticks'[n].age
        <5>1. a \in Nat /\ b \in Nat /\ b = IF a > Retain THEN a ELSE a + 1
          BY <1>4
        <5>2. k \in 1 .. Retain
          BY <4>1
        <5> HIDE DEF a, b
        <5>3. b >= k <=> a >= k - 1
          BY <5>1, <5>2, OlderBy
        <5> QED
          BY <5>3 DEF a, b
      <4>3. ticks[i].age >= k - 1
        <5>1. ticks'[i].age >= k
          BY <2>1 DEF IsNewest
        <5> QED
          BY <4>2, <5>1
      <4>4. ASSUME i # Len(ticks) PROVE ticks[i + 1].age < k - 1
        <5>1. i + 1 \in DOMAIN ticks
          BY <1>3, <4>4
        <5>2. ticks'[i + 1].age < k
          BY <1>5, <2>1, <4>4 DEF IsNewest
        <5> DEFINE a == ticks[i + 1].age
                   b == ticks'[i + 1].age
        <5>3. a \in Nat /\ b \in Nat /\ (b >= k <=> a >= k - 1) /\ b < k
          BY <1>4, <4>2, <5>1, <5>2
        <5> HIDE DEF a, b
        <5>4. a < k - 1
          BY <4>1, <5>3
        <5> QED
          BY <5>4 DEF a
      <4>5. believed[k - 1] = ticks[i].price
        BY <4>1, <4>3, <4>4 DEF BeliefsKept, IsNewest
      <4> QED
        BY <1>2, <1>4, <3>2, <4>5
    <3> QED
      BY <3>1, <3>2
  <2> QED
    BY <1>5, <2>1 DEF BeliefsKept
<1>9. BeliefsBefore'
  <2>1. CASE ticks = <<>>
    <3>1. ticks' = <<>>
      BY <1>5, <2>1
    <3>2. \A k \in 0 .. Retain : believed[k] = NoPrice
      BY <2>1 DEF BeliefsBefore
    <3>3. ASSUME NEW k \in 0 .. Retain PROVE believed'[k] = NoPrice
      <4>1. 0 \in 0 .. Retain /\ (k # 0 => k - 1 \in 0 .. Retain)
        BY SignalNumbers
      <4> QED
        BY <1>2, <3>2, <4>1
    <3> QED
      BY <3>1, <3>3 DEF BeliefsBefore
  <2>2. CASE ticks # <<>>
    <3>1. ticks' # <<>> /\ 1 \in DOMAIN ticks
      BY <1>1, <1>5, <2>2
    <3>2. ASSUME NEW j \in ticks'[1].age + 1 .. Retain, NEW k \in ticks'[1].age + 1 .. Retain
          PROVE  believed'[j] = believed'[k]
      <4>1. /\ ticks[1].age \in Nat /\ ticks'[1].age \in Nat
            /\ ticks[1].age > Retain \/ ticks'[1].age = ticks[1].age + 1
            /\ ticks[1].age > Retain => ticks'[1].age > Retain
        BY <1>4, <3>1, SignalNumbers
      <4>2. /\ j - 1 \in ticks[1].age + 1 .. Retain /\ k - 1 \in ticks[1].age + 1 .. Retain
            /\ j \in 0 .. Retain /\ k \in 0 .. Retain /\ j # 0 /\ k # 0
        BY <4>1, SignalNumbers
      <4>3. believed[j - 1] = believed[k - 1]
        BY <2>2, <4>2 DEF BeliefsBefore
      <4> QED
        BY <1>2, <4>2, <4>3
    <3> QED
      BY <3>1, <3>2 DEF BeliefsBefore
  <2> QED
    BY <2>1, <2>2
<1> QED
  BY <1>6, <1>7, <1>8, <1>9

\* A tick that is accepted, and the front popped.
LEMMA FoldedIs ==
    ASSUME ticks \in Seq(Tick), NEW price \in Prices
    PROVE  LET all == Append(ticks, [age |-> 0, price |-> price])
               n == Len(ticks)
           IN  \E first \in 1 .. n + 1 :
                 /\ \A m \in 1 .. first - 1 : ticks[m].age > Retain
                 /\ Folded(price) \in Seq(Tick)
                 /\ Len(Folded(price)) = n + 2 - first
                 /\ \A i \in 1 .. n + 2 - first : Folded(price)[i] = all[first - 1 + i]
<1> DEFINE new == [age |-> 0, price |-> price]
           all == Append(ticks, new)
           n == Len(ticks)
           young == {k \in DOMAIN all : all[k].age <= Retain}
           first == Min(young)
<1>1. n \in Nat /\ new \in Tick
  BY SignalNumbers DEF Tick
<1>2. /\ all \in Seq(Tick) /\ Len(all) = n + 1 /\ DOMAIN all = 1 .. n + 1
      /\ all[n + 1] = new /\ \A m \in 1 .. n : all[m] = ticks[m]
  <2> HIDE DEF new
  <2> QED
    BY <1>1
<1>3. n + 1 \in young
  BY <1>1, <1>2, SignalNumbers
<1>4. young \in SUBSET Nat
  BY <1>1, <1>2
<1>5. \E k \in young : \A m \in young : k <= m
  <2> HIDE DEF young, n
  <2> QED
    BY <1>3, <1>4, Least
<1>6. first \in young /\ \A m \in young : first <= m
  <2> HIDE DEF young
  <2> QED
    BY <1>5, MinOf
<1>7. first \in 1 .. n + 1
  <2>1. young \subseteq 1 .. n + 1
    BY <1>2
  <2> HIDE DEF young, first, n
  <2> QED
    BY <1>6, <2>1
<1>8. ASSUME NEW m \in 1 .. first - 1 PROVE ticks[m].age > Retain
  <2>1. m \in 1 .. n /\ m < first
    <3> HIDE DEF first, n
    <3> QED
      BY <1>1, <1>7
  <2>2. m \in DOMAIN all /\ all[m] = ticks[m] /\ ticks[m] \in Tick
    BY <1>2, <2>1
  <2>3. m \notin young
    <3> HIDE DEF young, n
    <3>1. m \in young => first <= m
      BY <1>6
    <3>2. first \in Int /\ m \in Int
      BY <1>1, <1>7
    <3> QED
      BY <2>1, <3>1, <3>2
  <2>4. ~(ticks[m].age <= Retain)
    BY <2>2, <2>3
  <2>5. ticks[m].age \in Int
    BY <2>2, SignalNumbers DEF Tick
  <2> QED
    BY <2>4, <2>5, SignalNumbers
<1>9. Folded(price) = SubSeq(all, first, n + 1)
  BY <1>2 DEF Folded
<1> HIDE DEF new, young, first, n
<1>10. /\ Folded(price) \in Seq(Tick)
       /\ Len(Folded(price)) = n + 2 - first
       /\ \A i \in 1 .. n + 2 - first : Folded(price)[i] = all[first - 1 + i]
  <2> HIDE DEF all
  <2>1. first \in Int /\ 1 <= first /\ first <= n + 1
    BY <1>1, <1>7
  <2>2. /\ Len(Folded(price)) = n + 2 - first
        /\ \A i \in 1 .. n + 2 - first : Folded(price)[i] = all[first - 1 + i]
    BY <1>1, <1>2, <1>9, <2>1
  <2>3. ASSUME NEW i \in 1 .. n + 2 - first PROVE all[first - 1 + i] \in Tick
    <3>1. first - 1 + i \in 1 .. n + 1
      BY <1>1, <2>1
    <3> QED
      BY <1>2, <3>1
  <2>4. Folded(price) = [i \in 1 .. n + 2 - first |-> all[i + first - 1]]
    BY <1>1, <1>2, <1>9, <2>1
  <2>5. n + 2 - first \in Nat
    BY <1>1, <2>1
  <2>6. Folded(price) \in [1 .. n + 2 - first -> Tick]
    <3>1. \A i \in 1 .. n + 2 - first : Folded(price)[i] \in Tick
      BY <2>2, <2>3
    <3> QED
      BY <2>4, <3>1
  <2> QED
    BY <2>2, <2>5, <2>6
<1> QED
  BY <1>7, <1>8, <1>10 DEF n, new

LEMMA SpotTickStep ==
    ASSUME SInv, OnSpotTick
    PROVE  SInv'
<1> USE DEF SInv
<1>1. /\ ticks \in Seq(Tick) /\ believed \in [0 .. Retain -> Prices \cup {NoPrice}]
      /\ channel \in Seq(Prices) /\ channel # <<>> /\ Len(channel) <= Capacity
  BY DEF SignalTypeOK, Tick, OnSpotTick
<1>2. channel' = Tail(channel)
      /\ UNCHANGED <<worldVars, linked, reported, midVars, moves, faults>>
  BY DEF OnSpotTick
<1>3. channel' \in Seq(Prices) /\ Len(channel') <= Capacity
  BY <1>1, <1>2, SignalNumbers
<1>4. CASE UNCHANGED <<ticks, gateOn, believed>>
  <2>1. SignalTypeOK'
    BY <1>2, <1>3, <1>4 DEF SignalTypeOK, worldVars, midVars
  <2>2. TicksInOrder' /\ BeliefsKept' /\ BeliefsBefore'
    BY <1>4 DEF TicksInOrder, BeliefsKept, BeliefsBefore, IsNewest
  <2> QED
    BY <2>1, <2>2
<1>5. CASE /\ ticks' = Folded(Head(channel))
           /\ gateOn' = SpotGated(ticks')
           /\ believed' = [believed EXCEPT ![0] = Head(channel)]
  <2> DEFINE price == Head(channel)
             new == [age |-> 0, price |-> price]
             all == Append(ticks, new)
             n == Len(ticks)
  <2>1. price \in Prices /\ n \in Nat
    BY <1>1
  <2>2. PICK first \in 1 .. n + 1 :
          /\ \A m \in 1 .. first - 1 : ticks[m].age > Retain
          /\ ticks' \in Seq(Tick)
          /\ Len(ticks') = n + 2 - first
          /\ \A i \in 1 .. n + 2 - first : ticks'[i] = all[first - 1 + i]
    <3> HIDE DEF price
    <3> QED
      BY <1>1, <1>5, <2>1, FoldedIs DEF price
  <2>3. /\ all[n + 1] = new /\ \A m \in 1 .. n : all[m] = ticks[m] /\ ticks[m].age \in Nat
    <3> HIDE DEF new
    <3>1. all[n + 1] = new /\ \A m \in 1 .. n : all[m] = ticks[m]
      BY <1>1, <2>1
    <3>2. \A m \in 1 .. n : ticks[m] \in Tick
      BY <1>1
    <3> QED
      BY <3>1, <3>2, SignalNumbers DEF Tick
  <2>4. DOMAIN ticks = 1 .. n /\ DOMAIN ticks' = 1 .. n + 2 - first
    BY <1>1, <2>2
  <2>5. believed' \in [0 .. Retain -> Prices \cup {NoPrice}]
        /\ believed'[0] = price /\ \A k \in 1 .. Retain : believed'[k] = believed[k]
    <3> HIDE DEF price
    <3>1. believed' = [believed EXCEPT ![0] = price]
      BY <1>5 DEF price
    <3> QED
      BY <1>1, <2>1, <3>1, SignalNumbers
  <2> HIDE DEF price, n, all
  <2>6. ASSUME NEW i \in 1 .. n + 2 - first
        PROVE  /\ i = n + 2 - first => ticks'[i] = new
               /\ i # n + 2 - first => /\ first - 1 + i \in 1 .. n
                                       /\ ticks'[i] = ticks[first - 1 + i]
    <3>1. ticks'[i] = all[first - 1 + i]
      BY <2>2
    <3>2. CASE i = n + 2 - first
      <4>1. first - 1 + i = n + 1
        BY <2>1, <2>2, <3>2
      <4> QED
        BY <2>3, <3>1, <3>2, <4>1
    <3>3. CASE i # n + 2 - first
      <4>1. first - 1 + i \in 1 .. n
        BY <2>1, <2>2, <3>3
      <4> QED
        BY <2>3, <3>1, <3>3, <4>1
    <3> QED
      BY <3>2, <3>3
  <2>7. SignalTypeOK'
    <3>1. gateOn' \in BOOLEAN
      BY <1>5 DEF SpotGated
    <3> QED
      BY <1>2, <1>3, <2>2, <2>5, <3>1 DEF SignalTypeOK, worldVars, midVars, Tick
  <2>8. TicksInOrder'
    <3>1. ASSUME NEW i \in DOMAIN ticks', NEW j \in DOMAIN ticks', i <= j
          PROVE  ticks'[i].age >= ticks'[j].age
      <4>1. i \in 1 .. n + 2 - first /\ j \in 1 .. n + 2 - first
        BY <2>4
      <4>2. CASE j = n + 2 - first
        <5>1. ticks'[j].age = 0
          BY <2>6, <4>1, <4>2
        <5>2. ticks'[i].age \in Nat
          BY <2>3, <2>6, <4>1
        <5> QED
          BY <5>1, <5>2
      <4>3. CASE j # n + 2 - first
        <5>1. i # n + 2 - first
          BY <2>1, <2>2, <3>1, <4>1, <4>3
        <5>2. /\ first - 1 + i \in DOMAIN ticks /\ first - 1 + j \in DOMAIN ticks
              /\ ticks'[i] = ticks[first - 1 + i] /\ ticks'[j] = ticks[first - 1 + j]
          BY <2>4, <2>6, <4>1, <4>3, <5>1
        <5>3. first - 1 + i <= first - 1 + j
          BY <2>1, <2>2, <3>1, <4>1
        <5> QED
          BY <5>2, <5>3 DEF TicksInOrder
      <4> QED
        BY <4>2, <4>3
    <3> QED
      BY <3>1 DEF TicksInOrder
  <2>9. BeliefsKept'
    <3>1. ASSUME NEW k \in 0 .. Retain, NEW i \in 1 .. n + 2 - first, IsNewest(ticks', i, k)
          PROVE  believed'[k] = ticks'[i].price
      <4>1. ticks'[i].age >= k /\ (i # n + 2 - first => ticks'[i + 1].age < k)
        BY <2>2, <3>1 DEF IsNewest
      <4>2. CASE i = n + 2 - first
        <5>1. ticks'[i] = new
          BY <2>6, <4>2
        <5>2. k = 0
          BY <4>1, <5>1, SignalNumbers
        <5> QED
          BY <2>5, <5>1, <5>2
      <4>3. CASE i # n + 2 - first
        <5> DEFINE m == first - 1 + i
        <5>1. m \in 1 .. n /\ ticks'[i] = ticks[m]
          BY <2>6, <4>3
        <5>2. i + 1 \in 1 .. n + 2 - first /\ (m # n => i + 1 # n + 2 - first)
              /\ first - 1 + (i + 1) = m + 1
          BY <2>1, <2>2, <4>3
        <5> HIDE DEF m
        <5>3. ticks'[i + 1].age \in Nat /\ ticks'[i + 1].age < k
          BY <2>3, <2>6, <4>1, <4>3, <5>2
        <5>4. k # 0 /\ k \in 1 .. Retain
          BY <5>3, SignalNumbers
        <5>5. m # n => ticks[m + 1].age < k
          BY <2>6, <5>2, <5>3
        <5>6. IsNewest(ticks, m, k)
          BY <4>1, <5>1, <5>5 DEF IsNewest, n
        <5>7. believed[k] = ticks[m].price
          BY <2>4, <5>1, <5>6 DEF BeliefsKept
        <5> QED
          BY <2>5, <5>1, <5>4, <5>7
      <4> QED
        BY <4>2, <4>3
    <3> QED
      BY <2>4, <3>1 DEF BeliefsKept
  <2>10. BeliefsBefore'
    <3>1. 1 \in 1 .. n + 2 - first /\ ticks' # <<>>
      BY <2>1, <2>2
    <3>2. ASSUME NEW j \in ticks'[1].age + 1 .. Retain, NEW k \in ticks'[1].age + 1 .. Retain
          PROVE  believed[j] = believed[k]
      <4>1. ticks'[1].age \in Nat
        BY <2>3, <2>6, <3>1
      <4>2. j \in 1 .. Retain /\ k \in 1 .. Retain /\ j > ticks'[1].age /\ k > ticks'[1].age
        BY <3>2, <4>1, SignalNumbers
      <4>3. CASE first # 1
        <5> DEFINE m == first - 1
        <5>1. m \in 1 .. n /\ m + 1 = first /\ ticks[m].age > Retain
          BY <2>1, <2>2, <4>3
        <5> HIDE DEF m
        <5>2. m # n => ticks'[1] = ticks[m + 1]
          <6>1. m # n => 1 # n + 2 - first
            BY <2>1, <2>2, <5>1
          <6>2. first - 1 + 1 = m + 1
            BY <5>1
          <6> QED
            BY <2>6, <3>1, <6>1, <6>2
        <5>3. ASSUME NEW x \in 1 .. Retain, x > ticks'[1].age
              PROVE  believed[x] = ticks[m].price
          <6>1. ticks[m].age >= x
            BY <2>3, <5>1, SignalNumbers
          <6>2. m # n => ticks[m + 1].age < x
            BY <4>1, <5>2, <5>3
          <6>3. IsNewest(ticks, m, x)
            BY <6>1, <6>2 DEF IsNewest, n
          <6>4. x \in 0 .. Retain
            BY SignalNumbers
          <6> QED
            BY <2>4, <5>1, <6>3, <6>4 DEF BeliefsKept
        <5> QED
          BY <4>2, <5>3
      <4>4. CASE first = 1 /\ n # 0
        <5>1. ticks'[1] = ticks[1] /\ ticks # <<>>
          BY <2>1, <2>6, <3>1, <4>4 DEF n
        <5> QED
          BY <3>2, <5>1 DEF BeliefsBefore
      <4>5. CASE n = 0
        <5>1. ticks = <<>>
          BY <1>1, <4>5 DEF n
        <5>2. j \in 0 .. Retain /\ k \in 0 .. Retain
          BY <4>2, SignalNumbers
        <5> QED
          BY <5>1, <5>2 DEF BeliefsBefore
      <4> QED
        BY <4>3, <4>4, <4>5
    <3>3. ASSUME NEW j \in ticks'[1].age + 1 .. Retain
          PROVE  believed'[j] = believed[j]
      <4>1. ticks'[1].age \in Nat
        BY <2>3, <2>6, <3>1
      <4>2. j \in 1 .. Retain
        BY <4>1, SignalNumbers
      <4> QED
        BY <2>5, <4>2
    <3> QED
      BY <3>1, <3>2, <3>3 DEF BeliefsBefore
  <2> QED
    BY <2>7, <2>8, <2>9, <2>10
<1> QED
  BY <1>4, <1>5 DEF OnSpotTick

LEMMA SampledType ==
    ASSUME mid \in Mids, history \in Seq(Mids), Len(history) <= HistoryLen
    PROVE  Sampled \in Seq(Mids) /\ Len(Sampled) <= HistoryLen
<1>1. CASE history = <<>> \/ sampled >= MidWindow
  <2> DEFINE all == Append(history, mid)
  <2>1. all \in Seq(Mids) /\ Len(all) = Len(history) + 1 /\ Len(history) \in Nat
    OBVIOUS
  <2>2. Sampled = IF Len(all) > HistoryLen THEN Tail(all) ELSE all
    BY <1>1 DEF Sampled
  <2> HIDE DEF all
  <2>3. all # <<>>
    BY <2>1
  <2>4. Tail(all) \in Seq(Mids) /\ Len(Tail(all)) = Len(all) - 1
    BY <2>1, <2>3
  <2> QED
    BY <2>1, <2>2, <2>4, SignalNumbers
<1>2. CASE ~(history = <<>> \/ sampled >= MidWindow)
  <2>1. Sampled = [history EXCEPT ![Len(history)] = mid]
    BY <1>2 DEF Sampled
  <2> DEFINE n == Len(history)
  <2>2. n \in Nat /\ history \in [1 .. n -> Mids]
    OBVIOUS
  <2>3. Sampled \in [1 .. n -> Mids]
    <3> HIDE DEF n
    <3>1. Sampled = [history EXCEPT ![n] = mid]
      BY <2>1 DEF n
    <3> QED
      BY <2>2, <3>1
  <2>4. Sampled \in Seq(Mids) /\ Len(Sampled) = n
    <3> HIDE DEF n
    <3> QED
      BY <2>2, <2>3
  <2> QED
    BY <2>4
<1> QED
  BY <1>1, <1>2

LEMMA SignalsStep ==
    ASSUME SInv, [SignalNext]_signalVars
    PROVE  SInv'
<1> USE DEF SInv
<1>1. ASSUME UNCHANGED <<ticks, believed>>
      PROVE  TicksInOrder' /\ BeliefsKept' /\ BeliefsBefore'
  BY <1>1 DEF TicksInOrder, BeliefsKept, BeliefsBefore, IsNewest
<1>2. moves \in 0 .. MaxMoves /\ faults \in 0 .. MaxFaults
  BY DEF SignalTypeOK
<1>3. Move => moves' \in 0 .. MaxMoves
  BY <1>2, SignalNumbers DEF Move
<1>4. Fault => faults' \in 0 .. MaxFaults
  BY <1>2, SignalNumbers DEF Fault
<1>5. CASE SpotMoves
  BY <1>1, <1>3, <1>5 DEF SpotMoves, SignalTypeOK, feedVars, midVars
<1>6. CASE MidMoves
  BY <1>1, <1>3, <1>6 DEF MidMoves, SignalTypeOK, feedVars, midVars
<1>7. CASE FeedTick
  <2>1. PICK price \in Prices :
          /\ IF price = spot THEN UNCHANGED faults ELSE Fault
          /\ channel' = IF Len(channel) < Capacity THEN Append(channel, price) ELSE channel
    BY <1>7 DEF FeedTick
  <2>2. channel' \in Seq(Prices) /\ Len(channel') <= Capacity
    <3>1. channel \in Seq(Prices) /\ Len(channel) <= Capacity
      BY DEF SignalTypeOK
    <3> QED
      BY <2>1, <3>1, SignalNumbers
  <2>3. faults' \in 0 .. MaxFaults
    BY <1>2, <1>4, <2>1
  <2>4. UNCHANGED <<worldVars, linked, ticks, gateOn, midVars, moves, believed>>
        /\ reported' = TRUE
    BY <1>7 DEF FeedTick
  <2>5. SignalTypeOK'
    BY <2>2, <2>3, <2>4 DEF SignalTypeOK, worldVars, midVars
  <2> QED
    BY <1>1, <2>4, <2>5
<1>8. CASE Disconnect
  BY <1>1, <1>4, <1>8 DEF Disconnect, SignalTypeOK, worldVars, midVars
<1>9. CASE Reconnect
  BY <1>1, <1>9 DEF Reconnect, SignalTypeOK, worldVars, midVars
<1>10. CASE UpdateSpotGate
  BY <1>1, <1>10 DEF UpdateSpotGate, SpotGated, SignalTypeOK, worldVars, feedVars, midVars
<1>11. CASE OnBookUpdate
  <2>1. Sampled \in Seq(Mids) /\ Len(Sampled) <= HistoryLen
    BY SampledType DEF SignalTypeOK
  <2>2. sampled' \in 0 .. MidWindow + 1
    BY <1>11, SignalNumbers DEF OnBookUpdate, SignalTypeOK
  <2>3. SignalTypeOK'
    BY <1>11, <2>1, <2>2 DEF OnBookUpdate, SignalTypeOK, worldVars, feedVars
  <2> QED
    BY <1>1, <1>11, <2>3 DEF OnBookUpdate
<1>12. CASE UNCHANGED signalVars
  BY <1>1, <1>12 DEF signalVars, SignalTypeOK, worldVars, feedVars, midVars
<1> QED
  BY <1>5, <1>6, <1>7, <1>8, <1>9, <1>10, <1>11, <1>12, SignalTimeStep, SpotTickStep
  DEF SignalNext

\* For all windows, limits and prices: the channel and the mids keep to their
\* lengths and no tick is kept past its age (spot.rs:45-67, book.rs:245-263).
THEOREM SignalTypes == SignalSpec => []SignalTypeOK
<1>1. SInv => SignalTypeOK
  BY DEF SInv
<1> QED
  BY <1>1, SignalsInit, SignalsStep, PTL DEF SignalSpec

\* The base of a return is what the trader believed then.
LEMMA BaseIsBelief ==
    ASSUME SInv
    PROVE  BaseIsOldBelief
<1> USE DEF SInv
<1>1. ticks \in Seq(Tick) /\ DOMAIN ticks = 1 .. Len(ticks) /\ Len(ticks) \in Nat
  BY DEF SignalTypeOK, Tick
<1>2. \A i \in DOMAIN ticks : ticks[i].age \in Nat /\ ticks[i].price \in Prices
  <2>1. \A i \in DOMAIN ticks : ticks[i] \in Tick
    BY <1>1
  <2> QED
    BY <2>1, SignalNumbers DEF Tick
<1>3. ReturnWindow \in 0 .. Retain
  BY SignalNumbers
<1>4. CASE OldEnough(ticks) # {}
  <2> DEFINE old == OldEnough(ticks)
             i == Max(old)
  <2>1. old \in SUBSET (0 .. Len(ticks))
    BY <1>1 DEF OldEnough
  <2>2. \E k \in old : \A m \in old : k >= m
    <3>1. \E k \in old : \A m \in old : m <= k
      <4> HIDE DEF old
      <4> QED
        BY <1>1, <1>4, <2>1, Greatest DEF old
    <3>2. PICK k \in old : \A m \in old : m <= k
      BY <3>1
    <3>3. \A m \in old : k >= m
      BY <1>1, <2>1, <3>2
    <3> QED
      BY <3>3
  <2>3. i \in old /\ \A m \in old : i >= m
    <3> HIDE DEF old
    <3> QED
      BY <2>2, MaxOf
  <2>4. i \in DOMAIN ticks /\ ticks[i].age >= ReturnWindow
    BY <2>3 DEF OldEnough
  <2>5. ASSUME i # Len(ticks) PROVE ticks[i + 1].age < ReturnWindow
    <3> HIDE DEF i
    <3>1. i + 1 \in DOMAIN ticks /\ ~(i >= i + 1)
      BY <1>1, <2>4, <2>5
    <3>2. i + 1 \notin old
      BY <2>3, <3>1
    <3>3. ~(ticks[i + 1].age >= ReturnWindow)
      BY <3>1, <3>2 DEF OldEnough
    <3> QED
      BY <1>2, <3>1, <3>3, SignalNumbers
  <2>6. believed[ReturnWindow] = ticks[i].price
    BY <1>3, <2>4, <2>5 DEF BeliefsKept, IsNewest
  <2>7. Base(ticks) = ticks[i].price
    BY <1>4 DEF Base
  <2> HIDE DEF i
  <2>8. Base(ticks) # NoPrice
    BY <1>2, <2>4, <2>7, SignalNumbers
  <2> QED
    BY <2>6, <2>7, <2>8 DEF BaseIsOldBelief
<1>5. CASE OldEnough(ticks) = {}
  <2>1. Base(ticks) = NoPrice
    BY <1>5 DEF Base
  <2>2. ASSUME believed[ReturnWindow] # NoPrice
        PROVE  /\ ticks # <<>>
               /\ \A k \in ticks[1].age + 1 .. Retain : believed[k] = believed[ReturnWindow]
    <3>1. ticks # <<>>
      BY <1>3, <2>2 DEF BeliefsBefore
    <3>2. 1 \in DOMAIN ticks /\ 1 \notin OldEnough(ticks)
      BY <1>1, <1>5, <3>1
    <3>3. ticks[1].age < ReturnWindow
      BY <1>2, <3>2, SignalNumbers DEF OldEnough
    <3>4. ReturnWindow \in ticks[1].age + 1 .. Retain
      BY <1>2, <3>2, <3>3, SignalNumbers
    <3> QED
      BY <3>1, <3>4 DEF BeliefsBefore
  <2> QED
    BY <2>1, <2>2 DEF BaseIsOldBelief
<1> QED
  BY <1>4, <1>5

\* For all windows with the retention longer than the return's: over gaps,
\* bursts, rejected prints and pruning, a return compares with the price that
\* was believed one window ago (spot.rs:45-84).
THEOREM ReturnsCompareBeliefs == SignalSpec => []BaseIsOldBelief
  BY BaseIsBelief, SignalsInit, SignalsStep, PTL DEF SignalSpec
===============================================================================
