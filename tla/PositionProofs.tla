---------------------------- MODULE PositionProofs ----------------------------
(***************************************************************************)
(* The position keeper's kill switch, proved for every set of tickers and  *)
(* categories, every limit and every number of fills, restarts and syncs.  *)
(***************************************************************************)
EXTENDS PositionKeeping, SequenceTheorems, TLAPS

USE CategoryAssumption, LimitAssumption, ChecksAssumption, FillAssumption

\* A ticker's state is kept under its own series or under no category at all.
CategoryInv == \A t \in Tickers : category[t] \in {CategoryOf[t], NoCategory, Absent}

\* A position not flagged as carried is what this process's fills add up to, and
\* a position of a ticker without a fill is flagged.
BuiltInv ==
    \A t \in Tickers :
        /\ ~carried[t] => built[t] = position[t]
        /\ position[t] # 0 /\ ~everFilled[t] => carried[t]

\* SwitchNeverLate is not inductive alone: a close of ticker t counts under the
\* category in t's state while the halt is enforced on t's series.
IInv == TypeOK /\ CategoryInv /\ BuiltInv /\ SwitchNeverLate

-------------------------------------------------------------------------------
\* A sequence over the ids of a log stays one when the log grows.
LEMMA InboxGrows ==
    ASSUME NEW m \in Nat, NEW n \in Nat, m <= n, NEW s \in Seq(1 .. m)
    PROVE  s \in Seq(1 .. n)
<1>1. s \in [1 .. Len(s) -> 1 .. m] /\ Len(s) \in Nat
  OBVIOUS
<1>2. s \in [1 .. Len(s) -> 1 .. n]
  BY <1>1
<1> QED
  BY <1>1, <1>2

\* book_realized_close keeps every streak a natural number.
LEMMA StreakType ==
    ASSUME losses \in [AllCategories -> Nat], NEW c \in AllCategories,
           NEW r \in Int, NEW e \in BOOLEAN
    PROVE  StreakAfterClose(c, r, e) \in [AllCategories -> Nat]
  BY DEF StreakAfterClose

\* A fill leaves a TickerState with a category that is a key of the streaks.
LEMMA BookedCategory ==
    ASSUME TypeOK, CategoryInv, NEW t \in Tickers
    PROVE  (IF category[t] = Absent THEN CategoryOf[t] ELSE category[t])
              \in {CategoryOf[t], NoCategory} \cap AllCategories
  BY DEF TypeOK, CategoryInv, AllCategories

\* What the head of a non-empty inbox is.
LEMMA HeadOfInbox ==
    ASSUME TypeOK, stage = "fills"
    PROVE  /\ Head(inbox) \in 1 .. Len(fillLog)
           /\ Tail(inbox) \in Seq(1 .. Len(fillLog))
           /\ fillLog[Head(inbox)].ticker \in Tickers
           /\ fillLog[Head(inbox)].delta \in Int
<1>1. inbox \in Seq(1 .. Len(fillLog)) /\ inbox # <<>>
  BY DEF TypeOK
<1>2. fillLog \in Seq([ticker : Tickers, delta : Int])
  BY DEF TypeOK
<1>3. Head(inbox) \in 1 .. Len(fillLog) /\ Tail(inbox) \in Seq(1 .. Len(fillLog))
  BY <1>1
<1>4. fillLog[Head(inbox)] \in [ticker : Tickers, delta : Int]
  BY <1>2, <1>3, ElementOfSeq
<1> QED
  BY <1>3, <1>4

-------------------------------------------------------------------------------
\* Type correctness, action by action.

\* The initial states are typed.
LEMMA TypeInit == Init => TypeOK
  BY DEF Init, TypeOK, NoTicker, CategoriesWith, AllCategories, Records

\* A fill only lengthens the log: ids already fetched or seen stay ids.
LEMMA TypeExchangeFill ==
    ASSUME TypeOK, NEW t \in Tickers, NEW d \in FillDeltas[t], ExchangeFill(t, d)
    PROVE  TypeOK'
<1> USE DEF TypeOK, ExchangeFill
<1> DEFINE R == [ticker : Tickers, delta : Int]
           f == [ticker |-> t, delta |-> d]
<1>1. f \in R /\ d \in Int
  OBVIOUS
<1>2. fillLog \in Seq(R) /\ fillLog' = Append(fillLog, f)
  OBVIOUS
<1> HIDE DEF R, f
<1>3. fillLog' \in Seq(R) /\ Len(fillLog') = Len(fillLog) + 1 /\ Len(fillLog) \in Nat
  BY <1>1, <1>2
<1>4. inbox' \in Seq(1 .. Len(fillLog'))
  BY <1>3, InboxGrows
<1>5. traded' \in [Tickers -> Int]
  BY <1>1
<1>6. seen' = seen /\ horizon' = horizon
  BY DEF accountVars
<1>7. seen' \subseteq 1 .. Len(fillLog') /\ horizon' \in 0 .. Len(fillLog')
  BY <1>3, <1>6
<1> QED
  BY <1>3, <1>4, <1>5, <1>7 DEF R, accountVars, holdingVars

\* One booking keeps the holdings typed, and the streak it moves belongs to the
\* category the ticker's state ends with.
LEMMA ApplyFillType ==
    ASSUME TypeOK, NEW t \in Tickers, NEW d \in Int, NEW r \in Int, ApplyFill(t, d, r)
    PROVE  /\ position' \in [Tickers -> Int] /\ hasEntry' \in [Tickers -> BOOLEAN]
           /\ carried' \in [Tickers -> BOOLEAN] /\ everFilled' \in [Tickers -> BOOLEAN]
           /\ recentFill' \in [Tickers -> BOOLEAN] /\ built' \in [Tickers -> Int]
           /\ category' \in [Tickers -> AllCategories \cup {Absent}]
           /\ category'[t] \in AllCategories
           /\ losses' = StreakAfterClose(category'[t], r, carried[t])
           /\ losses' \in [AllCategories -> Nat]
           /\ halted' = HaltsAfter({CategoryOf[t]}, losses')
           /\ halted' \subseteq Categories
<1> DEFINE new == position[t] + d
           cat == IF category[t] = Absent THEN CategoryOf[t] ELSE category[t]
           entry == EntryAfterFill(position[t], new, hasEntry[t])
           keeps == carried[t] /\ new # 0 /\ ~Crosses(position[t], new)
           own == IF new = 0 \/ Crosses(position[t], new) THEN new ELSE built[t] + d
<1>1. /\ position' = [position EXCEPT ![t] = new]
      /\ hasEntry' = [hasEntry EXCEPT ![t] = entry]
      /\ carried' = [carried EXCEPT ![t] = keeps]
      /\ everFilled' = [everFilled EXCEPT ![t] = TRUE]
      /\ recentFill' = [recentFill EXCEPT ![t] = TRUE]
      /\ category' = [category EXCEPT ![t] = cat]
      /\ losses' = StreakAfterClose(cat, r, carried[t])
      /\ halted' = HaltsAfter({CategoryOf[t]}, losses')
      /\ built' = [built EXCEPT ![t] = own]
  BY Zenon DEF ApplyFill
<1>2. /\ new \in Int /\ cat \in AllCategories /\ entry \in BOOLEAN
      /\ keeps \in BOOLEAN /\ own \in Int
  BY DEF TypeOK, AllCategories, EntryAfterFill
<1> HIDE DEF new, cat, entry, keeps, own
<1>3. category' \in [Tickers -> AllCategories \cup {Absent}] /\ category'[t] = cat
  BY <1>1, <1>2 DEF TypeOK
<1>4. carried[t] \in BOOLEAN
  BY DEF TypeOK
<1>5. losses' \in [AllCategories -> Nat]
  BY <1>1, <1>2, <1>4, StreakType DEF TypeOK
<1>6. halted' \subseteq Categories
  BY <1>1 DEF TypeOK, HaltsAfter
<1> QED
  BY <1>1, <1>2, <1>3, <1>5, <1>6 DEF TypeOK

\* Processing the head of the inbox, seen or new.
LEMMA TypeProcessFill ==
    ASSUME TypeOK, ProcessFill
    PROVE  TypeOK'
<1> DEFINE id == Head(inbox)
           t == fillLog[id].ticker
           d == fillLog[id].delta
<1>1. /\ id \in 1 .. Len(fillLog) /\ inbox' \in Seq(1 .. Len(fillLog))
      /\ t \in Tickers /\ d \in Int
  BY HeadOfInbox DEF ProcessFill
<1>2. /\ stage' \in {"idle", "fills"} /\ (stage' = "fills") = (inbox' # <<>>)
      /\ UNCHANGED <<exchangeVars, vanished, checks, active, horizon, settledPnl, boots>>
  BY DEF ProcessFill
<1>3. CASE UNCHANGED <<accountVars, holdingVars, category>>
  BY <1>1, <1>2, <1>3 DEF TypeOK, accountVars, holdingVars, exchangeVars
<1>4. ASSUME seen' = seen \cup {id}, NEW r \in Outcomes(t, d), ApplyFill(t, d, r)
      PROVE  TypeOK'
  <2> HIDE DEF id, t, d
  <2>1. r \in Int
    BY <1>4 DEF Outcomes
  <2> QED
    BY <1>1, <1>2, <1>4, <2>1, ApplyFillType DEF TypeOK, exchangeVars
<1> QED
  BY <1>3, <1>4 DEF ProcessFill

\* The three steps of the position sync.
LEMMA TypeSync ==
    ASSUME TypeOK, SyncPositions \/ ResolveVanished \/ BackfillEntries
    PROVE  TypeOK'
<1>1. CASE SyncPositions
  <2>1. position' \in [Tickers -> Int] /\ carried' \in [Tickers -> BOOLEAN]
    BY <1>1 DEF SyncPositions, TypeOK, Remote
  <2>2. category' \in [Tickers -> AllCategories \cup {Absent}]
    BY <1>1 DEF SyncPositions, TypeOK, AllCategories
  <2>3. built' \in [Tickers -> Int]
    BY <1>1 DEF SyncPositions, BuiltAfterSync, TypeOK, Remote
  <2> QED
    BY <1>1, <2>1, <2>2, <2>3 DEF SyncPositions, TypeOK, exchangeVars, accountVars
<1>2. CASE ResolveVanished
  <2>1. position' \in [Tickers -> Int] /\ carried' \in [Tickers -> BOOLEAN]
        /\ hasEntry' \in [Tickers -> BOOLEAN] /\ built' \in [Tickers -> Int]
    BY <1>2 DEF ResolveVanished, TypeOK
  <2>2. checks' \in [Tickers -> 0 .. MaxChecks - 1]
    BY <1>2 DEF ResolveVanished, TypeOK, GivenUp, Misses
  <2>3. losses' = losses /\ halted' \subseteq Categories /\ settledPnl' \subseteq Tickers
    BY <1>2 DEF ResolveVanished, TypeOK, HaltsAfter, StreaksAfterSettlements
  <2> QED
    BY <1>2, <2>1, <2>2, <2>3 DEF ResolveVanished, TypeOK, exchangeVars
<1>3. CASE BackfillEntries
  <2>1. hasEntry' \in [Tickers -> BOOLEAN]
    BY <1>3 DEF BackfillEntries, TypeOK
  <2> QED
    BY <1>3, <2>1 DEF BackfillEntries, TypeOK, exchangeVars, accountVars
<1> QED
  BY <1>1, <1>2, <1>3

\* Every step keeps every variable typed.
LEMMA TypeStep ==
    ASSUME TypeOK, [Next]_vars
    PROVE  TypeOK'
<1>1. CASE UNCHANGED vars
  BY <1>1 DEF TypeOK, vars, exchangeVars, accountVars, holdingVars
<1>2. ASSUME NEW t \in Tickers, NEW d \in FillDeltas[t], ExchangeFill(t, d)
      PROVE  TypeOK'
  BY <1>2, TypeExchangeFill
<1>3. ASSUME NEW t \in Tickers, ExchangeSettles(t) \/ SettlementRecorded(t)
      PROVE  TypeOK'
  <2>1. PICK from, to \in {"open", "closed"} \cup Records : MarketMoves(t, from, to)
    BY <1>3 DEF ExchangeSettles, SettlementRecorded, Records
  <2>2. market' \in [Tickers -> {"open", "closed"} \cup Records]
    BY <2>1 DEF MarketMoves, TypeOK
  <2> QED
    BY <2>1, <2>2 DEF MarketMoves, TypeOK, accountVars, holdingVars
<1>4. ASSUME NEW t \in Tickers, TimePasses(t)
      PROVE  TypeOK'
  BY <1>4 DEF TimePasses, TypeOK, exchangeVars, accountVars
<1>5. ASSUME NEW n \in 1 .. MaxFills, FetchFills(n)
      PROVE  TypeOK'
  <2>1. n \in 1 .. Len(fillLog) - horizon /\ horizon \in 0 .. Len(fillLog) /\ Len(fillLog) \in Nat
    BY <1>5 DEF FetchFills, TypeOK
  <2>2. inbox' \in [1 .. n -> 1 .. Len(fillLog)]
    BY <1>5, <2>1 DEF FetchFills
  <2>3. inbox' \in Seq(1 .. Len(fillLog)) /\ inbox' # <<>>
    BY <2>1, <2>2
  <2>4. /\ stage' = "fills"
        /\ UNCHANGED <<exchangeVars, accountVars, holdingVars, vanished, category,
                       checks, active, horizon, settledPnl, boots>>
    BY <1>5 DEF FetchFills
  <2>5. inbox' \in Seq(1 .. Len(fillLog'))
    BY <2>3, <2>4 DEF exchangeVars
  <2> QED
    BY <2>3, <2>4, <2>5 DEF TypeOK, exchangeVars, accountVars, holdingVars
<1>6. CASE ProcessFill
  BY <1>6, TypeProcessFill
<1>7. CASE SyncPositions \/ ResolveVanished \/ BackfillEntries
  BY <1>7, TypeSync
<1>8. CASE SyncUnavailable \/ SettlementsUnavailable
  BY <1>8 DEF SyncUnavailable, SettlementsUnavailable, TypeOK, exchangeVars,
     accountVars, holdingVars
<1>9. ASSUME NEW discovered \in SUBSET OpenTickers, RefreshMarkets(discovered)
      PROVE  TypeOK'
  <2>1. category' \in [Tickers -> AllCategories \cup {Absent}]
    BY <1>9 DEF RefreshMarkets, CategoriesWith, TypeOK, AllCategories
  <2>2. active' \subseteq Tickers
    BY <1>9 DEF RefreshMarkets, OpenTickers, TypeOK
  <2> QED
    BY <1>9, <2>1, <2>2 DEF RefreshMarkets, TypeOK, exchangeVars, accountVars, holdingVars
<1>10. CASE ResetDaily
  BY <1>10 DEF ResetDaily, TypeOK, exchangeVars, holdingVars
<1>11. ASSUME NEW discovered \in SUBSET OpenTickers, NEW h \in horizon .. Len(fillLog),
              Restart(discovered, h)
       PROVE  TypeOK'
  <2>1. category' \in [Tickers -> AllCategories \cup {Absent}]
    BY <1>11 DEF Restart, CategoriesWith, NoTicker, AllCategories
  <2>2. active' \subseteq Tickers /\ h \in 0 .. Len(fillLog)
    BY <1>11 DEF Restart, OpenTickers, TypeOK
  <2>3. inbox' = <<>> /\ stage' = "boot" /\ UNCHANGED exchangeVars
    BY <1>11 DEF Restart
  <2>4. inbox' \in Seq(1 .. Len(fillLog'))
    BY <2>3
  <2>5. losses' \in [AllCategories -> Nat] /\ checks' \in [Tickers -> 0 .. MaxChecks - 1]
    BY <1>11 DEF Restart, NoTicker
  <2>6. /\ position' \in [Tickers -> Int] /\ hasEntry' \in [Tickers -> BOOLEAN]
        /\ carried' \in [Tickers -> BOOLEAN] /\ everFilled' \in [Tickers -> BOOLEAN]
        /\ recentFill' \in [Tickers -> BOOLEAN] /\ built' \in [Tickers -> Int]
    BY <1>11 DEF Restart, NoTicker
  <2>7. /\ vanished' = {} /\ seen' = {} /\ halted' = {} /\ settledPnl' = {}
        /\ horizon' = h /\ boots' \in Nat
    BY <1>11 DEF Restart, TypeOK
  <2> QED
    BY <2>1, <2>2, <2>3, <2>4, <2>5, <2>6, <2>7 DEF TypeOK, exchangeVars
<1> QED
  BY <1>1, <1>2, <1>3, <1>4, <1>5, <1>6, <1>7, <1>8, <1>9, <1>10, <1>11
     DEF Next, Exchange, Trader, Crash

\* Type correctness, for every instance.
THEOREM TypeCorrect == Spec => []TypeOK
<1>1. Init => TypeOK
  BY TypeInit
<1>2. TypeOK /\ [Next]_vars => TypeOK'
  BY TypeStep
<1> QED
  BY <1>1, <1>2, PTL DEF Spec

-------------------------------------------------------------------------------
\* The kill switch.

\* What one booking does to the streaks and halts of the series: at most the
\* series of the fill's ticker moves, it trips exactly when its streak reaches
\* the limit, and only a loss on own inventory makes a streak grow.
LEMMA BookingAndSwitch ==
    ASSUME TypeOK, CategoryInv, NEW t \in Tickers, NEW d \in Int,
           NEW r \in Outcomes(t, d), ApplyFill(t, d, r)
    PROVE  LET s == CategoryOf[t]
               counts == category'[t] = s /\ r # 0 /\ ~carried[t]
           IN  /\ \A c \in Categories \ {s} : losses'[c] = losses[c]
               /\ losses'[s] = IF ~counts THEN losses[s]
                               ELSE IF r > 0 THEN 0 ELSE losses[s] + 1
               /\ halted' = IF HaltLimit > 0 /\ losses'[s] >= HaltLimit
                              THEN halted \cup {s} ELSE halted
               /\ category' = [category EXCEPT ![t] = category'[t]]
               /\ category'[t] \in {s, NoCategory}
<1> DEFINE s == CategoryOf[t]
           cat == IF category[t] = Absent THEN s ELSE category[t]
<1>1. r \in {-1, 0, 1} /\ s \in Categories
  BY DEF Outcomes
<1>2. /\ losses' = StreakAfterClose(category'[t], r, carried[t])
      /\ halted' = HaltsAfter({s}, losses')
      /\ losses' \in [AllCategories -> Nat]
  BY <1>1, ApplyFillType
<1>3. category' = [category EXCEPT ![t] = cat] /\ category'[t] = cat
  BY DEF ApplyFill, TypeOK
<1>4. cat \in {s, NoCategory} /\ cat \in AllCategories
  BY DEF CategoryInv, AllCategories
<1>5. losses \in [AllCategories -> Nat] /\ carried[t] \in BOOLEAN
  BY DEF TypeOK
<1> HIDE DEF s, cat
<1>6. \A c \in Categories \ {s} : losses'[c] = losses[c]
  BY <1>1, <1>2, <1>3, <1>4, <1>5 DEF StreakAfterClose, AllCategories
<1>7. losses'[s] = IF ~(cat = s /\ r # 0 /\ ~carried[t]) THEN losses[s]
                   ELSE IF r > 0 THEN 0 ELSE losses[s] + 1
  BY <1>1, <1>2, <1>3, <1>4, <1>5 DEF StreakAfterClose, AllCategories
<1>8. halted' = IF HaltLimit > 0 /\ losses'[s] >= HaltLimit
                  THEN halted \cup {s} ELSE halted
  BY <1>2 DEF HaltsAfter
<1> QED
  BY <1>3, <1>4, <1>6, <1>7, <1>8 DEF s

\* A batch of settlements, whatever its size and outcomes, moves no streak and
\* halts no category.
LEMMA SettlementsTripNothing ==
    ASSUME TypeOK, SwitchNeverLate, ResolveVanished
    PROVE  losses' = losses /\ halted' = halted /\ category' = category
<1>1. PICK booked \in SUBSET Tickers :
          losses' = losses /\ halted' = HaltsAfter({CategoryOf[t] : t \in booked}, losses')
  BY DEF ResolveVanished, StreaksAfterSettlements, TypeOK
<1>2. \A t \in booked : CategoryOf[t] \in Categories
  BY <1>1
<1>3. \A c \in Categories \ halted : HaltLimit > 0 => ~(losses[c] >= HaltLimit)
  BY DEF SwitchNeverLate, TypeOK, AllCategories
<1>4. halted' = halted
  BY <1>1, <1>2, <1>3 DEF HaltsAfter
<1> QED
  BY <1>1, <1>4 DEF ResolveVanished

\* Everything but a new fill, a reset and a restart leaves streaks and halts.
QuietStep ==
    \/ UNCHANGED vars
    \/ Exchange
    \/ \E n \in 1 .. MaxFills : FetchFills(n)
    \/ SyncPositions \/ SyncUnavailable
    \/ SettlementsUnavailable \/ BackfillEntries
    \/ \E discovered \in SUBSET OpenTickers : RefreshMarkets(discovered)

\* Which of the steps touch the switch at all.
LEMMA QuietSteps ==
    ASSUME QuietStep
    PROVE  losses' = losses /\ halted' = halted
  BY DEF QuietStep, vars, accountVars, Exchange, ExchangeFill, ExchangeSettles,
     SettlementRecorded, MarketMoves, TimePasses, FetchFills, SyncPositions,
     SyncUnavailable, SettlementsUnavailable, BackfillEntries, RefreshMarkets

\* A step is quiet, or it books, settles, resets or restarts.
LEMMA StepKinds ==
    ASSUME TypeOK, [Next]_vars
    PROVE  \/ QuietStep
           \/ ProcessFill /\ UNCHANGED <<accountVars, holdingVars, category>>
           \/ \E t \in Tickers, d \in Int : \E r \in Outcomes(t, d) :
                  ApplyFill(t, d, r) /\ seen' # seen
           \/ ResolveVanished
           \/ ResetDaily
           \/ \E discovered \in SUBSET OpenTickers, h \in horizon .. Len(fillLog) :
                  Restart(discovered, h)
<1>1. CASE ProcessFill
  <2> DEFINE id == Head(inbox)
             t == fillLog[id].ticker
             d == fillLog[id].delta
  <2>1. stage = "fills"
    BY <1>1 DEF ProcessFill
  <2>2. t \in Tickers /\ d \in Int
    BY <2>1, HeadOfInbox
  <2>3. \/ UNCHANGED <<accountVars, holdingVars, category>>
        \/ /\ id \notin seen /\ seen' = seen \cup {id}
           /\ \E r \in Outcomes(t, d) : ApplyFill(t, d, r)
    BY <1>1 DEF ProcessFill, SeenFill
  <2> HIDE DEF id, t, d
  <2> QED
    BY <1>1, <2>2, <2>3
<1> QED
  BY <1>1 DEF Next, Trader, Crash, QuietStep

\* CategoryInv is kept: states are created under the series or under "".
LEMMA CategoryStep ==
    ASSUME TypeOK, CategoryInv, [Next]_vars
    PROVE  CategoryInv'
<1>1. ASSUME NEW t \in Tickers, NEW d \in Int, NEW r \in Outcomes(t, d),
             ApplyFill(t, d, r)
      PROVE  CategoryInv'
  BY <1>1, BookingAndSwitch DEF CategoryInv, TypeOK
<1>2. CASE QuietStep
  BY <1>2 DEF CategoryInv, QuietStep, vars, Exchange, ExchangeFill, ExchangeSettles,
     SettlementRecorded, MarketMoves, TimePasses, FetchFills, SyncPositions,
     SyncUnavailable, SettlementsUnavailable, BackfillEntries, RefreshMarkets,
     CategoriesWith
<1>3. CASE ProcessFill /\ UNCHANGED <<accountVars, holdingVars, category>>
  BY <1>3 DEF CategoryInv
<1>4. CASE ResolveVanished \/ ResetDaily
  BY <1>4 DEF CategoryInv, ResolveVanished, ResetDaily
<1>5. ASSUME NEW discovered \in SUBSET OpenTickers, NEW h \in horizon .. Len(fillLog),
             Restart(discovered, h)
      PROVE  CategoryInv'
  BY <1>5 DEF CategoryInv, Restart, CategoriesWith, NoTicker
<1> QED
  BY <1>1, <1>2, <1>3, <1>4, <1>5, StepKinds

\* SwitchNeverLate is kept by every step.
LEMMA NeverLateStep ==
    ASSUME IInv, [Next]_vars
    PROVE  SwitchNeverLate'
<1> USE DEF IInv
<1>1. ASSUME NEW t \in Tickers, NEW d \in Int, NEW r \in Outcomes(t, d),
             ApplyFill(t, d, r)
      PROVE  SwitchNeverLate'
  <2>1. CategoryOf[t] \in Categories /\ r \in Int
    BY DEF Outcomes
  <2>2. losses \in [AllCategories -> Nat] /\ losses' \in [AllCategories -> Nat]
    BY <1>1, <2>1, ApplyFillType DEF TypeOK
  <2> QED
    BY <1>1, <2>1, <2>2, BookingAndSwitch DEF SwitchNeverLate, AllCategories
<1>2. CASE QuietStep
  BY <1>2, QuietSteps DEF SwitchNeverLate
<1>3. CASE ProcessFill /\ UNCHANGED <<accountVars, holdingVars, category>>
  BY <1>3 DEF SwitchNeverLate, accountVars
<1>4. CASE ResolveVanished
  BY <1>4, SettlementsTripNothing DEF SwitchNeverLate
<1>5. CASE ResetDaily
  BY <1>5 DEF SwitchNeverLate, ResetDaily, AllCategories
<1>6. ASSUME NEW discovered \in SUBSET OpenTickers, NEW h \in horizon .. Len(fillLog),
             Restart(discovered, h)
      PROVE  SwitchNeverLate'
  BY <1>6 DEF SwitchNeverLate, Restart, AllCategories
<1> QED
  BY <1>1, <1>2, <1>3, <1>4, <1>5, <1>6, StepKinds

\* The flag follows the history: a fill ends the carried era of a position by
\* flattening or flipping it, a sync starts one only for an untraded ticker.
LEMMA BuiltStep ==
    ASSUME IInv, [Next]_vars
    PROVE  BuiltInv'
<1> USE DEF IInv
<1>1. ASSUME NEW t \in Tickers, NEW d \in Int, NEW r \in Outcomes(t, d),
             ApplyFill(t, d, r)
      PROVE  BuiltInv'
  <2> DEFINE new == position[t] + d
             own == IF new = 0 \/ Crosses(position[t], new) THEN new ELSE built[t] + d
  <2>1. /\ position' = [position EXCEPT ![t] = new]
        /\ carried' = [carried EXCEPT ![t] = @ /\ new # 0 /\ ~Crosses(position[t], new)]
        /\ everFilled' = [everFilled EXCEPT ![t] = TRUE]
        /\ built' = [built EXCEPT ![t] = own]
    BY <1>1, Zenon DEF ApplyFill
  <2>2. /\ position'[t] = new /\ built'[t] = own /\ everFilled'[t]
        /\ carried'[t] = (carried[t] /\ new # 0 /\ ~Crosses(position[t], new))
    BY <2>1 DEF TypeOK
  <2>3. \A s \in Tickers \ {t} : /\ position'[s] = position[s] /\ built'[s] = built[s]
                               /\ everFilled'[s] = everFilled[s] /\ carried'[s] = carried[s]
    BY <2>1 DEF TypeOK
  <2>4. ~carried[t] => built[t] = position[t]
    BY DEF BuiltInv
  <2>5. ~carried'[t] => own = new
    BY <2>2, <2>4
  <2> QED
    BY <2>2, <2>3, <2>5 DEF BuiltInv
<1>2. CASE SyncPositions
  <2> SUFFICES ASSUME NEW t \in Tickers
               PROVE  /\ ~carried'[t] => built'[t] = position'[t]
                      /\ position'[t] # 0 /\ ~everFilled'[t] => carried'[t]
    BY DEF BuiltInv
  <2>1. /\ position'[t] = IF Corrected(t) THEN Remote(t) ELSE position[t]
        /\ carried'[t] = (carried[t] \/ (Corrected(t) /\ Inherited(t)))
        /\ built'[t] = IF Corrected(t) /\ everFilled[t] THEN Remote(t) ELSE built[t]
        /\ everFilled' = everFilled
    BY <1>2 DEF SyncPositions, BuiltAfterSync
  <2>2. Corrected(t) => position[t] # Remote(t)
    BY DEF Corrected, Drifted
  <2>3. /\ ~carried[t] => built[t] = position[t]
        /\ position[t] # 0 /\ ~everFilled[t] => carried[t]
    BY DEF BuiltInv
  <2>4. Corrected(t) /\ ~everFilled[t] => carried'[t]
    BY <2>1, <2>2, <2>3 DEF Inherited
  <2> QED
    BY <2>1, <2>3, <2>4
<1>3. CASE ResolveVanished
  BY <1>3 DEF ResolveVanished, BuiltInv, TypeOK
<1>4. CASE QuietStep /\ ~SyncPositions
  BY <1>4 DEF BuiltInv, QuietStep, vars, holdingVars, Exchange, ExchangeFill,
     ExchangeSettles, SettlementRecorded, MarketMoves, TimePasses, FetchFills,
     SyncUnavailable, SettlementsUnavailable, BackfillEntries, RefreshMarkets
<1>5. CASE (ProcessFill /\ UNCHANGED <<accountVars, holdingVars, category>>) \/ ResetDaily
  BY <1>5 DEF BuiltInv, ResetDaily, holdingVars
<1>6. ASSUME NEW discovered \in SUBSET OpenTickers, NEW h \in horizon .. Len(fillLog),
             Restart(discovered, h)
      PROVE  BuiltInv'
  BY <1>6 DEF BuiltInv, Restart, NoTicker
<1> QED
  BY <1>1, <1>2, <1>3, <1>4, <1>5, <1>6, StepKinds

\* The inductive invariant.
THEOREM SwitchInvariant == Spec => []IInv
<1>1. Init => IInv
  <2>1. Init => CategoryInv
    BY DEF Init, CategoryInv, CategoriesWith, NoTicker
  <2>2. Init => SwitchNeverLate
    BY DEF Init, SwitchNeverLate, AllCategories
  <2>3. Init => BuiltInv
    BY DEF Init, BuiltInv, NoTicker
  <2> QED
    BY <2>1, <2>2, <2>3, TypeInit DEF IInv
<1>2. IInv /\ [Next]_vars => IInv'
  BY TypeStep, CategoryStep, BuiltStep, NeverLateStep DEF IInv
<1> QED
  BY <1>1, <1>2, PTL DEF Spec

\* enforce_category_halt is called often enough: no streak ever stands at the
\* limit with its category still quoting.
THEOREM NeverLate == Spec => []SwitchNeverLate
<1>1. IInv => SwitchNeverLate
  BY DEF IInv
<1> QED
  BY <1>1, SwitchInvariant, PTL

\* A streak grows, and a category trips, only in a step that books a fill closing
\* a position all of which the fills this process booked (or corrections of a
\* ticker they had traded) account for.
THEOREM TripsOnlyOnOwnCloses == Spec => OnlyOwnClosesTrip
<1> DEFINE Lost == {c \in Categories : losses'[c] > losses[c]}
           Counted(c) == \E t \in Tickers : OwnClose(t) /\ category'[t] = c
           Trips == /\ halted' \ halted \subseteq Lost
                    /\ \A c \in AllCategories : losses'[c] > losses[c] => Counted(c)
<1>1. ASSUME IInv, [Next]_vars
      PROVE  [Trips]_vars
  <2> USE <1>1 DEF IInv
  <2>a. losses \in [AllCategories -> Nat]
    BY DEF TypeOK
  <2>b. \A c \in AllCategories : ~(losses[c] > losses[c])
    BY <2>a
  <2>1. ASSUME NEW t \in Tickers, NEW d \in Int, NEW r \in Outcomes(t, d),
               ApplyFill(t, d, r), seen' # seen
        PROVE  Trips
    <3> DEFINE s == CategoryOf[t]
    <3>1. /\ s \in Categories /\ r \in Int /\ losses[s] \in Nat
          /\ s \notin halted /\ HaltLimit > 0 => losses[s] < HaltLimit
      BY <2>a DEF Outcomes, AllCategories, SwitchNeverLate
    <3>2. /\ losses'[s] = IF ~(category'[t] = s /\ r # 0 /\ ~carried[t]) THEN losses[s]
                           ELSE IF r > 0 THEN 0 ELSE losses[s] + 1
          /\ halted' = IF HaltLimit > 0 /\ losses'[s] >= HaltLimit
                         THEN halted \cup {s} ELSE halted
      BY <2>1, BookingAndSwitch
    <3> HIDE DEF s
    <3>3. halted' \ halted \subseteq Lost
      BY <3>1, <3>2
    <3>4. losses' = StreakAfterClose(category'[t], r, carried[t])
      BY <2>1, <3>1, ApplyFillType
    <3>5. ASSUME NEW c \in AllCategories, losses'[c] > losses[c]
          PROVE  Counted(c)
      <4>1. r # 0 /\ ~carried[t] /\ category'[t] = c
        BY <2>a, <2>b, <3>4, <3>5 DEF StreakAfterClose
      <4>2. Reduces(position[t], d)
        BY <4>1 DEF Outcomes
      <4>3. position[t] \in Int /\ position'[t] - position[t] = d
        BY <2>1 DEF ApplyFill, TypeOK
      <4>4. position[t] = built[t]
        BY <4>1 DEF BuiltInv
      <4> QED
        BY <2>1, <4>1, <4>2, <4>3, <4>4 DEF OwnClose
    <3> QED
      BY <3>3, <3>5
  <2>2. ASSUME losses' = losses, halted' = halted
        PROVE  Trips
    BY <2>b, <2>2
  <2>3. ASSUME losses' = [c \in AllCategories |-> 0], halted' = {}
        PROVE  Trips
    BY <2>a, <2>3
  <2>4. CASE QuietStep
    BY <2>2, <2>4, QuietSteps
  <2>5. CASE ProcessFill /\ UNCHANGED <<accountVars, holdingVars, category>>
    BY <2>2, <2>5 DEF accountVars
  <2>6. CASE ResolveVanished
    BY <2>2, <2>6, SettlementsTripNothing
  <2>7. CASE ResetDaily
    BY <2>3, <2>7 DEF ResetDaily
  <2>8. CASE \E discovered \in SUBSET OpenTickers, h \in horizon .. Len(fillLog) :
                 Restart(discovered, h)
    BY <2>3, <2>8 DEF Restart
  <2> QED
    BY <2>1, <2>4, <2>5, <2>6, <2>7, <2>8, StepKinds
<1> QED
  BY <1>1, SwitchInvariant, PTL DEF Spec, OnlyOwnClosesTrip

\* The trader's bookkeeping implements the promised breaker (CategoryBreaker):
\* seen through its streaks and halts, each step is one win, one loss or one
\* clearing of the breaker, or none.
THEOREM BreakerImplemented == Spec => ImplementsBreaker
<1> DEFINE streaks == [c \in Categories |-> losses[c]]
<1>1. Init => Breaker!Init
  BY DEF Init, Breaker!Init, AllCategories
<1>2. ASSUME IInv, [Next]_vars
      PROVE  [Breaker!Next]_(Breaker!vars)
  <2> USE <1>2 DEF IInv
  <2>1. ASSUME losses' = losses, halted' = halted
        PROVE  UNCHANGED Breaker!vars
    BY <2>1 DEF Breaker!vars
  <2>2. ASSUME NEW t \in Tickers, NEW d \in Int, NEW r \in Outcomes(t, d),
               ApplyFill(t, d, r)
        PROVE  [Breaker!Next]_(Breaker!vars)
    <3> DEFINE s == CategoryOf[t]
               counts == category'[t] = s /\ r # 0 /\ ~carried[t]
    <3>1. /\ \A c \in Categories \ {s} : losses'[c] = losses[c]
          /\ losses'[s] = IF ~counts THEN losses[s]
                          ELSE IF r > 0 THEN 0 ELSE losses[s] + 1
          /\ halted' = IF HaltLimit > 0 /\ losses'[s] >= HaltLimit
                         THEN halted \cup {s} ELSE halted
      BY <2>2, BookingAndSwitch
    <3>2. s \in Categories /\ r \in Int
      BY DEF Outcomes
    <3>3. /\ losses[s] \in Nat
          /\ HaltLimit > 0 /\ s \notin halted => losses[s] < HaltLimit
      BY <3>2 DEF TypeOK, AllCategories, SwitchNeverLate
    <3> HIDE DEF s, counts
    <3>4. CASE ~counts
      <4>1. streaks' = streaks
        BY <3>1, <3>4
      <4>2. halted' = halted
        BY <3>1, <3>2, <3>3, <3>4
      <4> QED
        BY <4>1, <4>2 DEF Breaker!vars
    <3>5. CASE counts /\ r > 0
      <4>1. streaks' = [streaks EXCEPT ![s] = 0]
        BY <3>1, <3>2, <3>5
      <4>2. halted' = halted
        BY <3>1, <3>5
      <4> QED
        BY <3>2, <4>1, <4>2 DEF Breaker!Next, Breaker!Win
    <3>6. CASE counts /\ ~(r > 0)
      <4>1. streaks' = [streaks EXCEPT ![s] = @ + 1]
        BY <3>1, <3>2, <3>6
      <4>2. halted' = IF HaltLimit > 0 /\ streaks[s] + 1 >= HaltLimit
                        THEN halted \cup {s} ELSE halted
        BY <3>1, <3>2, <3>6
      <4> QED
        BY <3>2, <4>1, <4>2 DEF Breaker!Next, Breaker!Loss
    <3> QED
      BY <3>4, <3>5, <3>6
  <2>3. CASE ResetDaily \/ \E discovered \in SUBSET OpenTickers,
                              h \in horizon .. Len(fillLog) : Restart(discovered, h)
    <3>1. losses' = [c \in AllCategories |-> 0] /\ halted' = {}
      BY <2>3 DEF ResetDaily, Restart
    <3>2. streaks' = [c \in Categories |-> 0]
      BY <3>1 DEF AllCategories
    <3> QED
      BY <3>1, <3>2 DEF Breaker!Next, Breaker!Clear
  <2>4. CASE QuietStep
    BY <2>1, <2>4, QuietSteps
  <2>5. CASE ProcessFill /\ UNCHANGED <<accountVars, holdingVars, category>>
    BY <2>1, <2>5 DEF accountVars
  <2>6. CASE ResolveVanished
    BY <2>1, <2>6, SettlementsTripNothing
  <2> QED
    BY <2>2, <2>3, <2>4, <2>5, <2>6, StepKinds
<1> QED
  BY <1>1, <1>2, SwitchInvariant, PTL DEF Spec, ImplementsBreaker, Breaker!Spec

-------------------------------------------------------------------------------
\* The sync never clears a held position with a cost basis and a listed binary
\* record without booking it.
THEOREM SettlementsBooked == Spec => SettlementsAreBooked
<1> DEFINE Booked ==
      \A t \in active :
          /\ position[t] # 0 /\ hasEntry[t] /\ market[t] = "binary"
          /\ stage \in {"idle", "settle"} /\ boots' = boots
          /\ position'[t] # position[t]
          => t \in settledPnl'
<1>1. ASSUME TypeOK, [Next]_vars
      PROVE  [Booked]_vars
  <2> SUFFICES ASSUME NEW t \in active,
                      position[t] # 0, hasEntry[t], market[t] = "binary",
                      stage \in {"idle", "settle"}, boots' = boots,
                      position'[t] # position[t]
               PROVE  t \in settledPnl'
    OBVIOUS
  <2>1. t \in Tickers /\ boots \in Nat
    BY <1>1 DEF TypeOK
  <2>2. CASE SyncPositions
    <3>1. ~Corrected(t)
      BY DEF Corrected, Vanished, Drifted, Remote, IsOpen
    <3> QED
      BY <2>1, <2>2, <3>1 DEF SyncPositions
  <2>3. CASE ResolveVanished
    BY <2>1, <2>3 DEF ResolveVanished, Records
  <2>4. ~UNCHANGED vars /\ ~Exchange
    BY DEF vars, holdingVars, Exchange, ExchangeFill, ExchangeSettles,
       SettlementRecorded, MarketMoves, TimePasses
  <2>5. ~Crash
    <3>1. Crash => boots' = boots + 1
      BY DEF Crash, Restart
    <3>2. boots + 1 # boots
      BY <2>1
    <3> QED
      BY <3>1, <3>2
  <2>6. ~ProcessFill /\ ~BackfillEntries /\ ~SyncUnavailable /\ ~SettlementsUnavailable
    BY DEF ProcessFill, BackfillEntries, SyncUnavailable, SettlementsUnavailable,
       holdingVars
  <2>7. /\ \A n \in 1 .. MaxFills : ~FetchFills(n)
        /\ \A discovered \in SUBSET OpenTickers : ~RefreshMarkets(discovered)
        /\ ~ResetDaily
    BY DEF FetchFills, RefreshMarkets, ResetDaily, holdingVars
  <2> QED
    BY <1>1, <2>2, <2>3, <2>4, <2>5, <2>6, <2>7 DEF Next, Trader
<1> QED
  BY <1>1, TypeCorrect, PTL DEF Spec, SettlementsAreBooked
===============================================================================
