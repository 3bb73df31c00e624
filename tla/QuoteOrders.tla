----------------------------- MODULE QuoteOrders -----------------------------
(***************************************************************************)
(* The trader's resting quotes: which orders rest at the exchange, which   *)
(* of them the trader still has an id for, and how the order budget, the   *)
(* spot gate, fills, lost answers, market expiry and the account-wide halt *)
(* move the two apart.                                                     *)
(*                                                                         *)
(* A handler runs to its end before the next one starts and reads nothing  *)
(* between its awaits, so its cancels and placements are one step whose    *)
(* REST calls each may or may not reach the exchange.  Prices, the policy  *)
(* and the clocks are left out: whether a book update gets as far as       *)
(* requoting, and which sides it wants, is open.                           *)
(***************************************************************************)
EXTENDS Integers, FiniteSets

CONSTANTS
    Tickers,
    Bound,          \* tickers whose category is bound to the spot feed
    QuoteSizes,     \* quote_size and extreme_quote_size
    MaxInventory,   \* max_inventory
    MaxOpenOrders,  \* max_open_orders
    Leftover,       \* quotes of an earlier process that startup may find
    NoOrder,        \* an empty order-id slot
    MaxQuotes,      \* bound: requotes of the behaviour
    MaxUnbooked     \* bound: fills waiting for one poll

Sides == {"bid", "ask"}
Sign(side) == IF side = "bid" THEN 1 ELSE -1

ASSUME BoundAssumption == Bound \subseteq Tickers
ASSUME SizeAssumption == QuoteSizes \subseteq Nat \ {0}
ASSUME LimitAssumption == MaxInventory \in Nat /\ MaxOpenOrders \in Nat
ASSUME BoundsAssumption == MaxQuotes \in Nat /\ MaxUnbooked \in Nat
ASSUME LeftoverAssumption == Leftover \subseteq Tickers \X Sides
ASSUME NoOrderAssumption == NoOrder \notin Nat

VARIABLES
    \* the exchange
    resting,     \* orders in its book; num and side are the order id, and
                 \* adrift is history: the trader let go of it while it rests
    unbooked,    \* fills it has not yet reported to a fills poll
    expired,     \* markets past their close
    \* the trader
    slot,        \* bid_order_id and ask_order_id of each ticker
    everQuoted,
    position,
    quotes,      \* requotes so far: the num of the next orders
    backoff,     \* balance_backoff_until is in the future
    mood,        \* what the spot history says of the moment
    gateOn,      \* spot_gate_on, the latch
    running

exchangeVars == <<resting, unbooked, expired>>
gateVars == <<mood, gateOn>>
vars == <<exchangeVars, gateVars, slot, everQuoted, position, quotes, backoff,
          running>>

OrderIds == [num : 0 .. quotes, ticker : Tickers, side : Sides]
IdOf(o) == [num |-> o.num, ticker |-> o.ticker, side |-> o.side]
Tracked(o) == slot[o.ticker][o.side] = o.num

Slots == Tickers \X Sides
Filled == {ts \in Slots : slot[ts[1]][ts[2]] # NoOrder}
OpenOrderCount == Cardinality(Filled)

\* The resting orders behind the slots of some tickers.
Quoted(tickers) == {o \in resting : o.ticker \in tickers /\ Tracked(o)}
------------------------------------------------------------------------------
\* The exchange and the feeds.  They are followed while the trader runs.

\* Part or all of an order trades; the fill waits for the fills poll.
ExchangeFill(o, n) ==
    /\ running
    /\ Cardinality(unbooked) < MaxUnbooked
    /\ resting' = (resting \ {o}) \cup
           (IF n = o.left THEN {} ELSE {[o EXCEPT !.left = @ - n]})
    /\ unbooked' = unbooked \cup {[order |-> IdOf(o), size |-> n, left |-> o.left - n]}
    /\ UNCHANGED <<expired, gateVars, slot, everQuoted, position, quotes, backoff, running>>

\* The market closes: the exchange drops its orders and tells nobody.
MarketCloses(t) ==
    /\ running
    /\ t \notin expired
    /\ expired' = expired \cup {t}
    /\ resting' = {o \in resting : o.ticker # t}
    /\ UNCHANGED <<unbooked, gateVars, slot, everQuoted, position, quotes, backoff, running>>

BackoffEnds ==
    /\ running
    /\ backoff
    /\ backoff' = FALSE
    /\ UNCHANGED <<exchangeVars, gateVars, slot, everQuoted, position, quotes, running>>
------------------------------------------------------------------------------
\* The spot gate.  A silent feed is stale until a tick comes.  Short of that
\* the 60 s return, whose base moves on with the clock, is below the release
\* level, between the levels, or above the trip level (or not known yet).
Moods == {"calm", "hovering", "trending", "stale"}

\* Schmitt trigger: between the levels the latch decides.
GatedIn(m) == m \in {"stale", "trending"} \/ (m = "hovering" /\ gateOn)
SpotGated == GatedIn(mood)
------------------------------------------------------------------------------
\* Requoting one ticker: on_book_update, plan_quotes and apply_quote_plan.

\* One order too many is let in.
BudgetOffByOne(t) == OpenOrderCount <= MaxOpenOrders \/ everQuoted[t]

WithinBudget(t) == OpenOrderCount < MaxOpenOrders \/ everQuoted[t]

\* on_book_update gets past the spot defense; a closed market sends no update.
MayQuote(t) == running /\ t \notin expired /\ (t \in Bound => ~SpotGated)

MayPlan(t) == ~backoff /\ WithinBudget(t)

Abs(n) == IF n < 0 THEN -n ELSE n
MayPlace(t, side, size) == Abs(position[t] + Sign(side) * size) <= MaxInventory

\* Answers to a placement.  An error may hide an order that was accepted.
Answers == {"accepted", "rejected", "unfunded", "unanswered"}
Rests(a) == a \in {"accepted", "unanswered"}

\* The trader lets go of some orders; those that rest on are adrift.
LetGo(orders) == {[o EXCEPT !.adrift = TRUE] : o \in orders}

\* The old quotes are never cancelled.
NothingCancelled(cancelled, reached) == resting

\* Cancels reach the exchange for the orders in `reached` only; the error of a
\* cancel that does not arrive is ignored and its order forgotten all the same.
AfterCancel(cancelled, reached) ==
    (resting \ cancelled) \cup LetGo(cancelled \ reached)

Requote(t) ==
    /\ quotes < MaxQuotes
    /\ MayQuote(t)
    /\ MayPlan(t)
    /\ \E size \in [Sides -> QuoteSizes], sides \in SUBSET Sides :
       \E answer \in [{s \in sides : MayPlace(t, s, size[s])} -> Answers],
          reached \in SUBSET Quoted({t}) :
          /\ resting' = AfterCancel(Quoted({t}), reached)
                 \cup {[num |-> quotes + 1, ticker |-> t, side |-> s, left |-> size[s],
                        adrift |-> answer[s] = "unanswered"] :
                        s \in {s \in DOMAIN answer : Rests(answer[s])}}
          /\ slot' = [slot EXCEPT ![t] = [s \in Sides |->
                 IF s \in DOMAIN answer /\ answer[s] = "accepted"
                   THEN quotes + 1 ELSE NoOrder]]
          /\ backoff' = \E s \in DOMAIN answer : answer[s] = "unfunded"
    /\ everQuoted' = [everQuoted EXCEPT ![t] = TRUE]
    /\ quotes' = quotes + 1
    /\ UNCHANGED <<unbooked, expired, position, gateVars, running>>

\* Daily or cumulative loss limit: stop everything, cancel what rests.
HaltAllTrading ==
    /\ running
    /\ running' = FALSE
    /\ \E reached \in SUBSET resting : resting' = resting \ reached
    /\ UNCHANGED <<unbooked, expired, gateVars, slot, everQuoted, position, quotes,
                   backoff>>
------------------------------------------------------------------------------
\* Booking a fill releases the slot of its order, filled to the end or not.

\* Only a cancel would release a slot.
SlotsKept(f) == slot

SlotsAfterFill(f) ==
    [slot EXCEPT ![f.order.ticker] =
        [s \in Sides |-> IF s = f.order.side /\ @[s] = f.order.num THEN NoOrder ELSE @[s]]]

BookFill(f) ==
    /\ running
    /\ unbooked' = unbooked \ {f}
    /\ position' = [position EXCEPT ![f.order.ticker] = @ + Sign(f.order.side) * f.size]
    /\ slot' = SlotsAfterFill(f)
    /\ resting' = LetGo({o \in resting : IdOf(o) = f.order})
                    \cup {o \in resting : IdOf(o) # f.order}
    /\ UNCHANGED <<expired, gateVars, everQuoted, quotes, backoff, running>>
------------------------------------------------------------------------------
\* The gate's edge detector, run by every spot tick and every 10 seconds.

\* The latch is set and nothing withdrawn.
PullNothing == UNCHANGED <<resting, slot>>

PullSpotQuotes ==
    /\ \E reached \in SUBSET Quoted(Bound) :
          resting' = AfterCancel(Quoted(Bound), reached)
    /\ slot' = [t \in Tickers |->
           IF t \in Bound THEN [s \in Sides |-> NoOrder] ELSE slot[t]]

EvaluateGate(m) ==
    /\ gateOn' = GatedIn(m)
    /\ IF GatedIn(m) /\ ~gateOn THEN PullSpotQuotes ELSE UNCHANGED <<resting, slot>>

UpdateSpotGate ==
    /\ running
    /\ Bound # {}
    /\ EvaluateGate(mood)
    /\ UNCHANGED <<unbooked, expired, mood, everQuoted, position, quotes, backoff, running>>

\* A tick ends staleness; the gate is evaluated on the new history at once.
SpotTick(m) ==
    /\ running
    /\ Bound # {}
    /\ m # "stale"
    /\ mood' = m
    /\ EvaluateGate(m)
    /\ UNCHANGED <<unbooked, expired, everQuoted, position, quotes, backoff, running>>

\* The window slides over the ticks there are, or the last of them grows old.
TimePasses(m) ==
    /\ running
    /\ mood # "stale"
    /\ mood' = m
    /\ UNCHANGED <<exchangeVars, gateOn, slot, everQuoted, position, quotes, backoff,
                   running>>
------------------------------------------------------------------------------
\* Startup keeps the orders that reduce a position, and those it failed to
\* cancel; it records the ids of none.
Init ==
    /\ \E kept \in SUBSET Leftover :
          resting = {[num |-> 0, ticker |-> l[1], side |-> l[2], left |-> 1,
                       adrift |-> TRUE] : l \in kept}
    /\ unbooked = {}
    /\ expired = {}
    /\ slot = [t \in Tickers |-> [s \in Sides |-> NoOrder]]
    /\ everQuoted = [t \in Tickers |-> FALSE]
    /\ position = [t \in Tickers |-> 0]
    /\ quotes = 0
    /\ backoff = FALSE
    /\ mood = "stale"     \* no tick yet
    /\ gateOn = FALSE
    /\ running = TRUE

Next ==
    \/ \E o \in resting : \E n \in 1 .. o.left : ExchangeFill(o, n)
    \/ \E t \in Tickers : MarketCloses(t) \/ Requote(t)
    \/ \E f \in unbooked : BookFill(f)
    \/ \E m \in Moods : SpotTick(m) \/ TimePasses(m)
    \/ BackoffEnds
    \/ UpdateSpotGate
    \/ HaltAllTrading

Spec == Init /\ [][Next]_vars

\* The 10-second timer and the spot ticks keep the edge detector running.
FairSpec == Spec /\ WF_vars(UpdateSpotGate)
------------------------------------------------------------------------------
\* Every variable keeps to its values, and a slot names an order of its own
\* ticker and side that was really sent.
TypeOK ==
    /\ resting \subseteq [num : 0 .. quotes, ticker : Tickers, side : Sides,
                         left : Nat \ {0}, adrift : BOOLEAN]
    /\ unbooked \subseteq [order : OrderIds, size : Nat \ {0}, left : Nat]
    /\ expired \subseteq Tickers
    /\ slot \in [Tickers -> [Sides -> (1 .. quotes) \cup {NoOrder}]]
    /\ everQuoted \in [Tickers -> BOOLEAN]
    /\ position \in [Tickers -> Int]
    /\ quotes \in Nat
    /\ backoff \in BOOLEAN /\ mood \in Moods /\ gateOn \in BOOLEAN
    /\ running \in BOOLEAN

\* No order is lost silently: while an order rests without the trader holding
\* its id, the cause is a cancel that never arrived, a placement whose answer
\* was lost, a partial fill, or an earlier process - never requoting, booking,
\* the spot gate or a refusal.
OrphansAreExplained == \A o \in resting : Tracked(o) \/ o.adrift

\* No slot stays occupied by a finished order: while trading runs, an id the
\* trader holds names an order that rests, or one whose fill is still to be
\* booked, or one of a market that closed.
SlotsAreLive ==
    running =>
        \A t \in Tickers \ expired : \A s \in Sides :
            slot[t][s] # NoOrder =>
                LET id == [num |-> slot[t][s], ticker |-> t, side |-> s]
                IN  (\E o \in resting : IdOf(o) = id) \/ (\E f \in unbooked : f.order = id)

\* The order budget admits: a ticker's first quote leaves at most one order
\* more than max_open_orders in the slots.
BudgetAdmits ==
    [][\A t \in Tickers : everQuoted'[t] /\ ~everQuoted[t]
           => OpenOrderCount' <= MaxOpenOrders + 1]_vars

SpotQuotesGone == Quoted(Bound) = {}

\* A gate that closes while the latch is open is noticed and every spot-bound
\* quote the trader knows of is withdrawn, unless the gate reopens first.
RisingEdgePulls == (SpotGated /\ ~gateOn) ~> (~SpotGated \/ ~running \/ SpotQuotesGone)
------------------------------------------------------------------------------
\* Statements of the repository's comments that the code does not keep.

\* main.rs on the timer path of the gate: without it resting quotes would "sit
\* as pickoff bait for the whole outage"; "staleness must fail safe even when
\* no data arrives".  If the feed stays dead, the trader in the end has no
\* spot-bound quote resting.
StaleFeedPullsQuotes == <>[](mood = "stale" /\ running) => <>[]SpotQuotesGone

\* state.rs: open_order_count is the number of concurrent resting orders.  So
\* it never counts more than rest or are still to be reported as filled.
OnlyRestingOrdersCounted ==
    running => OpenOrderCount <= Cardinality(resting) + Cardinality(unbooked)
==============================================================================
