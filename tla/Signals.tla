------------------------------- MODULE Signals -------------------------------
(***************************************************************************)
(* The windows of the past that decide whether a spot-bound market may be  *)
(* quoted: the spot ticks behind the staleness and trend gates (spot.rs),  *)
(* and the mids behind the volatility filter (features.rs, sample_mid).    *)
(* The mids are sampled only where the gates let a book update through.    *)
(*                                                                         *)
(* The clock moves in units of some seconds, and instants are kept as      *)
(* ages.  No comparison tells ages past the longest window apart.          *)
(***************************************************************************)
EXTENDS Integers, Sequences, FiniteSetsExt, Functions

CONSTANTS
    Prices,         \* of spot
    Jump,           \* OUTLIER_JUMP, in 1/100000
    JumpWindow,     \* OUTLIER_WINDOW_S
    ReturnWindow,   \* the 60 s of the trend gate
    Retain,         \* RETAIN_S
    StaleMax,       \* stale_max_s
    Trip, Release,  \* gate_ret_60s, and it times gate_release_ratio, in 1/100000
    Capacity,       \* of the channel, for ticks
    Mids,           \* of the market, in cents
    MidWindow,      \* WINDOW_S of sample_mid
    HistoryLen,     \* MAX_LEN of sample_mid
    MaxVol,         \* vol_filter_threshold
    MaxMoves,       \* bound: moves of spot and of the mid
    MaxFaults,      \* bound: bad prints, lost connections, units without a tick handled
    NoPrice

ASSUME PriceAssumption == Prices \subseteq Nat \ {0} /\ Mids \subseteq Nat /\ NoPrice \notin Prices
ASSUME GateAssumption == {Jump, Trip, Release, MaxVol} \subseteq Nat /\ Release <= Trip
\* "must exceed the largest ret() window"
ASSUME WindowAssumption ==
    /\ {JumpWindow, ReturnWindow, Retain, StaleMax, MidWindow} \subseteq Nat
    /\ ReturnWindow < Retain
    /\ {JumpWindow, StaleMax} \subseteq 0 .. Retain \* ages are counted no further
ASSUME LengthAssumption == {Capacity, HistoryLen} \subseteq Nat \ {0}
ASSUME SignalBoundAssumption == {MaxMoves, MaxFaults} \subseteq Nat

VARIABLES
    \* the world
    spot,      \* the price of the product
    mid,       \* of the market
    \* the spot feed
    linked,    \* connected and subscribed
    reported,  \* ticked in this unit of time
    channel,   \* ticks on their way to the trader
    \* the trader
    ticks,     \* ages and prices, oldest first
    gateOn,    \* spot_gate_on
    history,   \* mid_history
    sampled,   \* the age of its last sample
    \* bounds and history
    moves, faults,
    believed   \* latest() at each of the last instants

worldVars == <<spot, mid>>
feedVars == <<linked, reported, channel>>
midVars == <<history, sampled>>
signalVars == <<worldVars, feedVars, ticks, gateOn, midVars, moves, faults, believed>>

Older(age, longest) == IF age > longest THEN age ELSE age + 1
Move == moves < MaxMoves /\ moves' = moves + 1
Fault == faults < MaxFaults /\ faults' = faults + 1
-------------------------------------------------------------------------------
\* SpotState.

Latest(ts) == IF ts = <<>> THEN NoPrice ELSE ts[Len(ts)].price
IsStale(ts) == ts # <<>> => ts[Len(ts)].age > StaleMax

\* A price off by more than the limit, in 1/100000.
Off(price, base, limit) ==
    LET d == IF price > base THEN price - base ELSE base - price IN 100000 * d > limit * base

\* The guard: a jump right after the last accepted tick is a bad print.
AcceptedNever(price) == ticks # <<>> => ~Off(price, ticks[Len(ticks)].price, Jump)
Accepted(price) ==
    ticks # <<>> /\ ticks[Len(ticks)].age < JumpWindow => ~Off(price, ticks[Len(ticks)].price, Jump)

\* The front is popped while it is too old.
Folded(price) ==
    LET all == Append(ticks, [age |-> 0, price |-> price]) IN
    SubSeq(all, Min({k \in DOMAIN all : all[k].age <= Retain}), Len(all))

\* The base of ret: the newest tick that is old enough.
OldEnough(ts) == {k \in DOMAIN ts : ts[k].age >= ReturnWindow}
BaseOldest(ts) == IF OldEnough(ts) = {} THEN NoPrice ELSE ts[Min(OldEnough(ts))].price
Base(ts) == IF OldEnough(ts) = {} THEN NoPrice ELSE ts[Max(OldEnough(ts))].price

\* spot_gated, with trend_gated's band around the threshold.
SpotGated(ts) ==
    ~IsStale(ts) /\ Base(ts) # NoPrice
        => Off(Latest(ts), Base(ts), IF gateOn THEN Release ELSE Trip)
-------------------------------------------------------------------------------
\* The volatility filter.

\* sample_mid: a new sample per window, the last one refreshed within it.
SampledUnbounded == IF history = <<>> \/ sampled >= MidWindow
                    THEN Append(history, mid)
                    ELSE [history EXCEPT ![Len(history)] = mid]
Sampled ==
    IF history = <<>> \/ sampled >= MidWindow
    THEN LET all == Append(history, mid) IN
         IF Len(all) > HistoryLen THEN Tail(all) ELSE all
    ELSE [history EXCEPT ![Len(history)] = mid]

Total(s) == FoldFunction(+, 0, s)

\* realized_vol: the standard deviation, zero of fewer than three samples.
Volatile(h) ==
    /\ Len(h) >= 3
    /\ Len(h) * Total([k \in DOMAIN h |-> h[k] * h[k]]) - Total(h) * Total(h)
         > MaxVol * MaxVol * Len(h) * Len(h)

\* A book update now would get as far as the policy and the plan.
MayQuote == ~SpotGated(ticks) /\ ~Volatile(Sampled)
-------------------------------------------------------------------------------
\* The world.

SpotMoves ==
    /\ Move
    /\ spot' \in Prices \ {spot}
    /\ UNCHANGED <<mid, feedVars, ticks, gateOn, midVars, faults, believed>>

MidMoves ==
    /\ Move
    /\ mid' \in Mids \ {mid}
    /\ UNCHANGED <<spot, feedVars, ticks, gateOn, midVars, faults, believed>>

\* While the feed is connected it ticks in each unit of time and the trader gets
\* to the tick, unless something keeps one of them.
TimePasses ==
    /\ IF linked /\ (~reported \/ channel # <<>>) THEN Fault ELSE UNCHANGED faults
    /\ reported' = FALSE
    /\ ticks' = [k \in DOMAIN ticks |-> [ticks[k] EXCEPT !.age = Older(@, Retain)]]
    /\ sampled' = Older(sampled, MidWindow)
    /\ believed' = [k \in DOMAIN believed |-> IF k = 0 THEN believed[0] ELSE believed[k - 1]]
    /\ UNCHANGED <<worldVars, linked, channel, gateOn, history, moves>>
-------------------------------------------------------------------------------
\* The spot feed.

\* try_send: a tick that finds the channel full is dropped.
FeedTick ==
    /\ linked
    /\ ~reported
    /\ reported' = TRUE
    /\ \E price \in Prices :
         /\ IF price = spot THEN UNCHANGED faults ELSE Fault
         /\ channel' = IF Len(channel) < Capacity THEN Append(channel, price) ELSE channel
    /\ UNCHANGED <<worldVars, linked, ticks, gateOn, midVars, moves, believed>>

\* The ticks already in the channel outlive the connection.
Disconnect ==
    /\ linked
    /\ Fault
    /\ linked' = FALSE
    /\ UNCHANGED <<worldVars, reported, channel, ticks, gateOn, midVars, moves, believed>>

\* After a backoff of at most a minute.
Reconnect ==
    /\ ~linked
    /\ linked' = TRUE
    /\ UNCHANGED <<worldVars, reported, channel, ticks, gateOn, midVars, moves, faults,
                   believed>>
-------------------------------------------------------------------------------
\* The trader.

\* on_spot_tick: the age of a tick counts from when it is handled.
OnSpotTick ==
    /\ channel # <<>>
    /\ channel' = Tail(channel)
    /\ \/ /\ Accepted(Head(channel))
          /\ ticks' = Folded(Head(channel))
          /\ gateOn' = SpotGated(ticks')
          /\ believed' = [believed EXCEPT ![0] = Head(channel)]
       \/ /\ ~Accepted(Head(channel))
          /\ UNCHANGED <<ticks, gateOn, believed>>
    /\ UNCHANGED <<worldVars, linked, reported, midVars, moves, faults>>

\* The gate's timer.
UpdateSpotGate ==
    /\ gateOn' = SpotGated(ticks)
    /\ UNCHANGED <<worldVars, feedVars, ticks, midVars, moves, faults, believed>>

\* on_book_update with build_observation: past the gates, the mid is sampled
\* whether or not the filter then refuses the quote.
OnBookUpdateFiltered ==
    /\ MayQuote
    /\ history' = Sampled
    /\ sampled' = IF history = <<>> \/ sampled >= MidWindow THEN 0 ELSE sampled
    /\ UNCHANGED <<worldVars, feedVars, ticks, gateOn, moves, faults, believed>>
OnBookUpdate ==
    /\ ~SpotGated(ticks)
    /\ history' = Sampled
    /\ sampled' = IF history = <<>> \/ sampled >= MidWindow THEN 0 ELSE sampled
    /\ UNCHANGED <<worldVars, feedVars, ticks, gateOn, moves, faults, believed>>
-------------------------------------------------------------------------------
SignalInit ==
    /\ spot \in Prices
    /\ mid \in Mids
    /\ linked = FALSE
    /\ reported = FALSE
    /\ channel = <<>>
    /\ ticks = <<>>
    /\ gateOn = FALSE
    /\ history = <<>>
    /\ sampled = MidWindow + 1
    /\ moves = 0
    /\ faults = 0
    /\ believed = [k \in 0 .. Retain |-> NoPrice]

SignalNext ==
    \/ SpotMoves \/ MidMoves \/ TimePasses
    \/ FeedTick \/ Disconnect \/ Reconnect
    \/ OnSpotTick \/ UpdateSpotGate \/ OnBookUpdate

SignalSpec == SignalInit /\ [][SignalNext]_signalVars

\* The feed ticks and reconnects, the timer fires, the channel is served, and the
\* book goes on being updated.
FairSignalSpec ==
    /\ SignalSpec
    /\ WF_signalVars(TimePasses)
    /\ WF_signalVars(FeedTick)
    /\ WF_signalVars(Reconnect)
    /\ WF_signalVars(OnSpotTick)
    /\ WF_signalVars(UpdateSpotGate)
    /\ SF_signalVars(OnBookUpdate)
-------------------------------------------------------------------------------
\* Every variable keeps to its type; the channel and the history to their
\* lengths, and the ticks to those a return can need.
SignalTypeOK ==
    /\ spot \in Prices /\ mid \in Mids
    /\ {linked, reported, gateOn} \subseteq BOOLEAN
    /\ channel \in Seq(Prices) /\ Len(channel) <= Capacity
    /\ ticks \in Seq([age : 0 .. Retain + 1, price : Prices])
    /\ history \in Seq(Mids) /\ Len(history) <= HistoryLen
    /\ sampled \in 0 .. MidWindow + 1
    /\ moves \in 0 .. MaxMoves
    /\ faults \in 0 .. MaxFaults
    /\ believed \in [0 .. Retain -> Prices \cup {NoPrice}]

\* The trend gate compares with what the trader believed one window ago: over
\* gaps, bursts, rejected prints and pruning, the base of a return is the price
\* that was the latest then.  Where there is none, there was none then, or the
\* belief of then had stood for the whole retention until the oldest tick kept.
BaseIsOldBelief ==
    LET base == Base(ticks)
        then == believed[ReturnWindow]
    IN /\ base # NoPrice => base = then
       /\ base = NoPrice /\ then # NoPrice =>
            /\ ticks # <<>>
            /\ \A k \in ticks[1].age + 1 .. Retain : believed[k] = then

\* No guard locks the market out: bad prints, gaps, lost connections, a jump of
\* spot by more than the guard accepts, and a jump of the mid are all got over,
\* and when spot and mid hold still, quoting is let through for good.
QuotingResumes ==
    \A p \in Prices, m \in Mids :
      <>[](spot = p /\ mid = m) => <>[](Latest(ticks) = p /\ MayQuote)
===============================================================================
