----------------------------- MODULE ExitTriggers -----------------------------
(***************************************************************************)
(* What makes the trader get out: the stop-loss, the expiry deadline and   *)
(* the spot unwind, judged on the book, the entry price and the shift      *)
(* (engine.rs).  One market is followed, with one contract at a time:      *)
(* averages are in Accounts, retries and late bookings in ExitOrders, and  *)
(* how a quote gets its prices in QuotePricing; here a quote is any pair   *)
(* of passive prices.                                                      *)
(*                                                                         *)
(* Prices are millidollars.                                                *)
(***************************************************************************)
EXTENDS Integers

CONSTANTS
    Prices,       \* best prices that the book may have
    QuotePrices,  \* prices that the trader may quote
    Shifts,       \* values of the spot-implied shift
    UnwindShift,  \* unwind_shift
    Tick,         \* step of the prices
    None          \* no price, no order

StopLossFloor == 50   \* STOP_LOSS_FLOOR

ASSUME PriceAssumption == Prices \cup QuotePrices \subseteq Nat /\ Tick \in Nat \ {0}
ASSUME ShiftAssumption == Shifts \subseteq Int /\ UnwindShift \in Nat
ASSUME NoneAssumption == None \notin Int

VARIABLES
    bid, ask,  \* the best prices of the book
    shift,     \* fv_shift_for the market
    closing,   \* the close is nearer than EXPIRY_BUFFER_S
    quote,     \* what was quoted, the sides that rest, the book and shift then
    contracts,  \* position
    entryPrice, \* entry_price
    opened     \* history: the book and shift under which the quote that opened it
               \* was made

bookVars == <<bid, ask>>
holdingVars == <<contracts, entryPrice, opened>>
triggerVars == <<bookVars, shift, closing, quote, holdingVars>>

Larger(a, b) == IF a < b THEN b ELSE a

IsValid == bid # None /\ ask # None /\ ask > bid
-------------------------------------------------------------------------------
\* stop_loss_triggered.  Everything is doubled, to keep the mid whole.

ThresholdFixed == 2 * StopLossFloor
Threshold == 2 * Larger(StopLossFloor, 2 * (ask - bid))

StopLossTriggered ==
    /\ entryPrice # None
    /\ IsValid
    /\ LET gain == contracts * (bid + ask - 2 * entryPrice)
       IN  gain < 0 /\ -gain >= Threshold

\* exit_decision: a long sells into the bid, a short buys the ask.
Crossing == IF contracts > 0 THEN bid ELSE ask
ExitDecision ==
    IF contracts # 0 /\ (StopLossTriggered \/ closing) /\ Crossing # None
    THEN [price |-> Crossing, reason |-> IF StopLossTriggered THEN "stop" ELSE "expiry"]
    ELSE None

\* spot_unwind_decision, strictly beyond the threshold.
SpotUnwindDecision == contracts # 0 /\ IsValid /\ contracts * shift < -UnwindShift
-------------------------------------------------------------------------------
BookMoves ==
    /\ \E p \in Prices \cup {None} :
         \/ bid' = p /\ UNCHANGED ask
         \/ ask' = p /\ UNCHANGED bid
    /\ UNCHANGED <<shift, closing, quote, holdingVars>>

SpotMoves ==
    /\ shift' \in Shifts
    /\ UNCHANGED <<bookVars, closing, quote, holdingVars>>

ExpiryNears ==
    /\ closing' = TRUE
    /\ UNCHANGED <<bookVars, shift, quote, holdingVars>>

\* Passive quotes on a valid book, within an inventory cap of one contract.
Requote ==
    /\ IsValid
    /\ \E p \in [bid : QuotePrices, ask : QuotePrices] :
         /\ p.bid < p.ask /\ p.bid <= ask - Tick /\ p.ask >= bid + Tick
         /\ quote' = [bid |-> p.bid, ask |-> p.ask, under |-> [bid |-> bid, ask |-> ask, shift |-> shift],
                      on |-> {s \in {"bid", "ask"} : contracts # IF s = "bid" THEN 1 ELSE -1}]
    /\ UNCHANGED <<bookVars, shift, closing, holdingVars>>

\* A fill of a quote is booked.
QuoteFills ==
    /\ quote # None
    /\ \E side \in quote.on :
         LET after == IF side = "bid" THEN contracts + 1 ELSE contracts - 1 IN
         /\ after \in -1 .. 1
         /\ quote' = [quote EXCEPT !.on = @ \ {side}]
         /\ contracts' = after
         /\ entryPrice' = IF after = 0 THEN None ELSE quote[side]
         /\ opened' = IF after = 0 THEN None ELSE quote.under
    /\ UNCHANGED <<bookVars, shift, closing>>

\* A sync finds a position; its entry price is unknown until it is backfilled.
Adopt ==
    /\ contracts = 0
    /\ contracts' \in {-1, 1}
    /\ entryPrice' = None
    /\ opened' = None
    /\ UNCHANGED <<bookVars, shift, closing, quote>>

\* An order to get out is filled; one that is not changes nothing here.
GetOut ==
    /\ contracts' = 0
    /\ entryPrice' = None
    /\ opened' = None
    /\ UNCHANGED <<bookVars, shift, closing, quote>>

CheckExits == ExitDecision # None /\ GetOut
CheckSpotUnwind == SpotUnwindDecision /\ GetOut

TriggerInit ==
    /\ bid = None
    /\ ask = None
    /\ shift \in Shifts
    /\ closing = FALSE
    /\ quote = None
    /\ contracts = 0
    /\ entryPrice = None
    /\ opened = None

TriggerNext ==
    \/ BookMoves \/ SpotMoves \/ ExpiryNears
    \/ Requote \/ QuoteFills \/ Adopt
    \/ CheckExits \/ CheckSpotUnwind

TriggerSpec == TriggerInit /\ [][TriggerNext]_triggerVars
-------------------------------------------------------------------------------
\* "The 2x-spread floor exists so that a wide, noisy market doesn't trigger a
\* stop on its own bid-ask wobble" (README.md:121-122): a position that a
\* passive quote opened is never stopped out because one side or the other of
\* the book it was quoted on has stepped back, however far.
Wider == opened # None /\ IsValid /\ bid <= opened.bid /\ ask >= opened.ask
WideningNeverStops == contracts # 0 /\ Wider => ~StopLossTriggered

\* Every variable keeps to its values, and an entry price is one that was
\* quoted.
Touches == [bid : Prices, ask : Prices, shift : Shifts]
Quotes == [bid : QuotePrices, ask : QuotePrices, under : Touches,
           on : SUBSET {"bid", "ask"}]
TriggerTypeOK ==
    /\ {bid, ask} \subseteq Prices \cup {None}
    /\ shift \in Shifts
    /\ closing \in BOOLEAN
    /\ quote \in Quotes \cup {None}
    /\ contracts \in -1 .. 1
    /\ entryPrice \in QuotePrices \cup {None}
    /\ opened \in Touches \cup {None}
    /\ contracts = 0 => entryPrice = None
-------------------------------------------------------------------------------
\* Statements of the repository's comments that the code does not keep.

\* An unwind means that "the spot-implied fair value moved against our
\* inventory by MORE than the threshold" (engine.rs:370-372): a position is not
\* unwound at the very shift its quote was priced with.
UnwindsFollowMoves == SpotUnwindDecision /\ opened # None => shift # opened.shift
===============================================================================
