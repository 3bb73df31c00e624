------------------------------ MODULE ExitOrders ------------------------------
(***************************************************************************)
(* How one open position gets out: the stop-loss and expiry pass           *)
(* (check_exits, with its retry ladder) and the spot unwind (with its      *)
(* refire holdoff), both sizing a crossing IOC by a local position that    *)
(* follows the exchange's only when a fills poll or a position sync brings *)
(* it up to date.                                                          *)
(*                                                                         *)
(* Time passes in steps of the fills interval.  A deadline is kept as the  *)
(* time left until it.  Prices are left out: whether the mark is past the  *)
(* stop, or the spot shift past the unwind threshold, is open whenever the *)
(* code could evaluate it.                                                 *)
(***************************************************************************)
EXTENDS Integers

CONSTANTS
    Base,     \* EXIT_RETRY_BASE_S
    Cap,      \* EXIT_RETRY_MAX_S
    Holdoff,  \* UNWIND_REFIRE_HOLDOFF_S
    MaxLag,   \* the longest the trader goes without a fills poll that succeeds
    NoRetry,  \* no entry in exit_retries
    MaxNet,   \* bound: contracts held, either way
    MaxStray  \* bound: contracts of the fills one poll has to book, net

ASSUME BackoffAssumption == Base \in Nat \ {0} /\ Cap \in Nat /\ Base <= Cap
ASSUME HoldoffAssumption == Holdoff \in Nat
ASSUME LagAssumption == MaxLag \in Nat
ASSUME NoRetryAssumption == NoRetry \notin [backoff : Int, wait : Int, seen : Int]
ASSUME NetAssumption == MaxNet \in Nat /\ MaxStray \in Nat

VARIABLES
    \* the exchange
    held,       \* net contracts
    unbooked,   \* net contracts of the fills no poll has reported yet
    phase,      \* of the market: open, expiring (EXPIRY_BUFFER_S), closed
    book,       \* the sides with a price, as the trader last heard
    \* the trader
    position,
    retry,      \* the entry of exit_retries: backoff is the delay after the
                \* last attempt, wait what is left of it
    holdoff,    \* what is left until spot_unwind_fired_until
    \* history
    lag,        \* time since the last fills poll that succeeded
    exited,     \* contracts a check_exits order filled, position not yet told
    unwound     \* contracts an unwind filled, position not yet told

vars == <<held, unbooked, phase, book, position, retry, holdoff, lag, exited,
          unwound>>

Abs(n) == IF n < 0 THEN -n ELSE n
Min(a, b) == IF a < b THEN a ELSE b
Less(a, b) == IF a < b THEN 0 ELSE a - b

\* The exchange moves by a fill of d contracts, within the bounds.
Fills(d) ==
    /\ Abs(held + d) <= MaxNet
    /\ Abs(unbooked + d) <= MaxStray
    /\ held' = held + d
    /\ unbooked' = unbooked + d

\* A crossing order for the whole local position: the exchange fills any part
\* of it, nothing of it on a phantom book or past the close, and the rest is
\* cancelled.  The answer is not looked at.
ApplyExitPlan(filled) ==
    /\ filled \in 0 .. Abs(position)
    /\ phase = "closed" => filled = 0
    /\ Fills(IF position > 0 THEN -filled ELSE filled)
-------------------------------------------------------------------------------
\* The market and the clock.

QuoteFills ==
    /\ phase # "closed"
    /\ \E d \in {-1, 1} : Fills(d)
    /\ UNCHANGED <<phase, book, position, retry, holdoff, lag, exited, unwound>>

MarketMoves(from, to) ==
    /\ phase = from
    /\ phase' = to
    /\ UNCHANGED <<held, unbooked, book, position, retry, holdoff, lag, exited, unwound>>

ExpiryNears == MarketMoves("open", "expiring")
MarketCloses == MarketMoves("expiring", "closed")

BookMoves ==
    /\ \E side \in {"bid", "ask"} :
         book' = IF side \in book THEN book \ {side} ELSE book \cup {side}
    /\ UNCHANGED <<held, unbooked, phase, position, retry, holdoff, lag, exited, unwound>>

Tick ==
    /\ lag < MaxLag
    /\ lag' = lag + 1
    /\ retry' = IF retry = NoRetry THEN NoRetry
                ELSE [retry EXCEPT !.wait = Less(@, 1)]
    /\ holdoff' = Less(holdoff, 1)
    /\ UNCHANGED <<held, unbooked, phase, book, position, exited, unwound>>
-------------------------------------------------------------------------------
\* What brings the local position up to date.

\* The fills poll books every fill since the last one.
Poll ==
    /\ position' = position + unbooked
    /\ unbooked' = 0
    /\ lag' = 0
    /\ exited' = 0
    /\ unwound' = 0
    /\ UNCHANGED <<held, phase, book, retry, holdoff>>

\* The position sync adopts the exchange's number; the poll will still book
\* the fills it already contains.  When the sync waits first, for a recent fill
\* or the settlement of a vanished position, is left open here.
Sync ==
    /\ position # held
    /\ position' = held
    /\ exited' = 0
    /\ unwound' = 0
    /\ UNCHANGED <<held, unbooked, phase, book, retry, holdoff, lag>>
-------------------------------------------------------------------------------
\* check_exits, every ten seconds.

ExitSide == IF position > 0 THEN "bid" ELSE "ask"
TwoSided == {"bid", "ask"} \subseteq book
ExpiryImminent == phase # "open"

\* exit_decision: the expiry is due by the clock alone, the stop only when the
\* book has a mid; either needs the side to cross into.
ExitDecisionTwoSided(stop) ==
    /\ position # 0
    /\ TwoSided
    /\ ExpiryImminent \/ stop
ExitDecision(stop) ==
    /\ position # 0
    /\ ExpiryImminent \/ (stop /\ TwoSided)
    /\ ExitSide \in book

HoldoffIgnored == TRUE
HoldoffOver == holdoff = 0

\* exit_retry_delay_s, by the delay before: the base, doubled up to the cap.
DelayUncapped(backoff) == IF backoff = 0 THEN Base ELSE 2 * backoff
Delay(backoff) == IF backoff = 0 THEN Base ELSE Min(2 * backoff, Cap)

\* The ladder is climbed while the position stands still.
Stuck == retry # NoRetry /\ retry.seen = position

Attempt ==
    \E stop \in BOOLEAN, filled \in 0 .. Abs(position) :
      /\ HoldoffOver
      /\ ExitDecision(stop)
      /\ phase # "closed"
      /\ Stuck => retry.wait = 0
      /\ LET backoff == Delay(IF Stuck THEN retry.backoff ELSE 0)
         IN  retry' = [backoff |-> backoff, wait |-> backoff, seen |-> position]
      /\ ApplyExitPlan(filled)
      /\ exited' = exited + filled
      /\ UNCHANGED <<phase, book, position, holdoff, lag, unwound>>

\* A pass over a flat position: its retry entry is reaped.
Reap ==
    /\ position = 0
    /\ retry' = NoRetry
    /\ UNCHANGED <<held, unbooked, phase, book, position, holdoff, lag, exited, unwound>>

CheckExits == Attempt \/ Reap
-------------------------------------------------------------------------------
\* check_spot_unwind, on spot ticks: it looks at its own holdoff and not at
\* the retries of check_exits, nor at the close of the market.  Its throttle of
\* one second is below the clock's step.
SpotUnwind ==
    \E filled \in 0 .. Abs(position) :
      /\ position # 0
      /\ HoldoffOver
      /\ TwoSided
      /\ ApplyExitPlan(filled)
      /\ holdoff' = Holdoff
      /\ unwound' = unwound + filled
      /\ UNCHANGED <<phase, book, position, retry, lag, exited>>
-------------------------------------------------------------------------------
\* A process starts with the positions the exchange reports and no memory of
\* earlier exits.
Init ==
    /\ held \in -MaxNet .. MaxNet
    /\ position = held
    /\ unbooked = 0
    /\ phase \in {"open", "expiring"}
    /\ book \in SUBSET {"bid", "ask"}
    /\ retry = NoRetry
    /\ holdoff = 0
    /\ lag = 0
    /\ exited = 0
    /\ unwound = 0

Exchange == QuoteFills \/ ExpiryNears \/ MarketCloses \/ BookMoves
Trader == Poll \/ Sync \/ CheckExits \/ SpotUnwind
Next == Exchange \/ Tick \/ Trader

Spec == Init /\ [][Next]_vars

\* The clock runs, and every timer of the event loop gets its turn.
FairSpec ==
    /\ Spec
    /\ WF_vars(Tick)
    /\ WF_vars(Poll)
    /\ WF_vars(CheckExits)
-------------------------------------------------------------------------------
Retries == [backoff : Base .. Cap, wait : 0 .. Cap, seen : Int]

TypeOK ==
    /\ held \in -MaxNet .. MaxNet
    /\ unbooked \in Int
    /\ phase \in {"open", "expiring", "closed"}
    /\ book \in SUBSET {"bid", "ask"}
    /\ position \in Int
    /\ retry \in Retries \cup {NoRetry}
    /\ holdoff \in 0 .. Holdoff
    /\ lag \in 0 .. MaxLag
    /\ exited \in Nat
    /\ unwound \in Nat

\* A position that is due out, and has someone to trade with, never has its
\* exits switched off for good: the ladder, the holdoff, and unwinds that keep
\* renewing it leave room for one more order again and again.
Due == position # 0 /\ phase = "expiring" /\ ExitSide \in book
DueExitsAreRetried == <>[]Due => []<><<Attempt \/ SpotUnwind>>_vars

\* As long as the trader never goes ten seconds without a fills poll that
\* succeeds (PollsKeepUp), an exit never fills contracts that an earlier exit or
\* unwind already sold and the local position still shows, and an unwind never
\* those of an earlier unwind.
PollsKeepUp == MaxLag < Base /\ MaxLag < Holdoff
ExitsAwaitBookings ==
    [][/\ exited' > exited => exited = 0 /\ unwound = 0
       /\ unwound' > unwound => unwound = 0]_vars

\* "a second full-size exit would drive the position through flat into a
\* reversal" (main.rs:185-188): between two bookings, the exits together never
\* trade more than the position they get out of.
ExitsNeverStack == exited + unwound <= Abs(position)

\* "10s matches check_exits' cadence, which is safe against the 5s poll by
\* construction" (main.rs:791-792): between two bookings, the unwinds together
\* never trade more than the position they get out of.
UnwindsNeverStack == unwound <= Abs(position)
===============================================================================
