------------------------------- MODULE Lifecycle -------------------------------
(***************************************************************************)
(* The lives of the trader: what a process leaves resting when it dies or  *)
(* halts, what the next one makes of it at startup                         *)
(* (optimize_startup_orders), and the halt (halt_all_trading with          *)
(* cancel_all_orders).  Each await of startup and halt is a step, between  *)
(* which the exchange goes on.  The orders of one market are followed;     *)
(* where a leftover order goes afterwards, and lost slots within one life, *)
(* are in QuoteOrders and LadderRisk.                                      *)
(***************************************************************************)
EXTENDS Integers, FiniteSets, FiniteSetsExt

CONSTANTS
    Sizes,         \* quote_size and extreme_quote_size
    MaxInventory,  \* max_inventory
    Listing,       \* orders that one answer of get_orders can hold
    MaxHeld,       \* bound: contracts held, either way
    MaxQuotes,     \* bound: requotes of all lives
    MaxRestarts,   \* bound
    MaxFaults      \* bound: requests that fail

Sides == {"bid", "ask"}
Sign(side) == IF side = "bid" THEN 1 ELSE -1
Abs(n) == IF n < 0 THEN -n ELSE n

ASSUME SizeAssumption == Sizes \subseteq Nat \ {0}
ASSUME LimitAssumption == {MaxInventory, Listing} \subseteq Nat
ASSUME BoundAssumption == {MaxHeld, MaxQuotes, MaxRestarts, MaxFaults} \subseteq Nat

VARIABLES
    \* the exchange
    held,      \* net contracts
    orders,    \* that rest: their requote, side, and contracts left
    \* the trader
    stage,     \* the await it stands at, "trading" in the event loop
    seen,      \* the position that startup read
    todo,      \* orders listed and not yet dealt with
    position,  \* as booked
    slot,      \* the requote whose order each side has an id of, or 0
    hit,       \* sides whose order traded and was not yet booked
    quotes,    \* requotes so far
    restarts,
    \* history
    own,       \* orders that this life placed
    missed,    \* orders that a failed or too short answer kept from this life
    faults,
    halted     \* some life stopped by itself

traderVars == <<position, slot, hit>>
vars == <<held, orders, stage, seen, todo, traderVars, quotes, restarts, own,
          missed, faults, halted>>

Key(o) == <<o.quote, o.side>>
Keys == {Key(o) : o \in orders}
Tracked == {<<slot[side], side>> : side \in {s \in Sides : slot[s] # 0}}
NoSlots == [side \in Sides |-> 0]

\* A request may fail as long as the bound lasts.
Faults(n) == faults + n <= MaxFaults /\ faults' = faults + n
-------------------------------------------------------------------------------
Fill ==
    /\ \E o \in orders : \E n \in 1 .. o.left :
         /\ Abs(held + Sign(o.side) * n) <= MaxHeld
         /\ held' = held + Sign(o.side) * n
         /\ orders' = (orders \ {o}) \cup
                (IF n = o.left THEN {} ELSE {[o EXCEPT !.left = @ - n]})
         /\ hit' = IF Key(o) \in Tracked THEN hit \cup {o.side} ELSE hit
    /\ UNCHANGED <<stage, seen, todo, position, slot, quotes, restarts, own, missed,
                   faults, halted>>

\* A new process.  Nothing is remembered.
NewLife ==
    /\ restarts < MaxRestarts
    /\ restarts' = restarts + 1
    /\ stage' = "positions"
    /\ seen' = 0
    /\ todo' = {}
    /\ position' = 0
    /\ slot' = NoSlots
    /\ hit' = {}
    /\ own' = {}
    /\ missed' = {}
    /\ UNCHANGED <<held, orders, quotes, faults, halted>>

\* After a crash or a deployment.
Restart == stage # "stopped" /\ NewLife

\* Its container brings back a process that ended, "unless-stopped" by hand.
Relaunch == stage = "stopped" /\ NewLife
-------------------------------------------------------------------------------
\* optimize_startup_orders.

\* order_reduces_position: by the direction of the order alone.
ReducesAnything(side, p) == p # 0
Reduces(side, p) == Sign(side) * p < 0

ReadPositions ==
    /\ stage = "positions"
    /\ stage' = "orders"
    /\ seen' = held
    /\ UNCHANGED <<held, orders, todo, traderVars, quotes, restarts, own, missed, faults, halted>>

\* One answer, which is not paged.
Listed(next) ==
    \E answer \in SUBSET Keys :
      /\ Cardinality(answer) = Min({Listing, Cardinality(orders)})
      /\ todo' = answer
      /\ missed' = Keys \ answer
      /\ stage' = next
      /\ UNCHANGED <<held, orders, seen, traderVars, quotes, restarts, own, faults, halted>>

ListOrders == stage = "orders" /\ Listed("hygiene")

\* Either answer fails: startup goes on without a look at the orders.
StartupReadFails ==
    /\ stage \in {"positions", "orders"}
    /\ stage' = "hygiene"
    /\ Faults(1)
    /\ missed' = Keys
    /\ UNCHANGED <<held, orders, seen, todo, traderVars, quotes, restarts, own, halted>>

\* A cancel of k: the order is gone, or the error is ignored.
Cancel(k) ==
    \/ /\ orders' = {o \in orders : Key(o) # k}
       /\ UNCHANGED <<missed, faults>>
    \/ /\ Faults(1)
       /\ missed' = missed \cup {k}
       /\ UNCHANGED orders

TidyOrder ==
    /\ stage = "hygiene"
    /\ \E k \in todo :
         /\ todo' = todo \ {k}
         /\ IF Reduces(k[2], seen) THEN UNCHANGED <<orders, missed, faults>> ELSE Cancel(k)
    /\ UNCHANGED <<held, stage, seen, traderVars, quotes, restarts, own, halted>>

\* The rest of startup, with a first sync of the position, which may fail.
StartTrading ==
    /\ stage = "hygiene"
    /\ todo = {}
    /\ stage' = "trading"
    /\ \/ position' = held /\ UNCHANGED faults
       \/ Faults(1) /\ UNCHANGED position
    /\ UNCHANGED <<held, orders, seen, todo, slot, hit, quotes, restarts, own, missed, halted>>
-------------------------------------------------------------------------------
\* Trading.

\* The fills poll, or the sync, brings the position up to date; a fill releases
\* its slot.
Poll ==
    /\ stage = "trading"
    /\ position # held \/ hit # {}
    /\ position' = held
    /\ slot' = [side \in Sides |-> IF side \in hit THEN 0 ELSE slot[side]]
    /\ hit' = {}
    /\ UNCHANGED <<held, orders, stage, seen, todo, quotes, restarts, own, missed,
                   faults, halted>>

\* plan_quotes and apply_quote_plan: of each side a cancel may fail, and a
\* placement be refused, or accepted with its answer lost.
Requote ==
    /\ stage = "trading"
    /\ quotes < MaxQuotes
    /\ quotes' = quotes + 1
    /\ \E size \in [Sides -> Sizes] :
       \E placed, lost \in SUBSET {s \in Sides : Abs(position + Sign(s) * size[s]) <= MaxInventory},
          kept \in SUBSET (Tracked \cap Keys) :
         /\ placed \cap lost = {}
         /\ Faults(Cardinality(kept) + Cardinality(lost))
         /\ orders' = {o \in orders : Key(o) \in kept \/ Key(o) \notin Tracked} \cup
                {[quote |-> quotes + 1, side |-> s, left |-> size[s]] : s \in placed \cup lost}
         /\ own' = own \cup {<<quotes + 1, s>> : s \in placed \cup lost}
         /\ slot' = [s \in Sides |-> IF s \in placed THEN quotes + 1 ELSE 0]
    /\ hit' = {}
    /\ UNCHANGED <<held, stage, seen, todo, position, restarts, missed, halted>>
-------------------------------------------------------------------------------
\* halt_all_trading: the loop is told to stop, then cancel_all_orders.

Halt ==
    /\ stage = "trading"
    /\ stage' = "halting"
    /\ UNCHANGED <<held, orders, seen, todo, traderVars, quotes, restarts, own, missed,
                   faults, halted>>

\* Only what the slots know is cancelled.
HaltListsOwn ==
    /\ stage = "halting"
    /\ todo' = Tracked
    /\ missed' = {}
    /\ stage' = "cancelling"
    /\ UNCHANGED <<held, orders, seen, traderVars, quotes, restarts, own, faults, halted>>

HaltLists == stage = "halting" /\ Listed("cancelling")

HaltListFails ==
    /\ stage = "halting"
    /\ stage' = "cancelling"
    /\ Faults(1)
    /\ missed' = Keys
    /\ UNCHANGED <<held, orders, seen, todo, traderVars, quotes, restarts, own, halted>>

CancelOrder ==
    /\ stage = "cancelling"
    /\ \E k \in todo : todo' = todo \ {k} /\ Cancel(k)
    /\ UNCHANGED <<held, stage, seen, traderVars, quotes, restarts, own, halted>>

\* The loop ends, and with it the process.
Stop ==
    /\ stage = "cancelling"
    /\ todo = {}
    /\ stage' = "stopped"
    /\ halted' = TRUE
    /\ UNCHANGED <<held, orders, seen, todo, traderVars, quotes, restarts, own, missed, faults>>
-------------------------------------------------------------------------------
\* The first start, of an account without orders.
Init ==
    /\ held = 0
    /\ orders = {}
    /\ stage = "positions"
    /\ seen = 0
    /\ todo = {}
    /\ position = 0
    /\ slot = NoSlots
    /\ hit = {}
    /\ quotes = 0
    /\ restarts = 0
    /\ own = {}
    /\ missed = {}
    /\ faults = 0
    /\ halted = FALSE

Next ==
    \/ Fill \/ Restart \/ Relaunch
    \/ ReadPositions \/ ListOrders \/ StartupReadFails \/ TidyOrder \/ StartTrading
    \/ Poll \/ Requote
    \/ Halt \/ HaltLists \/ HaltListFails \/ CancelOrder \/ Stop

Spec == Init /\ [][Next]_vars
-------------------------------------------------------------------------------
AllKeys == (1 .. quotes) \X Sides

\* Every variable keeps to its type, every key to the requotes that were made.
TypeOK ==
    /\ held \in -MaxHeld .. MaxHeld
    /\ orders \subseteq [quote : 1 .. quotes, side : Sides, left : Nat \ {0}]
    /\ stage \in {"positions", "orders", "hygiene", "trading", "halting", "cancelling", "stopped"}
    /\ seen \in Int /\ position \in Int
    /\ {todo, own, missed} \subseteq SUBSET AllKeys
    /\ slot \in [Sides -> 0 .. quotes]
    /\ hit \subseteq Sides
    /\ quotes \in 0 .. MaxQuotes /\ restarts \in 0 .. MaxRestarts
    /\ faults \in 0 .. MaxFaults /\ halted \in BOOLEAN

\* What a life inherits: "Cancel orders that ADD to positions" (main.rs:327).
\* Whatever traded during startup, once it is through no order of an earlier
\* life rests that could have added to the position it read, unless a request
\* failed or the listing was too short; in a flat account none is left at all.
Inherited == {o \in orders : Key(o) \notin own}
LeftoversUnwind ==
    stage = "trading" =>
      \A o \in Inherited : Key(o) \in missed \/ Sign(o.side) * seen < 0

\* "keep profit-taking orders", whose first classifier "canceled every
\* position-reducing order at startup" (main.rs:328, 1386-1387): an order that
\* reduced the position from the moment startup read it is there afterwards.
UnwindsSurvive ==
    [][stage = "hygiene" /\ UNCHANGED held =>
         \A o \in orders : Sign(o.side) * seen < 0 => Key(o) \in {Key(p) : p \in orders'}]_vars

\* A halt leaves no order behind, of this life or an earlier one, in a slot or
\* not, but those of a failed cancel or beyond the listing ("cancel all orders,
\* stop", engine.rs:413-414).
HaltClears == stage = "stopped" => \A o \in orders : Key(o) \in missed
-------------------------------------------------------------------------------
\* Statements of the repository's comments that the code does not keep.

\* "Cancel orders that ADD to positions, keep profit-taking orders"
\* (main.rs:327): with every request answered, the orders that startup keeps
\* only take profit, also when all of them fill.
KeptOrdersOnlyReduce ==
    stage = "hygiene" /\ todo = {} /\ missed = {} =>
      LET contracts(o) == Sign(o.side) * o.left
      IN  held * (held + MapThenSumSet(contracts, orders)) >= 0

\* "the trader must halt entirely (cancel all orders, stop)" (engine.rs:413-414):
\* after a halt no life trades.
HaltHolds == halted => stage # "trading"
===============================================================================
