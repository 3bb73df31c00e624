------------------------------ MODULE LadderRisk ------------------------------
(***************************************************************************)
(* How far the inventory cap and the ladder's tail cap hold, when orders   *)
(* fill between two polls, are partly filled, or slip out of the trader's  *)
(* hands.  The quotes of one market are followed, by contracts; the other  *)
(* markets of its ladder hold what they like.  Positions are those the     *)
(* fills make: exits and syncs are in ExitOrders and PositionKeeping.      *)
(***************************************************************************)
EXTENDS Integers, FiniteSets, Functions

CONSTANTS
    Others,        \* the other markets of the ladder
    Holdings,      \* what they may hold
    Marks,         \* live mids, in parts of a dollar
    Dollar,        \* the parts of a dollar
    Sizes,         \* quote_size and extreme_quote_size
    MaxInventory,  \* max_inventory
    TailCap,       \* max_ladder_tail_loss
    MaxPlans,      \* plans that the throttle lets through between two polls that
                   \* succeed: any number, the more the longer polls fail
    MaxFaults,     \* bound: requests that fail
    MaxParts       \* bound: contracts left astray, up to which orders fill in part

Sides == {"bid", "ask"}
Sign(side) == IF side = "bid" THEN 1 ELSE -1

ASSUME MarkAssumption == Dollar \in Nat /\ Marks \subseteq 0 .. Dollar
ASSUME HoldingAssumption == Holdings \subseteq Int /\ 0 \in Holdings
ASSUME SizeAssumption == Sizes \subseteq Nat \ {0} /\ \E n \in Sizes : \A m \in Sizes : m <= n
ASSUME CapAssumption == {MaxInventory, TailCap, MaxPlans, MaxFaults, MaxParts} \subseteq Nat

VARIABLES
    \* the exchange
    rest,      \* contracts left of the order behind each slot
    stray,     \* contracts left of orders no slot knows
    mine,      \* unbooked contracts of the order behind each slot
    older,     \* unbooked contracts of other orders, net
    \* the trader
    position,
    slot,      \* the sides with an order id
    entry,     \* position and mark of each market of the ladder but this one
    mark,      \* of this one
    \* bounds and history
    plans,     \* since the last poll
    faults,
    loose,     \* contracts that ever went astray, by side
    over       \* contracts traded on a side since its tail loss is at the cap

marketVars == <<entry, mark>>
vars == <<rest, stray, mine, older, position, slot, marketVars, plans, faults, loose, over>>

Nothing == [side \in Sides |-> 0]
MaxSize == CHOOSE n \in Sizes : \A m \in Sizes : m <= n
-------------------------------------------------------------------------------
\* tail_losses: all of the ladder settling yes, or all of it no.
UpLoss(p, m, es) ==
    -(p * (Dollar - m) + SumFunction([t \in Others |-> es[t].held * (Dollar - es[t].mark)]))
DownLoss(p, m, es) == p * m + SumFunction([t \in Others |-> es[t].held * es[t].mark])

\* ladder_tail_gate: the sides whose tail has reached the cap; a cap of zero is
\* none.
Closed(p, m, es) ==
    {side \in Sides : TailCap > 0 /\
       (IF side = "bid" THEN DownLoss(p, m, es) ELSE UpLoss(p, m, es)) >= TailCap}

\* The account of what is traded past the cap starts over when the loss falls
\* below it.
Counted(traded) ==
    over' = [side \in Sides |->
               IF side \in Closed(position', mark', entry') THEN over[side] + traded[side] ELSE 0]
-------------------------------------------------------------------------------
\* The exchange.

Fill ==
    \E side \in Sides : \E n \in 1 .. rest[side] :
      /\ n < rest[side] => loose[side] < MaxParts
      /\ rest' = [rest EXCEPT ![side] = @ - n]
      /\ mine' = [mine EXCEPT ![side] = @ + n]
      /\ UNCHANGED <<stray, older, position, slot, marketVars, plans, faults, loose>>
      /\ Counted([Nothing EXCEPT ![side] = n])

StrayFill ==
    \E side \in Sides :
      /\ stray[side] > 0
      /\ stray' = [stray EXCEPT ![side] = @ - 1]
      /\ older' = older + Sign(side)
      /\ UNCHANGED <<rest, mine, position, slot, marketVars, plans, faults, loose>>
      /\ Counted([Nothing EXCEPT ![side] = 1])

\* Mids move, and so do the other markets' positions.
LadderMoves ==
    /\ \/ mark' \in Marks /\ UNCHANGED entry
       \/ /\ entry' \in [Others -> [held : Holdings, mark : Marks]]
          /\ UNCHANGED mark
    /\ UNCHANGED <<rest, stray, mine, older, position, slot, plans, faults, loose>>
    /\ Counted(Nothing)
-------------------------------------------------------------------------------
\* The trader.

\* Contracts a request left behind: an order that still rests with no slot.
GoAstray(left) ==
    /\ stray' = [side \in Sides |-> stray[side] + left[side]]
    /\ loose' = [side \in Sides |-> loose[side] + left[side]]

\* The fills poll.  A fill of the order behind a slot releases the slot, though
\* a partly filled order goes on resting.
Poll ==
    LET hit == {side \in Sides : mine[side] > 0} IN
    /\ mine["bid"] # 0 \/ mine["ask"] # 0 \/ older # 0 \/ plans # 0
    /\ position' = position + mine["bid"] - mine["ask"] + older
    /\ slot' = slot \ hit
    /\ GoAstray([side \in Sides |-> IF side \in hit THEN rest[side] ELSE 0])
    /\ rest' = [side \in Sides |-> IF side \in hit THEN 0 ELSE rest[side]]
    /\ mine' = Nothing
    /\ older' = 0
    /\ plans' = 0
    /\ UNCHANGED <<marketVars, faults>>
    /\ Counted(Nothing)

\* The sides a plan may place: the inventory cap and the tail gate.
PlaceableBefore(size) ==
    {side \in Sides \ Closed(position, mark, entry) :
       position <= MaxInventory /\ -position <= MaxInventory}
PlaceableUngated(size) ==
    {side \in Sides :
       LET after == position + Sign(side) * size[side] IN
       after <= MaxInventory /\ -after <= MaxInventory}
Placeable(size) ==
    {side \in Sides \ Closed(position, mark, entry) :
       LET after == position + Sign(side) * size[side] IN
       after <= MaxInventory /\ -after <= MaxInventory}

\* apply_quote_plan: cancel what the slots know, place the new orders.  A
\* cancel may fail while its order rests, a placement may be rejected, or may
\* arrive with its answer lost.
Requote ==
    /\ plans < MaxPlans
    /\ plans' = plans + 1
    /\ \E size \in [Sides -> Sizes], kept \in SUBSET {side \in slot : rest[side] > 0} :
       \E placed, lost \in SUBSET Placeable(size) :
         /\ placed \cap lost = {}
         /\ faults + Cardinality(kept) + Cardinality(lost) <= MaxFaults
         /\ faults' = faults + Cardinality(kept) + Cardinality(lost)
         /\ slot' = placed
         /\ rest' = [side \in Sides |-> IF side \in placed THEN size[side] ELSE 0]
         /\ GoAstray([side \in Sides |-> (IF side \in kept THEN rest[side] ELSE 0)
                                         + (IF side \in lost THEN size[side] ELSE 0)])
    /\ older' = older + mine["bid"] - mine["ask"]
    /\ mine' = Nothing
    /\ UNCHANGED <<position, marketVars>>
    /\ Counted(Nothing)

\* A plan that leaves the orders alone: neither quote moved by a tick, or there
\* is nothing to quote.
LeaveQuotesUnthrottled ==
    /\ plans' = plans + 1
    /\ UNCHANGED <<rest, stray, mine, older, position, slot, marketVars, faults, loose, over>>
LeaveQuotes ==
    /\ plans < MaxPlans
    /\ plans' = plans + 1
    /\ UNCHANGED <<rest, stray, mine, older, position, slot, marketVars, faults, loose, over>>
-------------------------------------------------------------------------------
Init ==
    /\ rest = Nothing
    /\ stray = Nothing
    /\ mine = Nothing
    /\ older = 0
    /\ position = 0
    /\ slot = {}
    /\ entry \in [Others -> [held : {0}, mark : Marks]]
    /\ mark \in Marks
    /\ plans = 0
    /\ faults = 0
    /\ loose = Nothing
    /\ over = Nothing

Next == Fill \/ StrayFill \/ LadderMoves \/ Poll \/ Requote \/ LeaveQuotes

Spec == Init /\ [][Next]_vars
-------------------------------------------------------------------------------
\* Every variable keeps to its type.
TypeOK ==
    /\ rest \in [Sides -> 0 .. MaxSize]
    /\ {stray, loose, over} \subseteq [Sides -> Nat]
    /\ mine \in [Sides -> 0 .. MaxSize]
    /\ older \in Int
    /\ position \in Int
    /\ slot \in SUBSET Sides
    /\ entry \in [Others -> [held : Holdings, mark : Marks]]
    /\ mark \in Marks
    /\ plans \in 0 .. MaxPlans
    /\ faults \in 0 .. MaxFaults

\* What the account would hold on a side if all that rests there filled.
Net == position + mine["bid"] - mine["ask"] + older
Reach(side) == Sign(side) * Net + rest[side] + stray[side]

\* The inventory cap is checked against booked fills, so that each plan between
\* two polls may add its size to it once more, and so may orders that went
\* astray; beyond that the exchange never holds, nor can come to hold, more.
InventoryIsBounded ==
    \A side \in Sides : Reach(side) <= MaxInventory + MaxPlans * MaxSize + loose[side]

\* "Suppressing a side stops ADDING exposure in the direction whose worst-case
\* ladder loss already reached the cap" (main.rs:710-713), but for the order
\* that rested when it was reached, and orders that went astray.
TailIsBounded ==
    \A side \in Sides : over[side] <= MaxSize + loose[side]

\* The same, taken by its word: a plan made with a side suppressed leaves no
\* order of its market on that side.
SuppressedSideIsPulled ==
    [][plans' > plans =>
         \A side \in Closed(position, mark, entry) : side \in slot' => rest'[side] = 0]_vars
===============================================================================
