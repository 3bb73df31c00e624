----------------------------- MODULE LadderProofs -----------------------------
(***************************************************************************)
(* The two caps of LadderRisk, proved for every size, cap, ladder and      *)
(* number of plans between two polls.                                      *)
(***************************************************************************)
EXTENDS LadderRisk, FiniteSetTheorems, TLAPS

USE SizeAssumption, CapAssumption, HoldingAssumption, MarkAssumption

\* No order is larger than the largest size.
LEMMA Largest == MaxSize \in Nat /\ \A n \in Sizes : n \in Nat /\ n <= MaxSize
  BY DEF MaxSize

LEMMA LargestOf ==
    ASSUME NEW n \in Sizes
    PROVE  n \in Nat /\ n \in 0 .. MaxSize
  BY Largest

LEMMA SizesAreSmall ==
    ASSUME NEW size \in [Sides -> Sizes], NEW side \in Sides
    PROVE  size[side] \in 0 .. MaxSize /\ size[side] \in Nat
<1>1. size[side] \in Sizes
  OBVIOUS
<1> QED
  BY <1>1, LargestOf

LEMMA Signs ==
    ASSUME NEW side \in Sides, NEW n \in Int
    PROVE  Sign(side) * n = IF side = "bid" THEN n ELSE -n
<1>1. CASE side = "bid"
  BY <1>1 DEF Sign
<1>2. CASE side = "ask"
  BY <1>2 DEF Sign
<1> QED
  BY <1>1, <1>2 DEF Sides

\* Another plan adds one size, and the last one still fits.
LEMMA OneMore ==
    ASSUME NEW k \in Nat
    PROVE  /\ k * MaxSize \in Nat
           /\ MaxPlans * MaxSize \in Nat
           /\ (k + 1) * MaxSize = k * MaxSize + MaxSize
           /\ k < MaxPlans => (k + 1) * MaxSize <= MaxPlans * MaxSize
<1> DEFINE M == MaxSize
<1>1. M \in Nat
  BY Largest
<1> HIDE DEF M
<1>2. /\ k * M \in Nat /\ MaxPlans * M \in Nat
      /\ (k + 1) * M = k * M + M
  BY <1>1
<1>3. ASSUME k < MaxPlans PROVE (k + 1) * M <= MaxPlans * M
  BY <1>1, <1>3
<1> QED
  BY <1>2, <1>3 DEF M
-------------------------------------------------------------------------------
\* Every variable keeps to its type: no order, whether it rests, fills or waits
\* to be booked, is larger than the largest size, and what is astray went astray.
Sized ==
    \A side \in Sides :
      rest[side] + mine[side] <= MaxSize /\ stray[side] <= loose[side]

LEMMA SizedInit == Init => TypeOK /\ Sized
<1> SUFFICES ASSUME Init PROVE TypeOK /\ Sized
  OBVIOUS
<1>1. TypeOK
  BY Largest DEF Init, TypeOK, Nothing
<1>2. Sized
  BY Largest DEF Init, Sized, Nothing
<1> QED
  BY <1>1, <1>2

\* The account of what is traded past the cap, from what a step trades.
LEMMA CountedType ==
    ASSUME TypeOK, NEW traded \in [Sides -> Nat], Counted(traded)
    PROVE  /\ over' \in [Sides -> Nat]
           /\ \A side \in Sides :
                \/ over'[side] = 0
                \/ /\ side \in Closed(position', mark', entry')
                   /\ over'[side] = over[side] + traded[side]
  BY DEF TypeOK, Counted

LEMMA FillSized ==
    ASSUME TypeOK, Sized, NEW side \in Sides, NEW n \in 1 .. rest[side],
           rest' = [rest EXCEPT ![side] = @ - n],
           mine' = [mine EXCEPT ![side] = @ + n],
           UNCHANGED <<stray, loose>>
    PROVE  /\ rest' \in [Sides -> 0 .. MaxSize]
           /\ mine' \in [Sides -> 0 .. MaxSize]
           /\ Sized'
<1>1. /\ rest[side] \in 0 .. MaxSize /\ mine[side] \in 0 .. MaxSize
      /\ rest[side] + mine[side] <= MaxSize
  BY DEF TypeOK, Sized
<1>2. rest[side] - n \in 0 .. MaxSize /\ mine[side] + n \in 0 .. MaxSize
  BY <1>1, Largest
<1>3. rest' \in [Sides -> 0 .. MaxSize] /\ mine' \in [Sides -> 0 .. MaxSize]
  BY <1>2 DEF TypeOK
<1>4. ASSUME NEW s \in Sides PROVE rest'[s] + mine'[s] <= MaxSize /\ stray'[s] <= loose'[s]
  <2>1. CASE s = side
    BY <1>1, <2>1, Largest DEF TypeOK, Sized
  <2>2. CASE s # side
    BY <2>2 DEF TypeOK, Sized
  <2> QED
    BY <2>1, <2>2
<1> QED
  BY <1>3, <1>4 DEF Sized

\* What a request leaves behind goes astray and stays on the account of it.
LEMMA AstrayType ==
    ASSUME TypeOK, Sized, NEW left \in [Sides -> Nat], GoAstray(left)
    PROVE  /\ stray' \in [Sides -> Nat] /\ loose' \in [Sides -> Nat]
           /\ \A side \in Sides : /\ stray'[side] = stray[side] + left[side]
                                  /\ loose'[side] = loose[side] + left[side]
                                  /\ stray'[side] <= loose'[side]
  BY DEF TypeOK, Sized, GoAstray

\* Faults of a requote are counted: there are finitely many sides.
LEMMA FewSides ==
    ASSUME NEW some \in SUBSET Sides
    PROVE  Cardinality(some) \in Nat
<1>1. IsFiniteSet(Sides)
  <2>1. IsFiniteSet({"bid"})
    BY FS_Singleton
  <2>2. IsFiniteSet({"bid"} \cup {"ask"})
    BY <2>1, FS_AddElement
  <2>3. {"bid"} \cup {"ask"} = Sides
    BY DEF Sides
  <2> QED
    BY <2>2, <2>3
<1> QED
  BY <1>1, FS_Subset, FS_CardinalityType

\* What a requote leaves behind, and what it does to orders and slots.
Left(size, kept, lost) ==
    [side \in Sides |-> (IF side \in kept THEN rest[side] ELSE 0)
                       + (IF side \in lost THEN size[side] ELSE 0)]
Replaced(size, kept, placed, lost) ==
    /\ faults + Cardinality(kept) + Cardinality(lost) <= MaxFaults
    /\ faults' = faults + Cardinality(kept) + Cardinality(lost)
    /\ slot' = placed
    /\ rest' = [side \in Sides |-> IF side \in placed THEN size[side] ELSE 0]
    /\ GoAstray(Left(size, kept, lost))

LEMMA RequoteChoice ==
    ASSUME TypeOK, Requote
    PROVE  \E size \in [Sides -> Sizes], kept \in SUBSET Sides :
             \E placed \in SUBSET Placeable(size), lost \in SUBSET Placeable(size) :
               /\ Replaced(size, kept, placed, lost)
               /\ Left(size, kept, lost) \in [Sides -> Nat]
<1>1. PICK size \in [Sides -> Sizes], kept \in SUBSET {side \in slot : rest[side] > 0} :
        \E placed, lost \in SUBSET Placeable(size) : Replaced(size, kept, placed, lost)
  BY DEF Requote, Replaced, Left
<1>2. PICK placed \in SUBSET Placeable(size), lost \in SUBSET Placeable(size) :
        Replaced(size, kept, placed, lost)
  BY <1>1
<1>3. kept \in SUBSET Sides
  BY DEF TypeOK
<1>4. \A side \in Sides : rest[side] \in Nat /\ size[side] \in Nat
  BY SizesAreSmall, Largest DEF TypeOK
<1>5. \A side \in Sides : (IF side \in kept THEN rest[side] ELSE 0)
                          + (IF side \in lost THEN size[side] ELSE 0) \in Nat
  BY <1>4
<1>6. Left(size, kept, lost) \in [Sides -> Nat]
  BY <1>5 DEF Left
<1> QED
  BY <1>2, <1>3, <1>6

LEMMA RequoteSized ==
    ASSUME TypeOK, Sized, Requote
    PROVE  TypeOK' /\ Sized'
<1>1. PICK size \in [Sides -> Sizes], kept \in SUBSET Sides :
        \E placed \in SUBSET Placeable(size), lost \in SUBSET Placeable(size) :
          Replaced(size, kept, placed, lost) /\ Left(size, kept, lost) \in [Sides -> Nat]
  BY RequoteChoice
<1>2. PICK placed \in SUBSET Placeable(size), lost \in SUBSET Placeable(size) :
        Replaced(size, kept, placed, lost) /\ Left(size, kept, lost) \in [Sides -> Nat]
  BY <1>1
<1>3. /\ lost \in SUBSET Sides /\ placed \in SUBSET Sides
      /\ \A side \in Sides : size[side] \in 0 .. MaxSize
  <2>1. Placeable(size) \in SUBSET Sides
    BY DEF Placeable
  <2>2. \A side \in Sides : size[side] \in 0 .. MaxSize
    BY SizesAreSmall
  <2> QED
    BY <2>1, <2>2
<1>4. /\ stray' \in [Sides -> Nat] /\ loose' \in [Sides -> Nat]
      /\ \A side \in Sides : stray'[side] <= loose'[side]
  BY <1>2, AstrayType DEF Replaced
<1>5. rest' \in [Sides -> 0 .. MaxSize] /\ mine' = Nothing
  BY <1>2, <1>3, Largest DEF Requote, Replaced
<1>6. Nothing \in [Sides -> 0 .. MaxSize] /\ Nothing \in [Sides -> Nat]
  BY Largest DEF Nothing
<1>7. over' \in [Sides -> Nat]
  BY <1>6, CountedType DEF Requote
<1>8. faults' \in 0 .. MaxFaults /\ plans' \in 0 .. MaxPlans
  BY <1>2, <1>3, FewSides DEF Requote, Replaced, TypeOK
<1>9. older' \in Int
  <2>1. mine["bid"] \in Int /\ mine["ask"] \in Int /\ older \in Int
    BY Largest DEF TypeOK, Sides
  <2> QED
    BY <2>1 DEF Requote
<1>10. TypeOK'
  BY <1>2, <1>3, <1>4, <1>5, <1>6, <1>7, <1>8, <1>9 DEF TypeOK, Requote, Replaced, marketVars
<1>11. Sized'
  BY <1>4, <1>5, Largest DEF Sized, Nothing
<1> QED
  BY <1>10, <1>11

LEMMA PollSized ==
    ASSUME TypeOK, Sized, Poll
    PROVE  TypeOK' /\ Sized'
<1> DEFINE hit == {side \in Sides : mine[side] > 0}
           left == [side \in Sides |-> IF side \in hit THEN rest[side] ELSE 0]
<1>1. left \in [Sides -> Nat] /\ GoAstray(left)
  BY Largest DEF TypeOK, Poll
<1>2. /\ stray' \in [Sides -> Nat] /\ loose' \in [Sides -> Nat]
      /\ \A side \in Sides : stray'[side] <= loose'[side]
  BY <1>1, AstrayType
<1>3. rest' \in [Sides -> 0 .. MaxSize] /\ mine' = Nothing
  BY Largest DEF Poll, TypeOK
<1>4. Nothing \in [Sides -> 0 .. MaxSize] /\ Nothing \in [Sides -> Nat]
  BY Largest DEF Nothing
<1>5. over' \in [Sides -> Nat]
  BY <1>4, CountedType DEF Poll
<1>6. position' \in Int /\ older' \in Int
  <2>1. mine["bid"] \in Int /\ mine["ask"] \in Int /\ older \in Int /\ position \in Int
    BY Largest DEF TypeOK, Sides
  <2> QED
    BY <2>1 DEF Poll
<1>7. TypeOK'
  BY <1>2, <1>3, <1>4, <1>5, <1>6 DEF TypeOK, Poll, marketVars
<1>8. Sized'
  BY <1>2, <1>3, Largest DEF Sized, Nothing
<1> QED
  BY <1>7, <1>8
LEMMA SizedStep ==
    ASSUME TypeOK, Sized, [Next]_vars
    PROVE  TypeOK' /\ Sized'
<1>0. Nothing \in [Sides -> Nat]
  BY DEF Nothing
<1>1. CASE Fill
  <2>1. PICK side \in Sides : \E n \in 1 .. rest[side] :
          /\ rest' = [rest EXCEPT ![side] = @ - n]
          /\ mine' = [mine EXCEPT ![side] = @ + n]
          /\ UNCHANGED <<stray, older, position, slot, marketVars, plans, faults, loose>>
          /\ Counted([Nothing EXCEPT ![side] = n])
    BY <1>1 DEF Fill
  <2>2. PICK n \in 1 .. rest[side] :
          /\ rest' = [rest EXCEPT ![side] = @ - n]
          /\ mine' = [mine EXCEPT ![side] = @ + n]
          /\ UNCHANGED <<stray, older, position, slot, marketVars, plans, faults, loose>>
          /\ Counted([Nothing EXCEPT ![side] = n])
    BY <2>1
  <2>3. rest' \in [Sides -> 0 .. MaxSize] /\ mine' \in [Sides -> 0 .. MaxSize] /\ Sized'
    BY <2>2, FillSized
  <2>4. [Nothing EXCEPT ![side] = n] \in [Sides -> Nat]
    BY <1>0 DEF TypeOK
  <2>5. over' \in [Sides -> Nat]
    BY <2>2, <2>4, CountedType
  <2> QED
    BY <2>2, <2>3, <2>5 DEF TypeOK, marketVars
<1>2. CASE StrayFill
  <2>1. PICK side \in Sides :
          /\ stray[side] > 0
          /\ stray' = [stray EXCEPT ![side] = @ - 1]
          /\ older' = older + Sign(side)
          /\ Counted([Nothing EXCEPT ![side] = 1])
    BY <1>2 DEF StrayFill
  <2>2. [Nothing EXCEPT ![side] = 1] \in [Sides -> Nat]
    BY <1>0
  <2>3. over' \in [Sides -> Nat]
    BY <2>1, <2>2, CountedType
  <2>4. stray' \in [Sides -> Nat] /\ older' \in Int
    BY <2>1 DEF TypeOK, Sign
  <2>5. TypeOK'
    BY <1>2, <2>3, <2>4 DEF TypeOK, StrayFill, marketVars
  <2>6. Sized'
    BY <1>2, <2>1 DEF TypeOK, Sized, StrayFill
  <2> QED
    BY <2>5, <2>6
<1>3. CASE LadderMoves
  <2>1. over' \in [Sides -> Nat]
    BY <1>0, <1>3, CountedType DEF LadderMoves
  <2>2. TypeOK'
    BY <1>3, <2>1 DEF TypeOK, LadderMoves
  <2>3. Sized'
    BY <1>3 DEF Sized, LadderMoves
  <2> QED
    BY <2>2, <2>3
<1>4. CASE Poll
  BY <1>4, PollSized
<1>5. CASE Requote
  BY <1>5, RequoteSized
<1>6. CASE LeaveQuotes
  BY <1>6 DEF TypeOK, Sized, LeaveQuotes, marketVars
<1>7. CASE UNCHANGED vars
  BY <1>7 DEF TypeOK, Sized, vars, marketVars
<1> QED
  BY <1>1, <1>2, <1>3, <1>4, <1>5, <1>6, <1>7 DEF Next

\* Every variable keeps to its type whatever fills, moves and requotes.
THEOREM LadderTypes == Spec => []TypeOK
<1>1. Init => TypeOK /\ Sized
  BY SizedInit
<1>2. TypeOK /\ Sized /\ [Next]_vars => TypeOK' /\ Sized'
  BY SizedStep
<1> QED
  BY <1>1, <1>2, PTL DEF Spec
-------------------------------------------------------------------------------
\* The inventory.  A plan is checked against booked fills: it may add a size to
\* whatever was filled since the last poll, or went astray.
Toward(side, n) == IF side = "bid" THEN n ELSE 0 - n
Unbooked == mine["bid"] - mine["ask"] + older

\* Since the last poll no more can have filled, or fill, than the order that
\* rested then, one size for each plan since, and what went astray.
UnbookedIsBounded ==
    \A side \in Sides :
      Toward(side, Unbooked) + rest[side] + stray[side] <= (plans + 1) * MaxSize + loose[side]
NetIsBounded ==
    \A side \in Sides :
      Toward(side, position + Unbooked) + rest[side] + stray[side]
        <= MaxInventory + MaxPlans * MaxSize + loose[side]

BInv == TypeOK /\ Sized /\ UnbookedIsBounded /\ NetIsBounded

LEMMA Numbers ==
    ASSUME TypeOK, NEW side \in Sides
    PROVE  /\ mine["bid"] \in Nat /\ mine["ask"] \in Nat /\ older \in Int
           /\ Unbooked \in Int /\ position \in Int /\ plans \in Nat
           /\ rest[side] \in Nat /\ rest[side] <= MaxSize
           /\ stray[side] \in Nat /\ loose[side] \in Nat
           /\ MaxInventory \in Nat /\ MaxPlans \in Nat /\ MaxSize \in Nat
  BY Largest DEF TypeOK, Unbooked, Sides

LEMMA NetIsInventory == TypeOK => (NetIsBounded <=> InventoryIsBounded)
<1> SUFFICES ASSUME TypeOK, NEW side \in Sides
             PROVE  Reach(side)
                      = Toward(side, position + Unbooked) + rest[side] + stray[side]
  BY DEF NetIsBounded, InventoryIsBounded
<1>1. Net = position + Unbooked /\ Net \in Int
  BY Numbers DEF Net, Unbooked
<1> QED
  BY <1>1, Signs DEF Reach, Toward

LEMMA BoundedInit == Init => UnbookedIsBounded /\ NetIsBounded
<1> SUFFICES ASSUME Init, NEW side \in Sides
             PROVE  /\ Toward(side, Unbooked) + rest[side] + stray[side]
                         <= (plans + 1) * MaxSize + loose[side]
                    /\ Toward(side, position + Unbooked) + rest[side] + stray[side]
                         <= MaxInventory + MaxPlans * MaxSize + loose[side]
  BY DEF UnbookedIsBounded, NetIsBounded
<1>1. /\ Unbooked = 0 /\ position = 0 /\ plans = 0
      /\ rest[side] = 0 /\ stray[side] = 0 /\ loose[side] = 0
  BY DEF Init, Unbooked, Nothing, Sides
<1>2. Toward(side, Unbooked) = 0 /\ Toward(side, position + Unbooked) = 0
  BY <1>1 DEF Toward
<1>3. (plans + 1) * MaxSize = MaxSize /\ MaxSize \in Nat /\ MaxPlans * MaxSize \in Nat
  BY <1>1, Largest, OneMore
<1> QED
  BY <1>1, <1>2, <1>3

\* A fill only moves contracts from what rests to what is unbooked.
LEMMA FillMoves ==
    ASSUME BInv, TypeOK', Fill \/ StrayFill, NEW side \in Sides
    PROVE  /\ Toward(side, Unbooked') + rest'[side] + stray'[side]
                <= Toward(side, Unbooked) + rest[side] + stray[side]
           /\ position' = position /\ plans' = plans /\ loose' = loose
<1>1. CASE Fill
  <2>1. PICK s \in Sides : \E n \in 1 .. rest[s] :
          /\ rest' = [rest EXCEPT ![s] = @ - n]
          /\ mine' = [mine EXCEPT ![s] = @ + n]
          /\ UNCHANGED <<stray, older, position, plans, loose>>
    BY <1>1 DEF Fill
  <2>2. PICK n \in 1 .. rest[s] :
          /\ rest' = [rest EXCEPT ![s] = @ - n]
          /\ mine' = [mine EXCEPT ![s] = @ + n]
          /\ UNCHANGED <<stray, older, position, plans, loose>>
    BY <2>1
  <2>3. /\ n \in Nat /\ rest[side] \in Nat /\ stray[side] \in Nat
        /\ mine["bid"] \in Nat /\ mine["ask"] \in Nat /\ older \in Int
    BY Numbers DEF BInv
  <2>4. Unbooked' = Unbooked + Toward(s, n)
    BY <2>2, <2>3 DEF Unbooked, Toward, Sides, BInv, TypeOK
  <2>5. rest'[side] = IF side = s THEN rest[side] - n ELSE rest[side]
    BY <2>2 DEF BInv, TypeOK
  <2> QED
    BY <2>2, <2>3, <2>4, <2>5 DEF Toward, Sides, Unbooked
<1>2. CASE StrayFill
  <2>1. PICK s \in Sides :
          /\ stray[s] > 0
          /\ stray' = [stray EXCEPT ![s] = @ - 1]
          /\ older' = older + Sign(s)
          /\ UNCHANGED <<rest, mine, position, plans, loose>>
    BY <1>2 DEF StrayFill
  <2>2. /\ rest[side] \in Nat /\ stray[side] \in Nat
        /\ mine["bid"] \in Nat /\ mine["ask"] \in Nat /\ older \in Int
    BY Numbers DEF BInv
  <2>3. Unbooked' = Unbooked + Toward(s, 1)
    BY <2>1, <2>2 DEF Unbooked, Toward, Sign, Sides
  <2>4. stray'[side] = IF side = s THEN stray[side] - 1 ELSE stray[side]
    BY <2>1 DEF BInv, TypeOK
  <2> QED
    BY <2>1, <2>2, <2>3, <2>4 DEF Toward, Sides, Unbooked
<1> QED
  BY <1>1, <1>2

\* A poll books what is unbooked; what it leaves resting went astray.
LEMMA PollBooks ==
    ASSUME BInv, TypeOK', Sized', Poll, NEW side \in Sides
    PROVE  /\ Unbooked' = 0 /\ plans' = 0
           /\ position' = position + Unbooked
           /\ rest'[side] + stray'[side] - loose'[side]
                <= rest[side] + stray[side] - loose[side]
           /\ rest'[side] + stray'[side] <= MaxSize + loose'[side]
<1> DEFINE hit == {s \in Sides : mine[s] > 0}
           left == [s \in Sides |-> IF s \in hit THEN rest[s] ELSE 0]
<1>1. /\ rest[side] \in Nat /\ stray[side] \in Nat /\ loose[side] \in Nat /\ MaxSize \in Nat
      /\ mine["bid"] \in Nat /\ mine["ask"] \in Nat /\ older \in Int /\ position \in Int
  BY Numbers DEF BInv
<1>2. Unbooked' = 0 /\ plans' = 0
  BY DEF Poll, Unbooked, Nothing, Sides
<1>3. position' = position + Unbooked
  BY <1>1 DEF Poll, Unbooked
<1>4. /\ rest'[side] = IF side \in hit THEN 0 ELSE rest[side]
      /\ stray'[side] = stray[side] + left[side]
      /\ loose'[side] = loose[side] + left[side]
      /\ left[side] = IF side \in hit THEN rest[side] ELSE 0
  BY DEF Poll, GoAstray
<1>5. rest'[side] \in 0 .. MaxSize /\ stray'[side] <= loose'[side]
      /\ stray'[side] \in Nat /\ loose'[side] \in Nat
  BY DEF TypeOK, Sized
<1> QED
  BY <1>1, <1>2, <1>3, <1>4, <1>5
\* A requote counts as a plan, and replaces what the slot knows by at most one
\* size, which the inventory cap has let through.
LEMMA RequotePlans ==
    ASSUME BInv, TypeOK', Requote, NEW side \in Sides
    PROVE  /\ Unbooked' = Unbooked /\ position' = position
           /\ plans' = plans + 1 /\ plans < MaxPlans
           /\ stray'[side] - loose'[side] = stray[side] - loose[side]
           /\ \/ rest'[side] = 0
              \/ /\ side \notin Closed(position, mark, entry)
                 /\ Toward(side, position) + rest'[side] <= MaxInventory
<1>1. PICK size \in [Sides -> Sizes], kept \in SUBSET Sides :
        \E placed \in SUBSET Placeable(size), lost \in SUBSET Placeable(size) :
          Replaced(size, kept, placed, lost) /\ Left(size, kept, lost) \in [Sides -> Nat]
  BY RequoteChoice DEF BInv
<1>2. PICK placed \in SUBSET Placeable(size), lost \in SUBSET Placeable(size) :
        Replaced(size, kept, placed, lost) /\ Left(size, kept, lost) \in [Sides -> Nat]
  BY <1>1
<1>3. /\ mine["bid"] \in Nat /\ mine["ask"] \in Nat /\ older \in Int /\ position \in Int
      /\ stray[side] \in Nat /\ loose[side] \in Nat /\ size[side] \in Nat
      /\ MaxInventory \in Nat
  BY Numbers, SizesAreSmall DEF BInv
<1>4. Unbooked' = Unbooked
  <2>1. /\ mine'["bid"] = 0 /\ mine'["ask"] = 0
        /\ older' = older + mine["bid"] - mine["ask"]
    BY DEF Requote, Nothing, Sides
  <2> QED
    BY <1>3, <2>1 DEF Unbooked
<1>5. stray'[side] - loose'[side] = stray[side] - loose[side]
  <2> DEFINE left == Left(size, kept, lost)
  <2>1. left[side] \in Nat
    BY <1>2
  <2>2. stray'[side] = stray[side] + left[side] /\ loose'[side] = loose[side] + left[side]
    BY <1>2 DEF Replaced, GoAstray
  <2> HIDE DEF left
  <2> QED
    BY <1>3, <2>1, <2>2
<1>6. rest'[side] = IF side \in placed THEN size[side] ELSE 0
  BY <1>2 DEF Replaced
<1>7. ASSUME side \in placed
      PROVE  /\ side \notin Closed(position, mark, entry)
             /\ Toward(side, position) + size[side] <= MaxInventory
  <2>1. /\ side \notin Closed(position, mark, entry)
        /\ position + Sign(side) * size[side] <= MaxInventory
        /\ -(position + Sign(side) * size[side]) <= MaxInventory
    BY <1>2, <1>7 DEF Placeable
  <2>2. Sign(side) * size[side] = IF side = "bid" THEN size[side] ELSE -size[side]
    BY <1>3, Signs
  <2> QED
    BY <1>3, <2>1, <2>2 DEF Toward
<1> QED
  BY <1>4, <1>5, <1>6, <1>7 DEF Requote

LEMMA BoundedStep ==
    ASSUME BInv, [Next]_vars, TypeOK', Sized'
    PROVE  UnbookedIsBounded' /\ NetIsBounded'
<1> SUFFICES ASSUME NEW side \in Sides
             PROVE  /\ Toward(side, Unbooked') + rest'[side] + stray'[side]
                         <= (plans' + 1) * MaxSize + loose'[side]
                    /\ Toward(side, position' + Unbooked') + rest'[side] + stray'[side]
                         <= MaxInventory + MaxPlans * MaxSize + loose'[side]
  BY DEF UnbookedIsBounded, NetIsBounded
<1> DEFINE here == plans * MaxSize
           most == MaxPlans * MaxSize
<1>1. /\ here \in Nat /\ most \in Nat
      /\ (plans + 1) * MaxSize = here + MaxSize
      /\ plans < MaxPlans => here + MaxSize <= most
      /\ (plans + 1 + 1) * MaxSize = here + MaxSize + MaxSize
      /\ (0 + 1) * MaxSize = MaxSize
  <2>1. plans \in Nat /\ plans + 1 \in Nat /\ MaxSize \in Nat
    BY Numbers DEF BInv
  <2> QED
    BY <2>1, OneMore
<1>2. /\ Toward(side, Unbooked) + rest[side] + stray[side] <= here + MaxSize + loose[side]
      /\ Toward(side, position + Unbooked) + rest[side] + stray[side]
           <= MaxInventory + most + loose[side]
  BY <1>1 DEF BInv, UnbookedIsBounded, NetIsBounded
<1>3. /\ Unbooked \in Int /\ position \in Int /\ plans \in Nat /\ MaxSize \in Nat
      /\ rest[side] \in Nat /\ rest[side] <= MaxSize /\ stray[side] \in Nat
      /\ loose[side] \in Nat /\ MaxInventory \in Nat
  BY Numbers DEF BInv
<1>4. /\ Unbooked' \in Int /\ position' \in Int
      /\ rest'[side] \in Nat /\ rest'[side] <= MaxSize
      /\ stray'[side] \in Nat /\ loose'[side] \in Nat
  BY <1>3, Largest DEF TypeOK, Unbooked, Sides
<1> HIDE DEF here, most
<1>5. CASE Fill \/ StrayFill
  <2>1. /\ Toward(side, Unbooked') + rest'[side] + stray'[side]
             <= Toward(side, Unbooked) + rest[side] + stray[side]
        /\ position' = position /\ plans' = plans /\ loose' = loose
    BY <1>5, FillMoves
  <2>2. most = MaxPlans * MaxSize
    BY DEF most
  <2> QED
    BY <1>1, <1>2, <1>3, <1>4, <2>1, <2>2 DEF Toward
<1>6. CASE LadderMoves \/ UNCHANGED vars
  <2>1. UNCHANGED <<rest, stray, mine, older, position, plans, loose>>
    BY <1>6 DEF LadderMoves, vars
  <2>2. Unbooked' = Unbooked
    BY <2>1 DEF Unbooked
  <2> QED
    BY <1>1, <1>2, <2>1, <2>2 DEF most
<1>7. CASE Poll
  <2>1. /\ Unbooked' = 0 /\ plans' = 0
        /\ position' = position + Unbooked
        /\ rest'[side] + stray'[side] - loose'[side] <= rest[side] + stray[side] - loose[side]
        /\ rest'[side] + stray'[side] <= MaxSize + loose'[side]
    BY <1>7, PollBooks
  <2>2. (plans' + 1) * MaxSize = MaxSize /\ most = MaxPlans * MaxSize
    BY <1>1, <2>1 DEF most
  <2> QED
    BY <1>2, <1>3, <1>4, <2>1, <2>2 DEF Toward
<1>8. CASE Requote
  <2>1. /\ Unbooked' = Unbooked /\ position' = position
        /\ plans' = plans + 1 /\ plans < MaxPlans
        /\ stray'[side] - loose'[side] = stray[side] - loose[side]
        /\ \/ rest'[side] = 0
           \/ Toward(side, position) + rest'[side] <= MaxInventory
    BY <1>8, RequotePlans
  <2>2. (plans' + 1) * MaxSize = here + MaxSize + MaxSize /\ most = MaxPlans * MaxSize
    BY <1>1, <2>1 DEF most
  <2>3. here + MaxSize <= most /\ here \in Nat /\ most \in Nat
    BY <1>1, <2>1
  <2> QED
    BY <1>2, <1>3, <1>4, <2>1, <2>2, <2>3 DEF Toward
<1>9. CASE LeaveQuotes
  <2>1. UNCHANGED <<rest, stray, mine, older, position, loose>> /\ plans' = plans + 1
    BY <1>9 DEF LeaveQuotes
  <2>2. Unbooked' = Unbooked
    BY <2>1 DEF Unbooked
  <2>3. (plans' + 1) * MaxSize = here + MaxSize + MaxSize /\ most = MaxPlans * MaxSize
    BY <1>1, <2>1 DEF most
  <2> QED
    BY <1>1, <1>2, <1>3, <2>1, <2>2, <2>3 DEF Toward
<1> QED
  BY <1>5, <1>6, <1>7, <1>8, <1>9 DEF Next

\* Whatever fills between two polls, in whole or in part, and whatever requests
\* fail: the account holds, and can come to hold, no more than the inventory cap,
\* one size for each plan the throttle lets through, and what went astray.
THEOREM InventoryBounded == Spec => []InventoryIsBounded
<1>1. Init => BInv
  BY SizedInit, BoundedInit DEF BInv
<1>2. BInv /\ [Next]_vars => BInv'
  <2> SUFFICES ASSUME BInv, [Next]_vars PROVE BInv'
    OBVIOUS
  <2>1. TypeOK' /\ Sized'
    BY SizedStep DEF BInv
  <2> QED
    BY <2>1, BoundedStep DEF BInv
<1>3. BInv => InventoryIsBounded
  BY NetIsInventory DEF BInv
<1> QED
  BY <1>1, <1>2, <1>3, PTL DEF Spec

-------------------------------------------------------------------------------
\* The tail.  From the moment its loss reaches the cap a side trades no more than
\* what rested then, and what went astray.
TailIsCovered ==
    \A side \in Sides :
      over[side] + rest[side] + stray[side] <= MaxSize + loose[side]

LEMMA TailStep ==
    ASSUME BInv, BInv', TailIsCovered, [Next]_vars
    PROVE  TailIsCovered'
<1> SUFFICES ASSUME NEW side \in Sides
             PROVE  over'[side] + rest'[side] + stray'[side] <= MaxSize + loose'[side]
  BY DEF TailIsCovered
<1>1. /\ over[side] + rest[side] + stray[side] <= MaxSize + loose[side]
      /\ rest[side] \in Nat /\ stray[side] \in Nat /\ loose[side] \in Nat
      /\ over[side] \in Nat /\ MaxSize \in Nat
  BY Numbers DEF TailIsCovered, BInv, TypeOK
<1>2. /\ rest'[side] \in Nat /\ rest'[side] <= MaxSize
      /\ stray'[side] \in Nat /\ loose'[side] \in Nat /\ stray'[side] <= loose'[side]
  BY <1>1 DEF BInv, TypeOK, Sized
<1>3. CASE over'[side] = 0
  BY <1>1, <1>2, <1>3
<1>4. Nothing \in [Sides -> Nat] /\ Nothing[side] = 0
  BY DEF Nothing
<1>5. ASSUME Fill, over'[side] # 0
      PROVE  over'[side] + rest'[side] + stray'[side] <= MaxSize + loose'[side]
  <2>1. PICK s \in Sides : \E n \in 1 .. rest[s] :
          /\ rest' = [rest EXCEPT ![s] = @ - n]
          /\ UNCHANGED <<stray, loose>>
          /\ Counted([Nothing EXCEPT ![s] = n])
    BY <1>5 DEF Fill
  <2>2. PICK n \in 1 .. rest[s] :
          /\ rest' = [rest EXCEPT ![s] = @ - n]
          /\ UNCHANGED <<stray, loose>>
          /\ Counted([Nothing EXCEPT ![s] = n])
    BY <2>1
  <2>3. n \in Nat /\ [Nothing EXCEPT ![s] = n] \in [Sides -> Nat]
    BY <1>4 DEF BInv, TypeOK
  <2>4. over'[side] = over[side] + [Nothing EXCEPT ![s] = n][side]
    BY <1>5, <2>2, <2>3, CountedType DEF BInv
  <2>5. over'[side] + rest'[side] = over[side] + rest[side]
    <3>1. CASE side = s
      BY <1>1, <1>4, <2>2, <2>3, <2>4, <3>1 DEF BInv, TypeOK
    <3>2. CASE side # s
      BY <1>1, <1>4, <2>2, <2>4, <3>2 DEF BInv, TypeOK
    <3> QED
      BY <3>1, <3>2
  <2> QED
    BY <1>1, <2>2, <2>5
<1>6. ASSUME StrayFill, over'[side] # 0
      PROVE  over'[side] + rest'[side] + stray'[side] <= MaxSize + loose'[side]
  <2>1. PICK s \in Sides :
          /\ stray' = [stray EXCEPT ![s] = @ - 1]
          /\ UNCHANGED <<rest, loose>>
          /\ Counted([Nothing EXCEPT ![s] = 1])
    BY <1>6 DEF StrayFill
  <2>2. [Nothing EXCEPT ![s] = 1] \in [Sides -> Nat]
    BY <1>4
  <2>3. over'[side] = over[side] + [Nothing EXCEPT ![s] = 1][side]
    BY <1>6, <2>1, <2>2, CountedType DEF BInv
  <2>4. over'[side] + stray'[side] = over[side] + stray[side]
    <3>1. CASE side = s
      BY <1>1, <1>4, <2>1, <2>3, <3>1 DEF BInv, TypeOK
    <3>2. CASE side # s
      BY <1>1, <1>4, <2>1, <2>3, <3>2 DEF BInv, TypeOK
    <3> QED
      BY <3>1, <3>2
  <2>5. rest'[side] = rest[side] /\ loose'[side] = loose[side]
    BY <2>1
  <2>6. over'[side] \in Nat
    BY <1>1, <2>2, <2>3
  <2> QED
    BY <1>1, <1>2, <2>4, <2>5, <2>6
<1>7. ASSUME LadderMoves \/ Poll \/ Requote, over'[side] # 0
      PROVE  /\ side \in Closed(position', mark', entry')
             /\ over'[side] = over[side]
  <2>1. Counted(Nothing)
    BY <1>7 DEF LadderMoves, Poll, Requote
  <2> QED
    BY <1>1, <1>4, <1>7, <2>1, CountedType DEF BInv
<1>8. CASE LadderMoves \/ LeaveQuotes \/ UNCHANGED vars
  <2>1. UNCHANGED <<rest, stray, loose>>
    BY <1>8 DEF LadderMoves, LeaveQuotes, vars
  <2>2. over'[side] = 0 \/ over'[side] = over[side]
    BY <1>7, <1>8 DEF LeaveQuotes, vars
  <2> QED
    BY <1>1, <1>3, <2>1, <2>2
<1>9. ASSUME Poll, over'[side] # 0
      PROVE  over'[side] + rest'[side] + stray'[side] <= MaxSize + loose'[side]
  <2>1. rest'[side] + stray'[side] - loose'[side] <= rest[side] + stray[side] - loose[side]
    BY <1>9, PollBooks DEF BInv
  <2> QED
    BY <1>1, <1>2, <1>7, <1>9, <2>1
<1>10. ASSUME Requote, over'[side] # 0
       PROVE  over'[side] + rest'[side] + stray'[side] <= MaxSize + loose'[side]
  <2>1. /\ stray'[side] - loose'[side] = stray[side] - loose[side]
        /\ rest'[side] = 0 \/ side \notin Closed(position, mark, entry)
    BY <1>10, RequotePlans DEF BInv
  <2>2. side \in Closed(position, mark, entry)
    BY <1>7, <1>10 DEF Requote, marketVars
  <2> QED
    BY <1>1, <1>2, <1>7, <1>10, <2>1, <2>2
<1> QED
  BY <1>3, <1>5, <1>6, <1>8, <1>9, <1>10 DEF Next

\* A ladder loss at its cap grows by no more than one order of this market and
\* what went astray: the gate lets no plan add to it, while exposure of the other
\* markets moves as it likes.
THEOREM TailBounded == Spec => []TailIsBounded
<1>1. Init => BInv /\ TailIsCovered
  <2> SUFFICES ASSUME Init PROVE BInv /\ TailIsCovered
    OBVIOUS
  <2>1. BInv
    BY SizedInit, BoundedInit DEF BInv
  <2>2. TailIsCovered
    BY Largest DEF Init, TailIsCovered, Nothing
  <2> QED
    BY <2>1, <2>2
<1>2. BInv /\ TailIsCovered /\ [Next]_vars => BInv' /\ TailIsCovered'
  <2> SUFFICES ASSUME BInv, TailIsCovered, [Next]_vars PROVE BInv' /\ TailIsCovered'
    OBVIOUS
  <2>1. TypeOK' /\ Sized'
    BY SizedStep DEF BInv
  <2>2. BInv'
    BY <2>1, BoundedStep DEF BInv
  <2> QED
    BY <2>2, TailStep
<1>3. BInv /\ TailIsCovered => TailIsBounded
  <2> SUFFICES ASSUME BInv, TailIsCovered, NEW side \in Sides
               PROVE  over[side] <= MaxSize + loose[side]
    BY DEF TailIsBounded
  <2>1. /\ over[side] + rest[side] + stray[side] <= MaxSize + loose[side]
        /\ rest[side] \in Nat /\ stray[side] \in Nat /\ loose[side] \in Nat
        /\ over[side] \in Nat /\ MaxSize \in Nat
    BY Numbers DEF TailIsCovered, BInv, TypeOK
  <2> QED
    BY <2>1
<1> QED
  BY <1>1, <1>2, <1>3, PTL DEF Spec
===============================================================================
