---------------------------- MODULE LifecycleProofs ----------------------------
(***************************************************************************)
(* What startup and halt leave resting, proved for every number of         *)
(* restarts, requotes and failing requests and every length of the         *)
(* listing.                                                                *)
(***************************************************************************)
EXTENDS Lifecycle, FiniteSetTheorems, TLAPS

USE SizeAssumption, LimitAssumption, BoundAssumption

Orders == [quote : 1 .. quotes, side : Sides, left : Nat \ {0}]

\* Faults are counted: each side has at most one order that it knows.
LEMMA FewSides ==
    ASSUME NEW some \in SUBSET Sides
    PROVE  IsFiniteSet(some) /\ Cardinality(some) \in Nat
<1>1. IsFiniteSet(Sides)
  <2>1. IsFiniteSet({"bid"})
    BY FS_Singleton
  <2>2. IsFiniteSet({"bid"} \cup {"ask"})
    BY <2>1, FS_AddElement
  <2>3. Sides = {"bid"} \cup {"ask"}
    BY DEF Sides
  <2> QED
    BY <2>2, <2>3
<1>2. IsFiniteSet(some)
  BY <1>1, FS_Subset
<1> QED
  BY <1>2, FS_CardinalityType

LEMMA FewTracked ==
    ASSUME NEW some \in SUBSET Tracked
    PROVE  Cardinality(some) \in Nat
<1> DEFINE b == <<slot["bid"], "bid">>
           a == <<slot["ask"], "ask">>
<1>1. IsFiniteSet({b})
  BY FS_Singleton
<1>2. IsFiniteSet({b} \cup {a})
  BY <1>1, FS_AddElement
<1>3. some \subseteq {b} \cup {a}
  BY DEF Tracked, Sides
<1> QED
  BY <1>2, <1>3, FS_Subset, FS_CardinalityType
-------------------------------------------------------------------------------
\* Types.

LEMMA TypesInit == Init => TypeOK
<1> SUFFICES ASSUME Init PROVE TypeOK
  OBVIOUS
<1>1. held \in -MaxHeld .. MaxHeld /\ faults \in 0 .. MaxFaults
      /\ quotes \in 0 .. MaxQuotes /\ restarts \in 0 .. MaxRestarts
  BY DEF Init
<1>2. slot \in [Sides -> 0 .. quotes]
  BY DEF Init, NoSlots
<1>3. {todo, own, missed} \subseteq SUBSET AllKeys /\ hit \subseteq Sides
  BY DEF Init
<1>4. orders \subseteq Orders /\ seen \in Int /\ position \in Int
  BY DEF Init
<1>5. /\ stage \in {"positions", "orders", "hygiene", "trading", "halting", "cancelling", "stopped"}
      /\ halted \in BOOLEAN
  BY DEF Init
<1> QED
  BY <1>1, <1>2, <1>3, <1>4, <1>5 DEF TypeOK, Orders

LEMMA FaultsType ==
    ASSUME TypeOK, NEW n \in Nat, Faults(n)
    PROVE  faults' \in 0 .. MaxFaults
  BY DEF TypeOK, Faults

LEMMA KeysType ==
    ASSUME TypeOK
    PROVE  Keys \subseteq AllKeys /\ Tracked \subseteq AllKeys
  BY DEF TypeOK, Keys, Key, Tracked, AllKeys, Sides

LEMMA FillTypes ==
    ASSUME TypeOK, Fill
    PROVE  TypeOK'
<1>1. PICK o \in orders : \E n \in 1 .. o.left :
        /\ Abs(held + Sign(o.side) * n) <= MaxHeld
        /\ held' = held + Sign(o.side) * n
        /\ orders' = (orders \ {o}) \cup
               (IF n = o.left THEN {} ELSE {[o EXCEPT !.left = @ - n]})
        /\ hit' = IF Key(o) \in Tracked THEN hit \cup {o.side} ELSE hit
  BY DEF Fill
<1> PICK n \in 1 .. o.left :
        /\ Abs(held + Sign(o.side) * n) <= MaxHeld
        /\ held' = held + Sign(o.side) * n
        /\ orders' = (orders \ {o}) \cup
               (IF n = o.left THEN {} ELSE {[o EXCEPT !.left = @ - n]})
        /\ hit' = IF Key(o) \in Tracked THEN hit \cup {o.side} ELSE hit
  BY <1>1
<1>2. o \in Orders /\ o.side \in Sides /\ o.left \in Nat /\ n \in Nat /\ n <= o.left
  BY DEF TypeOK, Orders
<1>3. held' \in -MaxHeld .. MaxHeld
  BY <1>1, <1>2 DEF TypeOK, Abs, Sign
<1>4. n # o.left => [o EXCEPT !.left = @ - n] \in Orders
  BY <1>2 DEF Orders
<1>5. orders' \subseteq Orders /\ hit' \subseteq Sides
  BY <1>1, <1>2, <1>4 DEF TypeOK, Orders
<1> QED
  BY <1>3, <1>5 DEF Fill, TypeOK, Orders, AllKeys

LEMMA CancelTypes ==
    ASSUME TypeOK, NEW k \in AllKeys, Cancel(k)
    PROVE  /\ orders' \subseteq orders
           /\ missed' \subseteq AllKeys
           /\ faults' \in 0 .. MaxFaults
  BY FaultsType DEF Cancel, TypeOK

LEMMA RequoteTypes ==
    ASSUME TypeOK, Requote
    PROVE  TypeOK'
<1>1. PICK size \in [Sides -> Sizes],
           placed \in SUBSET Sides, lost \in SUBSET Sides, kept \in SUBSET (Tracked \cap Keys) :
        /\ Faults(Cardinality(kept) + Cardinality(lost))
        /\ orders' = {o \in orders : Key(o) \in kept \/ Key(o) \notin Tracked} \cup
               {[quote |-> quotes + 1, side |-> s, left |-> size[s]] : s \in placed \cup lost}
        /\ own' = own \cup {<<quotes + 1, s>> : s \in placed \cup lost}
        /\ slot' = [s \in Sides |-> IF s \in placed THEN quotes + 1 ELSE 0]
  BY DEF Requote
<1>2. quotes' = quotes + 1 /\ quotes' \in 0 .. MaxQuotes /\ quotes \in Nat
  BY DEF Requote, TypeOK
<1>3. orders' \subseteq [quote : 1 .. quotes + 1, side : Sides, left : Nat \ {0}]
  <2>1. orders \subseteq [quote : 1 .. quotes + 1, side : Sides, left : Nat \ {0}]
    BY <1>2 DEF TypeOK
  <2>2. ASSUME NEW s \in Sides
        PROVE  [quote |-> quotes + 1, side |-> s, left |-> size[s]]
                 \in [quote : 1 .. quotes + 1, side : Sides, left : Nat \ {0}]
    <3>1. size[s] \in Nat \ {0}
      OBVIOUS
    <3> QED
      BY <1>2, <3>1
  <2> QED
    BY <1>1, <2>1, <2>2
<1>4. slot' \in [Sides -> 0 .. quotes + 1]
  BY <1>1, <1>2
<1>5. AllKeys' = (1 .. quotes + 1) \X Sides /\ AllKeys \subseteq AllKeys'
  BY <1>2 DEF AllKeys
<1>6. own' \subseteq AllKeys' /\ todo' \subseteq AllKeys' /\ missed' \subseteq AllKeys'
  BY <1>1, <1>2, <1>5 DEF TypeOK, Requote
<1>7. faults' \in 0 .. MaxFaults
  <2>1. Cardinality(kept) \in Nat /\ Cardinality(lost) \in Nat
    BY FewSides, FewTracked
  <2> QED
    BY <1>1, <2>1, FaultsType
<1> QED
  BY <1>2, <1>3, <1>4, <1>6, <1>7 DEF Requote, TypeOK

\* The steps that only look at the orders, and those that cancel them.
LEMMA ReadTypes ==
    ASSUME TypeOK,
           ReadPositions \/ ListOrders \/ StartupReadFails \/ HaltLists \/ HaltListFails
    PROVE  TypeOK'
<1> USE DEF TypeOK, AllKeys
<1>1. CASE ReadPositions
  BY <1>1 DEF ReadPositions, traderVars
<1>2. CASE ListOrders
  BY <1>2, KeysType DEF ListOrders, Listed, traderVars
<1>3. CASE StartupReadFails
  BY <1>3, KeysType, FaultsType DEF StartupReadFails, traderVars
<1>4. CASE HaltLists
  BY <1>4, KeysType DEF HaltLists, Listed, traderVars
<1>5. CASE HaltListFails
  BY <1>5, KeysType, FaultsType DEF HaltListFails, traderVars
<1> QED
  BY <1>1, <1>2, <1>3, <1>4, <1>5

LEMMA CancelStepTypes ==
    ASSUME TypeOK, TidyOrder \/ CancelOrder
    PROVE  TypeOK'
<1>1. CASE TidyOrder
  <2>1. PICK k \in todo :
          /\ todo' = todo \ {k}
          /\ IF Reduces(k[2], seen) THEN UNCHANGED <<orders, missed, faults>> ELSE Cancel(k)
    BY <1>1 DEF TidyOrder
  <2>2. orders' \subseteq orders /\ missed' \subseteq AllKeys /\ faults' \in 0 .. MaxFaults
    BY <2>1, CancelTypes DEF TypeOK
  <2> QED
    BY <1>1, <2>1, <2>2 DEF TidyOrder, TypeOK, AllKeys, traderVars
<1>2. CASE CancelOrder
  <2>1. PICK k \in todo : todo' = todo \ {k} /\ Cancel(k)
    BY <1>2 DEF CancelOrder
  <2>2. orders' \subseteq orders /\ missed' \subseteq AllKeys /\ faults' \in 0 .. MaxFaults
    BY <2>1, CancelTypes DEF TypeOK
  <2> QED
    BY <1>2, <2>1, <2>2 DEF CancelOrder, TypeOK, AllKeys, traderVars
<1> QED
  BY <1>1, <1>2

LEMMA TypesStep ==
    ASSUME TypeOK, [Next]_vars
    PROVE  TypeOK'
<1>1. CASE Restart \/ Relaunch
  BY <1>1 DEF Restart, Relaunch, NewLife, TypeOK, AllKeys, NoSlots, Sides
<1>2. CASE StartTrading
  BY <1>2, FaultsType DEF StartTrading, TypeOK, AllKeys
<1>3. CASE Poll
  BY <1>3 DEF Poll, TypeOK, AllKeys, Sides
<1>4. CASE Halt
  BY <1>4 DEF Halt, TypeOK, AllKeys, traderVars
<1>5. CASE Stop
  BY <1>5 DEF Stop, TypeOK, AllKeys, traderVars
<1>6. CASE UNCHANGED vars
  BY <1>6 DEF vars, TypeOK, AllKeys, traderVars
<1> QED
  BY <1>1, <1>2, <1>3, <1>4, <1>5, <1>6, FillTypes, RequoteTypes, ReadTypes, CancelStepTypes
     DEF Next

\* Types, for any number of lives (state.rs:213-241, main.rs:229-262).
THEOREM LifecycleTypes == Spec => []TypeOK
  BY TypesInit, TypesStep, PTL DEF Spec
-------------------------------------------------------------------------------
\* Startup and halt.  While a life has not traded it owns no order; once it has
\* listed the orders, each is still to be dealt with or has been.
Unwinds(o) == Sign(o.side) * seen < 0
Dealt ==
    /\ stage \in {"positions", "orders", "hygiene"} => own = {}
    /\ stage = "hygiene" =>
         \A o \in orders : Key(o) \in todo \/ Key(o) \in missed \/ Unwinds(o)
    /\ stage = "cancelling" => \A o \in orders : Key(o) \in todo \/ Key(o) \in missed
LInv == TypeOK /\ Dealt /\ LeftoversUnwind /\ HaltClears

LEMMA LifeInit == Init => LInv
  BY TypesInit DEF Init, LInv, Dealt, LeftoversUnwind, HaltClears, Inherited

\* A fill leaves the key and the side of its order as they were.
LEMMA FillKeeps ==
    ASSUME TypeOK, Fill
    PROVE  \A p \in orders' : \E o \in orders : Key(p) = Key(o) /\ p.side = o.side
<1>1. PICK o \in orders :
        \E n \in 1 .. o.left :
          orders' = (orders \ {o}) \cup
                      (IF n = o.left THEN {} ELSE {[o EXCEPT !.left = @ - n]})
  BY DEF Fill
<1>2. PICK n \in 1 .. o.left :
        orders' = (orders \ {o}) \cup
                    (IF n = o.left THEN {} ELSE {[o EXCEPT !.left = @ - n]})
  BY <1>1
<1>3. o \in Orders
  BY DEF TypeOK, Orders
<1>4. [o EXCEPT !.left = @ - n].quote = o.quote /\ [o EXCEPT !.left = @ - n].side = o.side
  BY <1>3 DEF Orders
<1> QED
  BY <1>2, <1>4 DEF Key

LEMMA FillLife ==
    ASSUME LInv, Fill
    PROVE  Dealt' /\ LeftoversUnwind' /\ HaltClears'
<1>1. \A p \in orders' : \E o \in orders : Key(p) = Key(o) /\ p.side = o.side
  BY FillKeeps DEF LInv
<1>2. UNCHANGED <<stage, seen, todo, own, missed>>
  BY DEF Fill
<1>3. Dealt'
  BY <1>1, <1>2 DEF LInv, Dealt, Unwinds, Key
<1>4. LeftoversUnwind'
  BY <1>1, <1>2 DEF LInv, LeftoversUnwind, Inherited, Key
<1>5. HaltClears'
  BY <1>1, <1>2 DEF LInv, HaltClears, Key
<1> QED
  BY <1>3, <1>4, <1>5

\* What an order of this key is told: cancelled, counted as missed, or kept
\* because it unwinds.
LEMMA TidyLife ==
    ASSUME LInv, TidyOrder
    PROVE  Dealt' /\ LeftoversUnwind' /\ HaltClears'
<1>1. PICK k \in todo :
        /\ todo' = todo \ {k}
        /\ IF Reduces(k[2], seen) THEN UNCHANGED <<orders, missed, faults>> ELSE Cancel(k)
  BY DEF TidyOrder
<1>2. stage = "hygiene" /\ stage' = "hygiene" /\ UNCHANGED <<own, seen>>
  BY DEF TidyOrder
<1>3. orders' \subseteq orders /\ missed \subseteq missed'
  BY <1>1 DEF Cancel
<1>4. ASSUME NEW o \in orders'
      PROVE  Key(o) \in todo' \/ Key(o) \in missed' \/ Unwinds(o)
  <2>1. Key(o) \in todo \/ Key(o) \in missed \/ Unwinds(o)
    BY <1>2, <1>3 DEF LInv, Dealt
  <2>2. CASE Key(o) = k
    <3>1. k[2] = o.side
      BY <2>2 DEF Key
    <3>2. CASE Reduces(k[2], seen)
      BY <3>1, <3>2 DEF Reduces, Unwinds
    <3>3. CASE ~Reduces(k[2], seen)
      BY <1>1, <2>2, <3>3 DEF Cancel
    <3> QED
      BY <3>2, <3>3
  <2>3. CASE Key(o) # k
    BY <1>1, <1>3, <2>1, <2>3
  <2> QED
    BY <2>2, <2>3
<1>5. Dealt'
  BY <1>2, <1>4 DEF LInv, Dealt, Unwinds, Key
<1> QED
  BY <1>2, <1>5 DEF LeftoversUnwind, HaltClears

LEMMA CancelLife ==
    ASSUME LInv, CancelOrder
    PROVE  Dealt' /\ LeftoversUnwind' /\ HaltClears'
<1>1. PICK k \in todo : todo' = todo \ {k} /\ Cancel(k)
  BY DEF CancelOrder
<1>2. stage = "cancelling" /\ stage' = "cancelling"
  BY DEF CancelOrder
<1>3. \A o \in orders' : o \in orders /\ (Key(o) \in todo' \/ Key(o) \in missed')
  BY <1>1, <1>2 DEF Cancel, LInv, Dealt
<1> QED
  BY <1>2, <1>3 DEF Dealt, LeftoversUnwind, HaltClears, Key

LEMMA RequoteLife ==
    ASSUME LInv, Requote
    PROVE  Dealt' /\ LeftoversUnwind' /\ HaltClears'
<1>1. PICK size \in [Sides -> Sizes],
           placed \in SUBSET Sides, lost \in SUBSET Sides, kept \in SUBSET (Tracked \cap Keys) :
        /\ orders' = {o \in orders : Key(o) \in kept \/ Key(o) \notin Tracked} \cup
               {[quote |-> quotes + 1, side |-> s, left |-> size[s]] : s \in placed \cup lost}
        /\ own' = own \cup {<<quotes + 1, s>> : s \in placed \cup lost}
  BY DEF Requote
<1>2. stage = "trading" /\ stage' = "trading" /\ UNCHANGED <<seen, missed>>
  BY DEF Requote
<1>3. ASSUME NEW o \in orders', Key(o) \notin own'
      PROVE  o \in orders /\ Key(o) \notin own
  BY <1>1, <1>3 DEF Key
<1>4. LeftoversUnwind'
  BY <1>2, <1>3 DEF LInv, LeftoversUnwind, Inherited, Key
<1> QED
  BY <1>2, <1>4 DEF Dealt, HaltClears

LEMMA LifeStep ==
    ASSUME LInv, [Next]_vars
    PROVE  LInv'
<1> USE DEF Dealt, LeftoversUnwind, HaltClears, Inherited, Unwinds, Key
<1>0. TypeOK'
  BY TypesStep DEF LInv
<1>1. CASE Restart \/ Relaunch
  BY <1>0, <1>1 DEF LInv, Restart, Relaunch, NewLife
<1>2. CASE ReadPositions
  BY <1>0, <1>2 DEF LInv, ReadPositions
<1>3. CASE ListOrders
  BY <1>0, <1>3 DEF LInv, ListOrders, Listed, Keys
<1>4. CASE StartupReadFails
  BY <1>0, <1>4 DEF LInv, StartupReadFails, Keys
<1>5. CASE StartTrading
  BY <1>0, <1>5 DEF LInv, StartTrading
<1>6. CASE Poll
  BY <1>0, <1>6 DEF LInv, Poll
<1>7. CASE Halt
  BY <1>0, <1>7 DEF LInv, Halt
<1>8. CASE HaltLists
  BY <1>0, <1>8 DEF LInv, HaltLists, Listed, Keys
<1>9. CASE HaltListFails
  BY <1>0, <1>9 DEF LInv, HaltListFails, Keys
<1>10. CASE Stop
  BY <1>0, <1>10 DEF LInv, Stop
<1>11. CASE UNCHANGED vars
  BY <1>0, <1>11 DEF LInv, vars
<1> QED
  BY <1>0, <1>1, <1>2, <1>3, <1>4, <1>5, <1>6, <1>7, <1>8, <1>9, <1>10, <1>11,
     FillLife, TidyLife, CancelLife, RequoteLife DEF Next, LInv

\* Startup keeps nothing of an earlier life that could have added to the
\* position it read, whatever trades meanwhile (main.rs:327-361).
THEOREM LeftoversOnlyUnwind == Spec => []LeftoversUnwind
<1>1. LInv => LeftoversUnwind
  BY DEF LInv
<1> QED
  BY <1>1, LifeInit, LifeStep, PTL DEF Spec

\* A halt leaves only what it was never told of or could not cancel
\* (main.rs:1274-1281, api.rs:261-275).
THEOREM HaltLeavesNothing == Spec => []HaltClears
<1>1. LInv => HaltClears
  BY DEF LInv
<1> QED
  BY <1>1, LifeInit, LifeStep, PTL DEF Spec
-------------------------------------------------------------------------------
LEMMA SurvivesStep ==
    ASSUME TypeOK, Next, stage = "hygiene", held' = held,
           NEW o \in orders, Sign(o.side) * seen < 0
    PROVE  Key(o) \in {Key(p) : p \in orders'}
<1>1. CASE o \in orders'
  BY <1>1
<1>2. CASE o \notin orders'
  <2>1. ~Fill
    <3> SUFFICES ASSUME Fill PROVE FALSE
      OBVIOUS
    <3>1. PICK u \in orders : \E n \in 1 .. u.left : held' = held + Sign(u.side) * n
      BY DEF Fill
    <3>2. u.left \in Nat /\ held \in Int
      BY DEF TypeOK
    <3> QED
      BY <3>1, <3>2 DEF Sign
  <2>2. TidyOrder
    BY <1>2, <2>1 DEF Next, Restart, Relaunch, NewLife, ReadPositions, ListOrders, Listed,
       StartupReadFails, StartTrading, Poll, Requote, Halt, HaltLists, HaltListFails,
       CancelOrder, Stop
  <2>3. PICK k \in todo :
          IF Reduces(k[2], seen) THEN UNCHANGED <<orders, missed, faults>> ELSE Cancel(k)
    BY <2>2 DEF TidyOrder
  <2>4. ~Reduces(k[2], seen) /\ Key(o) = k
    BY <1>2, <2>3 DEF Cancel
  <2>5. k[2] = o.side
    BY <2>4 DEF Key
  <2> QED
    BY <2>4, <2>5 DEF Reduces
<1> QED
  BY <1>1, <1>2

\* Startup never cancels an order that unwinds the position it read
\* (main.rs:354, 1381-1394).
THEOREM UnwindingSurvives == Spec => UnwindsSurvive
<1>1. TypeOK /\ [Next]_vars =>
        [stage = "hygiene" /\ UNCHANGED held =>
           \A o \in orders : Sign(o.side) * seen < 0 => Key(o) \in {Key(p) : p \in orders'}]_vars
  BY SurvivesStep
<1> QED
  BY <1>1, TypesInit, TypesStep, PTL DEF Spec, UnwindsSurvive
===============================================================================
