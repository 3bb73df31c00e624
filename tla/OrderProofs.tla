----------------------------- MODULE OrderProofs ------------------------------
(***************************************************************************)
(* Resting orders against tracked ids, proved for every set of tickers,    *)
(* quote sizes and limits and for any number of requotes and fills.        *)
(***************************************************************************)
EXTENDS QuoteOrders, FiniteSetTheorems, TLAPS

USE BoundAssumption, SizeAssumption, LimitAssumption, LeftoverAssumption,
    NoOrderAssumption

Orders == [num : 0 .. quotes, ticker : Tickers, side : Sides, left : Nat \ {0},
           adrift : BOOLEAN]

\* An order let go keeps its id and its size.
LEMMA AdriftOrder ==
    ASSUME NEW o \in Orders
    PROVE  /\ [o EXCEPT !.adrift = TRUE] \in Orders
           /\ [o EXCEPT !.adrift = TRUE].adrift = TRUE
           /\ IdOf([o EXCEPT !.adrift = TRUE]) = IdOf(o)
  BY DEF Orders, IdOf

\* A partly filled order keeps its id and its history.
LEMMA FilledOrder ==
    ASSUME NEW o \in Orders, NEW n \in Nat \ {0}
    PROVE  /\ [o EXCEPT !.left = n] \in Orders
           /\ [o EXCEPT !.left = n].adrift = o.adrift
           /\ IdOf([o EXCEPT !.left = n]) = IdOf(o)
  BY DEF Orders, IdOf

\* Two ids are equal when number, ticker and side are.
LEMMA SameId ==
    ASSUME NEW i \in OrderIds, NEW j \in OrderIds
    PROVE  i = j <=> i.num = j.num /\ i.ticker = j.ticker /\ i.side = j.side
  BY DEF OrderIds

\* What the book still holds after some cancels: the orders nobody cancelled,
\* and those whose cancel was lost, now adrift.
LEMMA CancelledBook ==
    ASSUME TypeOK, NEW gone \in SUBSET resting, NEW reached
    PROVE  /\ AfterCancel(gone, reached) \subseteq Orders
           /\ \A o \in AfterCancel(gone, reached) : o \in resting \ gone \/ o.adrift
           /\ resting \ gone \subseteq AfterCancel(gone, reached)
<1>1. resting \subseteq Orders
  BY DEF TypeOK, Orders
<1>2. \A o \in gone : [o EXCEPT !.adrift = TRUE] \in Orders
                      /\ [o EXCEPT !.adrift = TRUE].adrift = TRUE
  BY <1>1, AdriftOrder
<1> QED
  BY <1>1, <1>2 DEF AfterCancel, LetGo

-------------------------------------------------------------------------------
\* Requoting: the values it stores.
LEMMA RequoteType ==
    ASSUME TypeOK, NEW t \in Tickers, Requote(t)
    PROVE  TypeOK'
<1>1. PICK size \in [Sides -> QuoteSizes], sides \in SUBSET Sides :
        \E answer \in [{s \in sides : MayPlace(t, s, size[s])} -> Answers],
           reached \in SUBSET Quoted({t}) :
          /\ resting' = AfterCancel(Quoted({t}), reached)
                 \cup {[num |-> quotes + 1, ticker |-> t, side |-> s, left |-> size[s],
                        adrift |-> answer[s] = "unanswered"] :
                        s \in {s \in DOMAIN answer : Rests(answer[s])}}
          /\ slot' = [slot EXCEPT ![t] = [s \in Sides |->
                 IF s \in DOMAIN answer /\ answer[s] = "accepted"
                   THEN quotes + 1 ELSE NoOrder]]
          /\ backoff' = \E s \in DOMAIN answer : answer[s] = "unfunded"
  BY DEF Requote
<1>2. PICK answer \in [{s \in sides : MayPlace(t, s, size[s])} -> Answers],
           reached \in SUBSET Quoted({t}) :
          /\ resting' = AfterCancel(Quoted({t}), reached)
                 \cup {[num |-> quotes + 1, ticker |-> t, side |-> s, left |-> size[s],
                        adrift |-> answer[s] = "unanswered"] :
                        s \in {s \in DOMAIN answer : Rests(answer[s])}}
          /\ slot' = [slot EXCEPT ![t] = [s \in Sides |->
                 IF s \in DOMAIN answer /\ answer[s] = "accepted"
                   THEN quotes + 1 ELSE NoOrder]]
          /\ backoff' = \E s \in DOMAIN answer : answer[s] = "unfunded"
  BY <1>1
<1>3. quotes \in Nat /\ quotes' = quotes + 1
  BY DEF TypeOK, Requote
<1>4. AfterCancel(Quoted({t}), reached) \subseteq Orders
  BY CancelledBook DEF Quoted
<1>5. DOMAIN answer \subseteq Sides
  OBVIOUS
<1>6. resting' \subseteq Orders'
  <2>1. Orders \subseteq Orders'
    BY <1>3 DEF Orders
  <2>2. \A s \in DOMAIN answer :
          [num |-> quotes + 1, ticker |-> t, side |-> s, left |-> size[s],
           adrift |-> answer[s] = "unanswered"] \in Orders'
    <3> SUFFICES ASSUME NEW s \in DOMAIN answer
                 PROVE  [num |-> quotes + 1, ticker |-> t, side |-> s, left |-> size[s],
                         adrift |-> answer[s] = "unanswered"] \in Orders'
      OBVIOUS
    <3>1. s \in Sides /\ size[s] \in Nat \ {0}
      BY <1>5
    <3>2. quotes + 1 \in 0 .. quotes'
      BY <1>3
    <3>3. (answer[s] = "unanswered") \in BOOLEAN
      OBVIOUS
    <3> QED
      BY <3>1, <3>2, <3>3 DEF Orders
  <2> QED
    BY <1>2, <1>4, <2>1, <2>2
<1>7. unbooked' \subseteq [order : OrderIds', size : Nat \ {0}, left : Nat]
  <2>1. OrderIds \subseteq OrderIds'
    BY <1>3 DEF OrderIds
  <2> QED
    BY <2>1 DEF TypeOK, Requote
<1>8. slot' \in [Tickers -> [Sides -> (1 .. quotes') \cup {NoOrder}]]
  <2>1. slot \in [Tickers -> [Sides -> (1 .. quotes') \cup {NoOrder}]]
    <3>1. 1 .. quotes \subseteq 1 .. quotes'
      BY <1>3
    <3> QED
      BY <3>1 DEF TypeOK
  <2> QED
    BY <1>2, <1>3, <2>1
<1>9. backoff' \in BOOLEAN
  BY <1>2
<1>10. everQuoted' \in [Tickers -> BOOLEAN]
  BY DEF TypeOK, Requote
<1>11. UNCHANGED <<expired, position, mood, gateOn, running>> /\ quotes' \in Nat
  BY <1>3 DEF Requote, gateVars
<1> QED
  BY <1>6, <1>7, <1>8, <1>9, <1>10, <1>11 DEF TypeOK, Orders

\* The gate's pull: the values it stores.
LEMMA PullType ==
    ASSUME TypeOK, PullSpotQuotes
    PROVE  /\ resting' \subseteq Orders
           /\ slot' \in [Tickers -> [Sides -> (1 .. quotes) \cup {NoOrder}]]
<1>1. resting' \subseteq Orders
  BY CancelledBook DEF PullSpotQuotes, Quoted
<1> QED
  BY <1>1 DEF PullSpotQuotes, TypeOK

\* Evaluating the gate on a mood keeps the types.
LEMMA GateType ==
    ASSUME TypeOK, NEW m \in Moods, EvaluateGate(m), mood' = m,
           UNCHANGED <<unbooked, expired, everQuoted, position, quotes, backoff, running>>
    PROVE  TypeOK'
<1>1. resting' \subseteq Orders /\ slot' \in [Tickers -> [Sides -> (1 .. quotes) \cup {NoOrder}]]
  <2>1. CASE GatedIn(m) /\ ~gateOn
    BY <2>1, PullType DEF EvaluateGate
  <2>2. CASE ~(GatedIn(m) /\ ~gateOn)
    BY <2>2 DEF EvaluateGate, TypeOK, Orders
  <2> QED
    BY <2>1, <2>2
<1>2. gateOn' \in BOOLEAN
  BY DEF EvaluateGate, GatedIn, TypeOK
<1> QED
  BY <1>1, <1>2 DEF TypeOK, Orders, OrderIds

\* Every variable keeps to its values: the books of the exchange and of the
\* trader, whatever is filled, cancelled, lost or halted.
THEOREM OrderTypes == Spec => []TypeOK
<1>1. Init => TypeOK
  <2> SUFFICES ASSUME Init PROVE TypeOK
    OBVIOUS
  <2>1. resting \subseteq Orders
    <3>1. PICK kept \in SUBSET Leftover :
            resting = {[num |-> 0, ticker |-> l[1], side |-> l[2], left |-> 1,
                        adrift |-> TRUE] : l \in kept}
      BY DEF Init
    <3>2. \A l \in kept : l[1] \in Tickers /\ l[2] \in Sides
      BY LeftoverAssumption
    <3>3. quotes = 0
      BY DEF Init
    <3>4. \A l \in kept : [num |-> 0, ticker |-> l[1], side |-> l[2], left |-> 1,
                           adrift |-> TRUE] \in Orders
      BY <3>2, <3>3 DEF Orders
    <3> QED
      BY <3>1, <3>4
  <2>2. slot \in [Tickers -> [Sides -> (1 .. quotes) \cup {NoOrder}]]
    BY DEF Init
  <2> QED
    <3>1. unbooked = {} /\ expired = {} /\ quotes = 0
      BY DEF Init
    <3>2. everQuoted \in [Tickers -> BOOLEAN] /\ position \in [Tickers -> Int]
      BY DEF Init
    <3>3. backoff \in BOOLEAN /\ gateOn \in BOOLEAN /\ running \in BOOLEAN /\ mood \in Moods
      BY DEF Init, Moods
    <3> QED
      BY <2>1, <2>2, <3>1, <3>2, <3>3 DEF TypeOK, Orders
<1>2. TypeOK /\ [Next]_vars => TypeOK'
  <2> SUFFICES ASSUME TypeOK, [Next]_vars PROVE TypeOK'
    OBVIOUS
  <2>1. ASSUME NEW o \in resting, NEW n \in 1 .. o.left, ExchangeFill(o, n)
        PROVE  TypeOK'
    <3>1. o \in Orders
      BY DEF TypeOK, Orders
    <3>2. o.left \in Nat /\ IdOf(o) \in OrderIds
      BY <3>1 DEF Orders, IdOf, OrderIds
    <3>3. n # o.left => [o EXCEPT !.left = @ - n] \in Orders
      <4>1. n # o.left => o.left - n \in Nat \ {0}
        BY <3>2
      <4> QED
        BY <3>1, <4>1, FilledOrder
    <3>4. resting' \subseteq Orders
      BY <2>1, <3>3 DEF ExchangeFill, TypeOK, Orders
    <3>5. unbooked' \subseteq [order : OrderIds, size : Nat \ {0}, left : Nat]
      <4>1. [order |-> IdOf(o), size |-> n, left |-> o.left - n]
              \in [order : OrderIds, size : Nat \ {0}, left : Nat]
        BY <3>2
      <4> QED
        BY <2>1, <4>1 DEF ExchangeFill, TypeOK
    <3> QED
      BY <2>1, <3>4, <3>5 DEF ExchangeFill, TypeOK, Orders, OrderIds, gateVars
  <2>2. ASSUME NEW t \in Tickers, MarketCloses(t)
        PROVE  TypeOK'
    BY <2>2 DEF MarketCloses, TypeOK, OrderIds, gateVars
  <2>3. ASSUME NEW t \in Tickers, Requote(t)
        PROVE  TypeOK'
    BY <2>3, RequoteType
  <2>4. ASSUME NEW f \in unbooked, BookFill(f)
        PROVE  TypeOK'
    <3>1. f \in [order : OrderIds, size : Nat \ {0}, left : Nat]
      BY DEF TypeOK
    <3>2. f.order \in OrderIds /\ f.order.ticker \in Tickers /\ f.size \in Nat
          /\ f.order.side \in Sides
      BY <3>1 DEF OrderIds
    <3>3. resting' \subseteq Orders
      <4>1. \A o \in resting : [o EXCEPT !.adrift = TRUE] \in Orders
        BY AdriftOrder DEF TypeOK, Orders
      <4> QED
        BY <2>4, <4>1 DEF BookFill, LetGo, TypeOK, Orders
    <3>4. slot' \in [Tickers -> [Sides -> (1 .. quotes) \cup {NoOrder}]]
      BY <2>4, <3>2 DEF BookFill, SlotsAfterFill, TypeOK
    <3>5. position' \in [Tickers -> Int]
      BY <2>4, <3>2 DEF BookFill, TypeOK, Sign
    <3> QED
      BY <2>4, <3>3, <3>4, <3>5 DEF BookFill, TypeOK, Orders, OrderIds, gateVars
  <2>5. ASSUME NEW m \in Moods, SpotTick(m)
        PROVE  TypeOK'
    BY <2>5, GateType DEF SpotTick
  <2>6. ASSUME NEW m \in Moods, TimePasses(m)
        PROVE  TypeOK'
    BY <2>6 DEF TimePasses, TypeOK, OrderIds, exchangeVars
  <2>7. CASE BackoffEnds
    BY <2>7 DEF BackoffEnds, TypeOK, OrderIds, exchangeVars, gateVars
  <2>8. CASE UpdateSpotGate
    BY <2>8, GateType DEF UpdateSpotGate, TypeOK
  <2>9. CASE HaltAllTrading
    BY <2>9 DEF HaltAllTrading, TypeOK, OrderIds, gateVars
  <2>10. CASE UNCHANGED vars
    BY <2>10 DEF vars, exchangeVars, gateVars, TypeOK, OrderIds
  <2> QED
    BY <2>1, <2>2, <2>3, <2>4, <2>5, <2>6, <2>7, <2>8, <2>9, <2>10 DEF Next
<1> QED
  BY <1>1, <1>2, PTL DEF Spec

-------------------------------------------------------------------------------
\* An order is untracked for one of the reasons named, and a tracked id is live.
OInv == OrphansAreExplained /\ SlotsAreLive

\* What requoting does to the book and to the slots.
LEMMA RequoteEffect ==
    ASSUME TypeOK, NEW t \in Tickers, Requote(t)
    PROVE  /\ running /\ UNCHANGED <<unbooked, expired, running>>
           /\ \A o \in resting' \ resting : o.adrift \/ Tracked(o)'
           /\ \A o \in resting' \cap resting : o.ticker = t => ~Tracked(o) \/ o.adrift
           /\ \A o \in resting : o.ticker # t => o \in resting'
           /\ \A u \in Tickers \ {t} : slot'[u] = slot[u]
           /\ \A s \in Sides : slot'[t][s] # NoOrder =>
                 \E o \in resting' :
                    IdOf(o) = [num |-> slot'[t][s], ticker |-> t, side |-> s]
<1>1. PICK size \in [Sides -> QuoteSizes], sides \in SUBSET Sides :
        \E answer \in [{s \in sides : MayPlace(t, s, size[s])} -> Answers],
           reached \in SUBSET Quoted({t}) :
          /\ resting' = AfterCancel(Quoted({t}), reached)
                 \cup {[num |-> quotes + 1, ticker |-> t, side |-> s, left |-> size[s],
                        adrift |-> answer[s] = "unanswered"] :
                        s \in {s \in DOMAIN answer : Rests(answer[s])}}
          /\ slot' = [slot EXCEPT ![t] = [s \in Sides |->
                 IF s \in DOMAIN answer /\ answer[s] = "accepted"
                   THEN quotes + 1 ELSE NoOrder]]
  BY DEF Requote
<1>2. PICK answer \in [{s \in sides : MayPlace(t, s, size[s])} -> Answers],
           reached \in SUBSET Quoted({t}) :
          /\ resting' = AfterCancel(Quoted({t}), reached)
                 \cup {[num |-> quotes + 1, ticker |-> t, side |-> s, left |-> size[s],
                        adrift |-> answer[s] = "unanswered"] :
                        s \in {s \in DOMAIN answer : Rests(answer[s])}}
          /\ slot' = [slot EXCEPT ![t] = [s \in Sides |->
                 IF s \in DOMAIN answer /\ answer[s] = "accepted"
                   THEN quotes + 1 ELSE NoOrder]]
  BY <1>1
<1> DEFINE New(s) == [num |-> quotes + 1, ticker |-> t, side |-> s, left |-> size[s],
                      adrift |-> answer[s] = "unanswered"]
<1>3. /\ AfterCancel(Quoted({t}), reached) \subseteq Orders
      /\ \A o \in AfterCancel(Quoted({t}), reached) : o \in resting \ Quoted({t}) \/ o.adrift
      /\ resting \ Quoted({t}) \subseteq AfterCancel(Quoted({t}), reached)
  BY CancelledBook DEF Quoted
<1>4. slot \in [Tickers -> [Sides -> (1 .. quotes) \cup {NoOrder}]]
  BY DEF TypeOK
<1>5. slot'[t] = [s \in Sides |-> IF s \in DOMAIN answer /\ answer[s] = "accepted"
                                   THEN quotes + 1 ELSE NoOrder]
  BY <1>2, <1>4
<1>6. \A s \in DOMAIN answer : Rests(answer[s]) =>
        New(s).adrift \/ (slot'[t][s] = quotes + 1 /\ s \in Sides)
  BY <1>5 DEF Rests
<1>7. \A o \in resting' : \/ o \in resting \ Quoted({t})
                          \/ o.adrift
                          \/ Tracked(o)'
  <2> SUFFICES ASSUME NEW o \in resting', o \notin AfterCancel(Quoted({t}), reached)
               PROVE  o.adrift \/ Tracked(o)'
    BY <1>3
  <2>1. PICK s \in DOMAIN answer : Rests(answer[s]) /\ o = New(s)
    BY <1>2
  <2>2. CASE New(s).adrift
    BY <2>1, <2>2
  <2>3. CASE slot'[t][s] = quotes + 1
    <3>1. o.ticker = t /\ o.side = s /\ o.num = quotes + 1
      BY <2>1
    <3> QED
      BY <2>3, <3>1 DEF Tracked
  <2> QED
    BY <1>6, <2>1, <2>2, <2>3
<1>8. \A o \in resting' \cap resting : o.ticker = t => ~Tracked(o) \/ o.adrift
  <2> SUFFICES ASSUME NEW o \in resting', o \in resting, o.ticker = t, Tracked(o)
               PROVE  o.adrift
    OBVIOUS
  <2>1. o \in Quoted({t})
    BY DEF Quoted
  <2>2. o.num \in 0 .. quotes
    BY DEF TypeOK
  <2>3. quotes \in Nat
    BY DEF TypeOK
  <2>4. \A s \in DOMAIN answer : New(s).num = quotes + 1
    OBVIOUS
  <2>5. \A s \in DOMAIN answer : o # New(s)
    BY <2>2, <2>3, <2>4
  <2>6. o \in AfterCancel(Quoted({t}), reached)
    BY <1>2, <2>5
  <2> QED
    BY <1>3, <2>1, <2>6
<1>9. \A o \in resting : o.ticker # t => o \in resting'
  BY <1>2, <1>3 DEF Quoted
<1>10. \A u \in Tickers \ {t} : slot'[u] = slot[u]
  BY <1>2, <1>4
<1>11. \A s \in Sides : slot'[t][s] # NoOrder =>
         \E o \in resting' : IdOf(o) = [num |-> slot'[t][s], ticker |-> t, side |-> s]
  <2> SUFFICES ASSUME NEW s \in Sides, slot'[t][s] # NoOrder
               PROVE  \E o \in resting' :
                        IdOf(o) = [num |-> slot'[t][s], ticker |-> t, side |-> s]
    OBVIOUS
  <2>1. s \in DOMAIN answer /\ answer[s] = "accepted" /\ slot'[t][s] = quotes + 1
    BY <1>5
  <2>2. New(s) \in resting'
    BY <1>2, <2>1 DEF Rests
  <2>3. IdOf(New(s)) = [num |-> quotes + 1, ticker |-> t, side |-> s]
    BY DEF IdOf
  <2> QED
    BY <2>1, <2>2, <2>3
<1>12. running /\ UNCHANGED <<unbooked, expired, running>>
  BY DEF Requote, MayQuote
<1> QED
  BY <1>7, <1>8, <1>9, <1>10, <1>11, <1>12

\* What the gate's pull does to the book and to the slots.
LEMMA PullEffect ==
    ASSUME TypeOK, PullSpotQuotes
    PROVE  /\ \A o \in resting' : o.adrift \/ (o \in resting \ Quoted(Bound))
           /\ \A o \in resting : o.ticker \notin Bound => o \in resting'
           /\ \A u \in Tickers \ Bound : slot'[u] = slot[u]
           /\ \A u \in Bound : \A s \in Sides : slot'[u][s] = NoOrder
<1>1. PICK reached \in SUBSET Quoted(Bound) :
        resting' = AfterCancel(Quoted(Bound), reached)
  BY DEF PullSpotQuotes
<1>2. /\ \A o \in resting' : o.adrift \/ (o \in resting \ Quoted(Bound))
      /\ \A o \in resting : o.ticker \notin Bound => o \in resting'
  BY <1>1, CancelledBook DEF Quoted
<1>3. \A u \in Tickers : slot'[u] = IF u \in Bound THEN [s \in Sides |-> NoOrder] ELSE slot[u]
  BY DEF PullSpotQuotes
<1> QED
  BY <1>2, <1>3

\* The gate keeps both parts of the invariant, on whatever mood it is evaluated.
LEMMA GateKeeps ==
    ASSUME TypeOK, OInv, NEW m, EvaluateGate(m),
           UNCHANGED <<unbooked, expired, running>>
    PROVE  OInv'
<1>1. CASE GatedIn(m) /\ ~gateOn
  <2>1. PullSpotQuotes
    BY <1>1 DEF EvaluateGate
  <2>2. \A o \in resting : o.ticker \in Tickers /\ o.side \in Sides
    BY DEF TypeOK
  <2>3. OrphansAreExplained'
    <3> SUFFICES ASSUME NEW o \in resting', ~o.adrift PROVE Tracked(o)'
      BY DEF OrphansAreExplained
    <3>1. o \in resting \ Quoted(Bound)
      BY <2>1, PullEffect
    <3>2. Tracked(o)
      BY <3>1 DEF OInv, OrphansAreExplained
    <3>3. o.ticker \in Tickers \ Bound
      BY <2>2, <3>1, <3>2 DEF Quoted
    <3> QED
      BY <2>1, <3>2, <3>3, PullEffect DEF Tracked
  <2>4. SlotsAreLive'
    <3> SUFFICES ASSUME running', NEW t \in Tickers, t \notin expired', NEW s \in Sides,
                        slot'[t][s] # NoOrder
                 PROVE  LET id == [num |-> slot'[t][s], ticker |-> t, side |-> s]
                        IN  (\E o \in resting' : IdOf(o) = id)
                            \/ (\E f \in unbooked' : f.order = id)
      BY DEF SlotsAreLive
    <3>1. t \notin Bound /\ slot'[t] = slot[t]
      BY <2>1, PullEffect
    <3>2. \A o \in resting : IdOf(o) = [num |-> slot[t][s], ticker |-> t, side |-> s]
                             => o.ticker = t
      BY DEF IdOf
    <3> QED
      BY <2>1, <3>1, <3>2, PullEffect DEF OInv, SlotsAreLive
  <2> QED
    BY <2>3, <2>4 DEF OInv
<1>2. CASE ~(GatedIn(m) /\ ~gateOn)
  BY <1>2 DEF EvaluateGate, OInv, OrphansAreExplained, SlotsAreLive, Tracked
<1> QED
  BY <1>1, <1>2

\* Requoting keeps both parts of the invariant.
LEMMA RequoteKeeps ==
    ASSUME TypeOK, OInv, NEW t \in Tickers, Requote(t)
    PROVE  OInv'
<1>1. \A o \in resting : o.ticker \in Tickers /\ o.side \in Sides
  BY DEF TypeOK
<1>2. OrphansAreExplained'
  <2> SUFFICES ASSUME NEW o \in resting', ~o.adrift PROVE Tracked(o)'
    BY DEF OrphansAreExplained
  <2>1. CASE o \notin resting
    BY <2>1, RequoteEffect
  <2>2. CASE o \in resting
    <3>1. Tracked(o)
      BY <2>2 DEF OInv, OrphansAreExplained
    <3>2. o.ticker # t
      BY <2>2, <3>1, RequoteEffect
    <3> QED
      BY <1>1, <2>2, <3>1, <3>2, RequoteEffect DEF Tracked
  <2> QED
    BY <2>1, <2>2
<1>3. SlotsAreLive'
  <2> SUFFICES ASSUME NEW u \in Tickers, u \notin expired', NEW s \in Sides,
                      slot'[u][s] # NoOrder
               PROVE  LET id == [num |-> slot'[u][s], ticker |-> u, side |-> s]
                      IN  (\E o \in resting' : IdOf(o) = id)
                          \/ (\E f \in unbooked' : f.order = id)
    BY DEF SlotsAreLive
  <2>1. CASE u = t
    BY <2>1, RequoteEffect
  <2>2. CASE u # t
    <3>1. slot'[u] = slot[u] /\ running /\ unbooked' = unbooked /\ expired' = expired
      BY <2>2, RequoteEffect
    <3>2. \A o \in resting : IdOf(o) = [num |-> slot[u][s], ticker |-> u, side |-> s]
                             => o \in resting'
      BY <2>2, RequoteEffect DEF IdOf
    <3> QED
      BY <3>1, <3>2 DEF OInv, SlotsAreLive
  <2> QED
    BY <2>1, <2>2
<1> QED
  BY <1>2, <1>3 DEF OInv

\* So does booking a fill: it releases the slot of its own order and no other.
LEMMA BookKeeps ==
    ASSUME TypeOK, OInv, NEW f \in unbooked, BookFill(f)
    PROVE  OInv'
<1>1. f.order \in OrderIds /\ f.order.ticker \in Tickers /\ f.order.side \in Sides
  BY DEF TypeOK, OrderIds
<1>2. resting' = LetGo({o \in resting : IdOf(o) = f.order})
                    \cup {o \in resting : IdOf(o) # f.order}
  BY DEF BookFill
<1>3. \A t \in Tickers : \A s \in Sides : slot'[t][s] =
        IF t = f.order.ticker /\ s = f.order.side /\ slot[t][s] = f.order.num
          THEN NoOrder ELSE slot[t][s]
  BY <1>1 DEF BookFill, SlotsAfterFill, TypeOK
<1>4. \A o \in resting : /\ IdOf(o) \in OrderIds
                         /\ o.ticker \in Tickers /\ o.side \in Sides
                         /\ o \in Orders
  BY DEF TypeOK, IdOf, OrderIds, Orders
<1>5. OrphansAreExplained'
  <2> SUFFICES ASSUME NEW o \in resting', ~o.adrift PROVE Tracked(o)'
    BY DEF OrphansAreExplained
  <2>1. o \in resting /\ IdOf(o) # f.order
    BY <1>2, <1>4, AdriftOrder DEF LetGo
  <2>2. Tracked(o)
    BY <2>1 DEF OInv, OrphansAreExplained
  <2>3. ~(o.num = f.order.num /\ o.ticker = f.order.ticker /\ o.side = f.order.side)
    BY <1>1, <1>4, <2>1, SameId DEF IdOf
  <2> QED
    BY <1>3, <1>4, <2>1, <2>2, <2>3 DEF Tracked
<1>6. SlotsAreLive'
  <2> SUFFICES ASSUME NEW t \in Tickers, t \notin expired', NEW s \in Sides,
                      slot'[t][s] # NoOrder
               PROVE  LET id == [num |-> slot'[t][s], ticker |-> t, side |-> s]
                      IN  (\E o \in resting' : IdOf(o) = id)
                          \/ (\E g \in unbooked' : g.order = id)
    BY DEF SlotsAreLive
  <2> DEFINE id == [num |-> slot[t][s], ticker |-> t, side |-> s]
  <2>1. slot'[t][s] = slot[t][s] /\ slot[t][s] # NoOrder
    BY <1>3
  <2>2. id # f.order
    BY <1>3, <2>1
  <2>3. running /\ expired' = expired /\ unbooked' = unbooked \ {f}
    BY DEF BookFill
  <2>4. (\E o \in resting : IdOf(o) = id) \/ (\E g \in unbooked : g.order = id)
    BY <2>1, <2>3 DEF OInv, SlotsAreLive
  <2>5. (\E o \in resting' : IdOf(o) = id) \/ (\E g \in unbooked' : g.order = id)
    BY <1>2, <2>2, <2>3, <2>4
  <2> QED
    BY <2>1, <2>5
<1> QED
  BY <1>5, <1>6 DEF OInv

-------------------------------------------------------------------------------
\* No order is lost silently, and no slot stays occupied by a finished order.
THEOREM OrderInvariant == Spec => []OInv
<1>1. Init => OInv
  <2> SUFFICES ASSUME Init PROVE OInv
    OBVIOUS
  <2>1. \A o \in resting : o.adrift
    BY DEF Init
  <2>2. \A t \in Tickers : \A s \in Sides : slot[t][s] = NoOrder
    BY DEF Init
  <2> QED
    BY <2>1, <2>2 DEF OInv, OrphansAreExplained, SlotsAreLive
<1>2. TypeOK /\ OInv /\ [Next]_vars => OInv'
  <2> SUFFICES ASSUME TypeOK, OInv, [Next]_vars PROVE OInv'
    OBVIOUS
  <2>1. ASSUME NEW o \in resting, NEW n \in 1 .. o.left, ExchangeFill(o, n)
        PROVE  OInv'
    <3>1. o \in Orders /\ n \in Nat \ {0} /\ o.left \in Nat
      BY DEF TypeOK, Orders
    <3> DEFINE rest == [o EXCEPT !.left = o.left - n]
    <3>2. n # o.left => rest.adrift = o.adrift /\ IdOf(rest) = IdOf(o)
      <4>1. n # o.left => o.left - n \in Nat \ {0}
        BY <3>1
      <4> QED
        BY <3>1, <4>1, FilledOrder
    <3>3. resting' = (resting \ {o}) \cup (IF n = o.left THEN {} ELSE {rest})
      BY <2>1 DEF ExchangeFill
    <3>4. \E f \in unbooked' : f.order = IdOf(o)
      <4> DEFINE fill == [order |-> IdOf(o), size |-> n, left |-> o.left - n]
      <4>1. fill \in unbooked'
        BY <2>1 DEF ExchangeFill
      <4>2. fill.order = IdOf(o)
        OBVIOUS
      <4> HIDE DEF fill
      <4> QED
        BY <4>1, <4>2
    <3>5. unbooked \subseteq unbooked' /\ UNCHANGED <<slot, expired, running>>
      BY <2>1 DEF ExchangeFill
    <3>6. OrphansAreExplained'
      <4>1. n # o.left => (Tracked(rest)' <=> Tracked(o))
        BY <3>2, <3>5 DEF Tracked, IdOf
      <4> QED
        BY <3>2, <3>3, <3>5, <4>1 DEF OInv, OrphansAreExplained, Tracked
    <3>7. SlotsAreLive'
      BY <3>3, <3>4, <3>5 DEF OInv, SlotsAreLive
    <3> QED
      BY <3>6, <3>7 DEF OInv
  <2>2. ASSUME NEW t \in Tickers, MarketCloses(t)
        PROVE  OInv'
    <3>1. OrphansAreExplained'
      BY <2>2 DEF MarketCloses, OInv, OrphansAreExplained, Tracked
    <3>2. SlotsAreLive'
      <4> SUFFICES ASSUME running', NEW u \in Tickers, u \notin expired', NEW s \in Sides,
                          slot'[u][s] # NoOrder
                   PROVE  LET id == [num |-> slot'[u][s], ticker |-> u, side |-> s]
                          IN  (\E o \in resting' : IdOf(o) = id)
                              \/ (\E f \in unbooked' : f.order = id)
        BY DEF SlotsAreLive
      <4>1. u # t /\ u \notin expired /\ running /\ slot' = slot /\ unbooked' = unbooked
            /\ \A o \in resting : o.ticker = u => o \in resting'
        BY <2>2 DEF MarketCloses
      <4>2. \A o \in resting : IdOf(o) = [num |-> slot[u][s], ticker |-> u, side |-> s]
                               => o.ticker = u
        BY DEF IdOf
      <4> QED
        BY <4>1, <4>2 DEF OInv, SlotsAreLive
    <3> QED
      BY <3>1, <3>2 DEF OInv
  <2>3. ASSUME NEW t \in Tickers, Requote(t)
        PROVE  OInv'
    BY <2>3, RequoteKeeps
  <2>4. ASSUME NEW f \in unbooked, BookFill(f)
        PROVE  OInv'
    BY <2>4, BookKeeps
  <2>5. ASSUME NEW m \in Moods, SpotTick(m)
        PROVE  OInv'
    BY <2>5, GateKeeps DEF SpotTick
  <2>6. CASE UpdateSpotGate
    BY <2>6, GateKeeps DEF UpdateSpotGate
  <2>7. CASE HaltAllTrading
    BY <2>7 DEF HaltAllTrading, OInv, OrphansAreExplained, SlotsAreLive, Tracked
  <2>8. ASSUME UNCHANGED <<exchangeVars, slot, running>>
        PROVE  OInv'
    BY <2>8 DEF exchangeVars, OInv, OrphansAreExplained, SlotsAreLive, Tracked
  <2> QED
    BY <2>1, <2>2, <2>3, <2>4, <2>5, <2>6, <2>7, <2>8
       DEF Next, vars, TimePasses, BackoffEnds
<1> QED
  BY <1>1, <1>2, OrderTypes, PTL DEF Spec

\* No order is lost silently: one that rests without the trader holding its id
\* was let go by a lost cancel, a lost answer, a partial fill or an earlier process.
THEOREM OrphansExplained == Spec => []OrphansAreExplained
<1>1. OInv => OrphansAreExplained
  BY DEF OInv
<1> QED
  BY <1>1, OrderInvariant, PTL

\* No slot stays occupied by a finished order, so a market that is still open
\* never blocks the order budget with orders that are gone.
THEOREM SlotsLive == Spec => []SlotsAreLive
<1>1. OInv => SlotsAreLive
  BY DEF OInv
<1> QED
  BY <1>1, OrderInvariant, PTL
-------------------------------------------------------------------------------
\* The order budget.

\* A requote fills at most the two slots of its ticker.
LEMMA RequoteFills ==
    ASSUME TypeOK, NEW t \in Tickers, Requote(t)
    PROVE  Filled' \subseteq Filled \cup {<<t, "bid">>, <<t, "ask">>}
<1>1. \A u \in Tickers : u # t => slot'[u] = slot[u]
  BY DEF Requote, TypeOK
<1>2. ASSUME NEW ts \in Slots, ts[1] = t
      PROVE  ts = <<t, "bid">> \/ ts = <<t, "ask">>
  BY <1>2 DEF Slots, Sides
<1> QED
  BY <1>1, <1>2 DEF Filled, Slots

\* Nothing else fills a slot.
LEMMA OnlyRequotesFill ==
    ASSUME TypeOK, [Next]_vars, \A t \in Tickers : ~Requote(t)
    PROVE  Filled' \subseteq Filled
<1>1. ASSUME \A t \in Tickers, s \in Sides : slot'[t][s] \in {slot[t][s], NoOrder}
      PROVE  Filled' \subseteq Filled
  BY <1>1 DEF Filled, Slots
<1>2. ASSUME UNCHANGED slot
      PROVE  Filled' \subseteq Filled
  BY <1>2 DEF Filled
<1>3. ASSUME NEW f \in unbooked, BookFill(f)
      PROVE  Filled' \subseteq Filled
  <2>1. \A t \in Tickers, s \in Sides : slot'[t][s] \in {slot[t][s], NoOrder}
    BY <1>3 DEF BookFill, SlotsAfterFill, TypeOK
  <2> QED
    BY <1>1, <2>1
<1>4. ASSUME NEW m \in Moods, EvaluateGate(m)
      PROVE  Filled' \subseteq Filled
  <2>1. \A t \in Tickers, s \in Sides : slot'[t][s] \in {slot[t][s], NoOrder}
    BY <1>4 DEF EvaluateGate, PullSpotQuotes
  <2> QED
    BY <1>1, <2>1
<1>5. CASE UpdateSpotGate
  BY <1>4, <1>5 DEF UpdateSpotGate, TypeOK
<1>6. CASE \E m \in Moods : SpotTick(m)
  BY <1>4, <1>6 DEF SpotTick
<1> QED
  BY <1>2, <1>3, <1>5, <1>6
     DEF Next, vars, ExchangeFill, MarketCloses, TimePasses, BackoffEnds, HaltAllTrading

\* Two slots more are at most two orders more.
LEMMA TwoMore ==
    ASSUME NEW S, IsFiniteSet(S), NEW a, NEW b, NEW T \in SUBSET (S \cup {a, b})
    PROVE  /\ IsFiniteSet(T)
           /\ Cardinality(S) \in Nat /\ Cardinality(T) \in Nat
           /\ Cardinality(T) <= Cardinality(S) + 2
<1>1. IsFiniteSet(S \cup {a}) /\ Cardinality(S \cup {a}) \in {Cardinality(S), Cardinality(S) + 1}
  BY FS_AddElement
<1> DEFINE one == S \cup {a}
           two == one \cup {b}
<1>2. /\ IsFiniteSet(two)
      /\ Cardinality(two) \in {Cardinality(one), Cardinality(one) + 1}
  BY <1>1, FS_AddElement
<1>3. T \in SUBSET two
  OBVIOUS
<1> HIDE DEF two
<1>4. IsFiniteSet(T) /\ Cardinality(T) <= Cardinality(two)
  BY <1>2, <1>3, FS_Subset
<1>5. Cardinality(S) \in Nat /\ Cardinality(T) \in Nat
  BY <1>4, FS_CardinalityType
<1> QED
  BY <1>1, <1>2, <1>4, <1>5

\* There are only ever finitely many orders in the slots, however many tickers.
THEOREM SlotsFinite == Spec => []IsFiniteSet(Filled)
<1>1. Init => IsFiniteSet(Filled)
  <2>1. Init => Filled = {}
    BY DEF Init, Filled, Slots
  <2> QED
    BY <2>1, FS_EmptySet
<1>2. TypeOK /\ IsFiniteSet(Filled) /\ [Next]_vars => IsFiniteSet(Filled)'
  <2> SUFFICES ASSUME TypeOK, IsFiniteSet(Filled), [Next]_vars PROVE IsFiniteSet(Filled')
    OBVIOUS
  <2>1. ASSUME NEW t \in Tickers, Requote(t)
        PROVE  IsFiniteSet(Filled')
    BY <2>1, RequoteFills, TwoMore
  <2>2. CASE \A t \in Tickers : ~Requote(t)
    BY <2>2, OnlyRequotesFill, FS_Subset
  <2> QED
    BY <2>1, <2>2
<1> QED
  BY <1>1, <1>2, OrderTypes, PTL DEF Spec

\* For every set of tickers and every limit: the quote that brings a ticker in
\* leaves at most one order more than max_open_orders in the slots
\* (engine.rs:121-125, state.rs:301-306).
THEOREM BudgetHolds == Spec => BudgetAdmits
<1>1. ASSUME TypeOK, IsFiniteSet(Filled), [Next]_vars,
             NEW t \in Tickers, everQuoted'[t], ~everQuoted[t]
      PROVE  OpenOrderCount' <= MaxOpenOrders + 1
  <2>1. Requote(t)
    <3>1. ASSUME NEW u \in Tickers, Requote(u), u # t
          PROVE  everQuoted'[t] = everQuoted[t]
      BY <1>1, <3>1 DEF Requote, TypeOK
    <3>2. CASE \A u \in Tickers : ~Requote(u)
      BY <1>1, <3>2 DEF Next, vars, ExchangeFill, MarketCloses, BookFill, SpotTick, TimePasses,
                        BackoffEnds, UpdateSpotGate, HaltAllTrading
    <3> QED
      BY <1>1, <3>1, <3>2
  <2>2. Cardinality(Filled) < MaxOpenOrders
    BY <1>1, <2>1 DEF Requote, MayPlan, WithinBudget, OpenOrderCount
  <2>3. /\ Cardinality(Filled) \in Nat /\ Cardinality(Filled') \in Nat
        /\ Cardinality(Filled') <= Cardinality(Filled) + 2
    BY <1>1, <2>1, RequoteFills, TwoMore
  <2> QED
    BY <2>2, <2>3 DEF OpenOrderCount
<1>2. TypeOK /\ IsFiniteSet(Filled) /\ [Next]_vars
        => [\A t \in Tickers : everQuoted'[t] /\ ~everQuoted[t]
              => OpenOrderCount' <= MaxOpenOrders + 1]_vars
  BY <1>1
<1> QED
  BY <1>2, OrderTypes, SlotsFinite, PTL DEF Spec, BudgetAdmits
===============================================================================
