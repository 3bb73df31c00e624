------------------------------ MODULE ExitProofs ------------------------------
(***************************************************************************)
(* Exits against unbooked exits, proved for every backoff, holdoff, lag    *)
(* and position size.                                                      *)
(***************************************************************************)
EXTENDS ExitOrders, TLAPS

USE BackoffAssumption, HoldoffAssumption, LagAssumption, NetAssumption

\* A retry delay is at least the base and at most the cap.
LEMMA DelayBounds ==
    ASSUME NEW backoff \in {0} \cup Base .. Cap
    PROVE  Delay(backoff) \in Base .. Cap
  BY DEF Delay, Min

\* An exit order, filled in part or not at all, keeps the exchange's types.
LEMMA ExitPlanType ==
    ASSUME TypeOK, NEW filled \in 0 .. Abs(position), ApplyExitPlan(filled)
    PROVE  /\ held' \in -MaxNet .. MaxNet
           /\ unbooked' \in Int
           /\ filled \in Nat
<1>1. Abs(position) \in Nat
  BY DEF TypeOK, Abs
<1>2. filled \in Nat
  BY <1>1
<1>3. held' \in -MaxNet .. MaxNet /\ unbooked' \in Int
  BY <1>2 DEF TypeOK, ApplyExitPlan, Fills, Abs
<1> QED
  BY <1>2, <1>3

-------------------------------------------------------------------------------
\* An attempt of check_exits: the ladder entry it leaves.
LEMMA AttemptRetry ==
    ASSUME TypeOK, Attempt
    PROVE  /\ retry' \in Retries
           /\ retry' # NoRetry
           /\ retry'.wait \in Base .. Cap
           /\ retry'.seen = position
<1>1. (IF Stuck THEN retry.backoff ELSE 0) \in {0} \cup Base .. Cap
  BY DEF Stuck, TypeOK, Retries
<1>2. PICK backoff \in Base .. Cap :
        retry' = [backoff |-> backoff, wait |-> backoff, seen |-> position]
  <2>1. Delay(IF Stuck THEN retry.backoff ELSE 0) \in Base .. Cap
    BY <1>1, DelayBounds
  <2> QED
    BY <2>1 DEF Attempt
<1>3. backoff \in 0 .. Cap /\ backoff \in Int /\ position \in Int
  BY DEF TypeOK
<1>4. retry' \in [backoff : Int, wait : Int, seen : Int]
  BY <1>2, <1>3
<1> QED
  BY <1>2, <1>3, <1>4, NoRetryAssumption DEF Retries

\* Every variable keeps its type: backoffs stay between the base and the cap,
\* and nothing is waited for longer than its own delay.
LEMMA TypeInit == Init => TypeOK
  BY DEF Init, TypeOK

LEMMA TypeStep ==
    ASSUME TypeOK, [Next]_vars
    PROVE  TypeOK'
<1>1. CASE QuoteFills
  BY <1>1 DEF QuoteFills, Fills, Abs, TypeOK
<1>2. CASE ExpiryNears \/ MarketCloses
  BY <1>2 DEF ExpiryNears, MarketCloses, MarketMoves, TypeOK
<1>3. CASE BookMoves
  <2>1. book' \in SUBSET {"bid", "ask"}
    BY <1>3 DEF BookMoves, TypeOK
  <2> QED
    BY <1>3, <2>1 DEF BookMoves, TypeOK
<1>4. CASE Tick
  <2>1. retry' \in Retries \cup {NoRetry}
    <3>1. CASE retry = NoRetry
      BY <1>4, <3>1 DEF Tick
    <3>2. CASE retry # NoRetry
      <4>1. retry \in Retries
        BY <3>2 DEF TypeOK
      <4>2. Less(retry.wait, 1) \in 0 .. Cap
        BY <4>1 DEF Retries, Less
      <4> QED
        BY <1>4, <3>2, <4>1, <4>2 DEF Tick, Retries
    <3> QED
      BY <3>1, <3>2
  <2>2. holdoff' \in 0 .. Holdoff /\ lag' \in 0 .. MaxLag
    BY <1>4 DEF Tick, Less, TypeOK
  <2> QED
    BY <1>4, <2>1, <2>2 DEF Tick, TypeOK
<1>5. CASE Poll
  BY <1>5 DEF Poll, TypeOK
<1>6. CASE Sync
  BY <1>6 DEF Sync, TypeOK
<1>7. CASE Attempt
  <2>1. PICK filled \in 0 .. Abs(position) :
          /\ ApplyExitPlan(filled)
          /\ exited' = exited + filled
          /\ UNCHANGED <<phase, book, position, holdoff, lag, unwound>>
    BY <1>7 DEF Attempt
  <2>2. held' \in -MaxNet .. MaxNet /\ unbooked' \in Int /\ filled \in Nat
    BY <2>1, ExitPlanType
  <2>3. retry' \in Retries
    BY <1>7, AttemptRetry
  <2> QED
    BY <2>1, <2>2, <2>3 DEF TypeOK
<1>8. CASE Reap
  BY <1>8 DEF Reap, TypeOK
<1>9. CASE SpotUnwind
  <2>1. PICK filled \in 0 .. Abs(position) :
          /\ ApplyExitPlan(filled)
          /\ holdoff' = Holdoff
          /\ unwound' = unwound + filled
          /\ UNCHANGED <<phase, book, position, retry, lag, exited>>
    BY <1>9 DEF SpotUnwind
  <2>2. held' \in -MaxNet .. MaxNet /\ unbooked' \in Int /\ filled \in Nat
    BY <2>1, ExitPlanType
  <2> QED
    BY <2>1, <2>2 DEF TypeOK
<1>10. CASE UNCHANGED vars
  BY <1>10 DEF vars, TypeOK
<1> QED
  BY <1>1, <1>2, <1>3, <1>4, <1>5, <1>6, <1>7, <1>8, <1>9, <1>10
  DEF Next, Exchange, Trader, CheckExits

\* Type correctness: net positions stay within the bound, the ladder's delays
\* between the base and the cap.
THEOREM TypeCorrect == Spec => []TypeOK
<1>1. TypeOK /\ [Next]_vars => TypeOK'
  BY TypeStep
<1> QED
  BY TypeInit, <1>1, PTL DEF Spec

-------------------------------------------------------------------------------
\* What keeps exits apart.  An unbooked unwind is still covered by the holdoff
\* until polls have been missing for as long as it lasts.  An unbooked exit
\* leaves the position it was sized by, so its ladder entry is neither reaped
\* nor restarted, and covers it likewise.
HInv ==
    /\ unwound # 0 => holdoff + lag >= Holdoff
    /\ exited # 0 => /\ position # 0
                     /\ Stuck
                     /\ retry.wait + lag >= Base

LEMMA HInvStep ==
    ASSUME TypeOK, HInv, [Next]_vars
    PROVE  HInv'
<1>1. CASE QuoteFills \/ ExpiryNears \/ MarketCloses \/ BookMoves
  BY <1>1 DEF QuoteFills, ExpiryNears, MarketCloses, MarketMoves, BookMoves, HInv, Stuck
<1>2. CASE Tick
  <2>1. unwound' # 0 => holdoff' + lag' >= Holdoff
    BY <1>2 DEF Tick, Less, HInv, TypeOK
  <2>2. ASSUME exited' # 0
        PROVE  position' # 0 /\ Stuck' /\ retry'.wait + lag' >= Base
    <3>1. position # 0 /\ Stuck /\ retry.wait + lag >= Base
      BY <1>2, <2>2 DEF Tick, HInv
    <3>2. retry \in Retries /\ retry # NoRetry
      BY <3>1 DEF Stuck, TypeOK
    <3>3. retry' = [retry EXCEPT !.wait = Less(@, 1)]
      BY <1>2, <3>2 DEF Tick
    <3>4. /\ retry'.seen = retry.seen
          /\ retry'.wait = Less(retry.wait, 1)
          /\ retry.wait \in Nat
      BY <3>2, <3>3 DEF Retries
    <3>5. retry' # NoRetry
      <4>1. Less(retry.wait, 1) \in Int
        BY <3>4 DEF Less
      <4>2. retry' \in [backoff : Int, wait : Int, seen : Int]
        BY <3>2, <3>3, <4>1 DEF Retries
      <4> QED
        BY <4>2, NoRetryAssumption
    <3>6. retry'.wait + lag' >= Base
      BY <1>2, <3>1, <3>4 DEF Tick, Less, TypeOK
    <3> QED
      BY <1>2, <3>1, <3>4, <3>5, <3>6 DEF Tick, Stuck
  <2> QED
    BY <2>1, <2>2 DEF HInv
<1>3. CASE Poll \/ Sync
  BY <1>3 DEF Poll, Sync, HInv
<1>4. CASE Attempt
  <2>1. retry' # NoRetry /\ retry'.wait \in Base .. Cap /\ retry'.seen = position
    BY <1>4, AttemptRetry
  <2>2. position # 0 /\ UNCHANGED <<position, holdoff, lag, unwound>>
    BY <1>4 DEF Attempt, ExitDecision
  <2>3. Stuck' /\ retry'.wait + lag' >= Base
    BY <2>1, <2>2 DEF Stuck, TypeOK
  <2> QED
    BY <2>2, <2>3 DEF HInv
<1>5. CASE Reap
  BY <1>5 DEF Reap, HInv
<1>6. CASE SpotUnwind
  <2>1. holdoff' = Holdoff /\ UNCHANGED <<position, retry, lag, exited>>
    BY <1>6 DEF SpotUnwind
  <2> QED
    BY <2>1 DEF HInv, Stuck, TypeOK
<1>7. CASE UNCHANGED vars
  BY <1>7 DEF vars, HInv, Stuck
<1> QED
  BY <1>1, <1>2, <1>3, <1>4, <1>5, <1>6, <1>7
  DEF Next, Exchange, Trader, CheckExits

\* The covering invariant holds, whatever the lag.
THEOREM ExitsCovered == Spec => []HInv
<1>1. Init => HInv
  BY DEF Init, HInv
<1>2. TypeOK /\ HInv /\ [Next]_vars => HInv'
  BY HInvStep
<1> QED
  BY TypeCorrect, <1>1, <1>2, PTL DEF Spec

-------------------------------------------------------------------------------
\* One step never sells unbooked contracts again, polls permitting.
LEMMA AwaitStep ==
    ASSUME PollsKeepUp, TypeOK, HInv, [Next]_vars
    PROVE  /\ exited' > exited => exited = 0 /\ unwound = 0
           /\ unwound' > unwound => unwound = 0
<1>1. HoldoffOver => unwound = 0
  BY DEF HoldoffOver, HInv, TypeOK, PollsKeepUp
<1>2. CASE Attempt
  <2>1. HoldoffOver /\ (Stuck => retry.wait = 0) /\ unwound' = unwound
    BY <1>2 DEF Attempt
  <2>2. exited = 0
    BY <2>1 DEF HInv, TypeOK, PollsKeepUp
  <2> QED
    BY <1>1, <2>1, <2>2 DEF TypeOK
<1>3. CASE SpotUnwind
  BY <1>1, <1>3 DEF SpotUnwind, TypeOK
<1>4. CASE ~Attempt /\ ~SpotUnwind
  <2>1. exited' \in {0, exited} /\ unwound' \in {0, unwound}
    BY <1>4 DEF Next, Exchange, Trader, CheckExits, QuoteFills, ExpiryNears,
       MarketCloses, MarketMoves, BookMoves, Tick, Poll, Sync, Reap, vars
  <2> QED
    BY <2>1 DEF TypeOK
<1> QED
  BY <1>2, <1>3, <1>4

\* With less than a holdoff and less than the base delay between two polls that
\* succeed, no exit sells contracts an unbooked exit has already sold.
THEOREM AwaitBookings ==
    ASSUME PollsKeepUp
    PROVE  Spec => ExitsAwaitBookings
<1>1. TypeOK /\ HInv /\ [Next]_vars
        => [/\ exited' > exited => exited = 0 /\ unwound = 0
            /\ unwound' > unwound => unwound = 0]_vars
  BY AwaitStep
<1> QED
  BY TypeCorrect, ExitsCovered, <1>1, PTL DEF Spec, ExitsAwaitBookings
===============================================================================
