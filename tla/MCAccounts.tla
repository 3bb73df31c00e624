----------------------------- MODULE MCAccounts -----------------------------
(* Accounts of one market, with fills that open, average, close and flip. *)
EXTENDS Accounts

CONSTANT market

MCKinds == {
    [ticker |-> market, action |-> "buy", side |-> "yes", price |-> 40, size |-> 2,
     taker |-> FALSE],
    [ticker |-> market, action |-> "buy", side |-> "no", price |-> 45, size |-> 1,
     taker |-> TRUE],
    [ticker |-> market, action |-> "sell", side |-> "no", price |-> 75, size |-> 1,
     taker |-> FALSE]}
MCRate == [taker \in BOOLEAN |-> IF taker THEN 700 ELSE 175]
MCStopLoss == -100

\* A backfill may miss the oldest fills.  When its replay ends at the position
\* that all fills make, the missing ones had left the account flat, and the
\* entry price is right; when it does not, the backfill is refused.
ASSUME TruncatedReplayIsExact ==
    \A length \in 1 .. 5 : \A log \in [1 .. length -> MCKinds] :
      \A oldest \in 2 .. length :
        LET kept == Replay(SubSeq(log, oldest, length))
            full == Replay(log)
        IN kept.position = full.position => kept.entry = full.entry
===============================================================================
