--------------------------- MODULE MCQuotePricing ---------------------------
(* QuotePricing of the middle one of three strikes of one expiry. *)
EXTENDS QuotePricing

Strike(k) == [expiry |-> "hour", strike |-> k]
MCOwn == Strike(500)
MCTickers == {Strike(250), MCOwn, Strike(750)}

\* In the money below, out of it above, unless a level is missing and the mids of
\* the two cross; Own is in the middle of its range or in the extreme band, its own
\* book crossed or not.
MCLevels == [t \in MCTickers |->
    CASE t.strike = 250 -> [yes |-> {50, 700}, no |-> {200}]
      [] t.strike = 500 -> [yes |-> {50, 440}, no |-> {520, 905}]
      [] t.strike = 750 -> [yes |-> {100}, no |-> {150}]]

\* Finer at both ends.
MCRanges == {[lo |-> 0, hi |-> 100, step |-> 1], [lo |-> 100, hi |-> 900, step |-> 10],
             [lo |-> 900, hi |-> 1000, step |-> 1]}

MCDists == {-200, 1}
MCSkews == {5}
=============================================================================
