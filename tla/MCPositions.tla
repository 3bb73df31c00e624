----------------------------- MODULE MCPositions -----------------------------
(* PositionKeeping on strikes of one series. *)
EXTENDS PositionKeeping

MCCategoryOf == [t \in Tickers |-> CHOOSE c \in Categories : TRUE]

\* A sale of two flips a long of one.
MCFillDeltas == [t \in Tickers |-> {-2, 1}]
==============================================================================
