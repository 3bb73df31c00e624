---------------------------- MODULE MCMarketData ----------------------------
(* MarketData on two markets of one series. *)
EXTENDS MarketData, FiniteSets

\* The markets are dealt out so that every series has one.
MCCategoryOf ==
    CHOOSE f \in [Tickers -> Categories] : Cardinality({f[t] : t \in Tickers}) = Cardinality(Categories)
=============================================================================
