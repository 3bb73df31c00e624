------------------------------- MODULE MCOrders -------------------------------
(* QuoteOrders on one spot-bound market and one that is not. *)
EXTENDS QuoteOrders

CONSTANTS bound, free
MCLeftover == {<<bound, "ask">>}
===============================================================================
