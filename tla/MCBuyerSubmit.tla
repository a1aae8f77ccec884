--------------------------- MODULE MCBuyerSubmit ---------------------------
(***************************************************************************)
(* One buy and one subscription of the same volume: the subscription's     *)
(* fill may or may not be within the buy's limit.                          *)
(***************************************************************************)
EXTENDS BuyerSubmit

Buys == {[ticks |-> 1, price |-> 1]}
Subscriptions == {[ticks |-> 1, price |-> 2]}
Clocks == {-1, 0, 1}
=============================================================================
