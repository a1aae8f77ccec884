-------------------------- MODULE MCTokenContract --------------------------
(***************************************************************************)
(* Small instances of the deal contract.  A tick is two tokens, so claims  *)
(* of half a tick exist; the fee is a quarter of the price and exact on    *)
(* half ticks, as it is for the whole-SHELL prices the book accepts; the   *)
(* rebate reaches its ceiling on the second tick.                          *)
(***************************************************************************)
EXTENDS TokenContract

\* A note attaches exactly the bond, or more than the bond.
ExactBond    == {BondAmount}
AnyBond      == {BondAmount, BondAmount + 3}

\* The seller draws part of a tick, or a whole one.
Draws        == {7, P}
=============================================================================
