------------------------ MODULE MCInferenceOrderBook ------------------------
(***************************************************************************)
(* Small instances of the order book.  The fee is a quarter, so that a     *)
(* tick of price 4 costs 5 and one of price 8 costs 10.                    *)
(***************************************************************************)
EXTENDS InferenceOrderBook, TLC

CONSTANTS d1, d2, d3

\* Two asks at one price behind each other, and a dearer one.
TwoLevels == [d \in Deals |-> IF d = d3 THEN 8 ELSE 4]

\* The second deal serves three ticks, and the third five: an order of five takes
\* both in part or the last alone.
Volumes   == [d \in Deals |-> IF d = d2 THEN 3 ELSE 5]

\* The buyers differ in nothing but their names.
Symmetry  == Permutations(Buyers)
=============================================================================
