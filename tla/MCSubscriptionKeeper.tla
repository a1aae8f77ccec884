------------------------ MODULE MCSubscriptionKeeper ------------------------
(***************************************************************************)
(* A two-week subscription of four ticks.  Weeks are three seconds long    *)
(* and a claim matures in two, so a claim made late in a week is still     *)
(* maturing when the week ends.                                            *)
(***************************************************************************)
EXTENDS SubscriptionKeeper

\* A clock that is right (a step may take any time, so it may be behind when
\* the call lands), and one that is a second ahead of the chain.
Clocks == {0, 1}
=============================================================================
