--------------------------- MODULE ExclusiveLock ---------------------------
(***************************************************************************)
(* What a pool lock promises its callers (cli/commands.rs): at any moment  *)
(* at most one update of the file it stands for is running, and a holder   *)
(* keeps the lock until it gives it back or its process dies.              *)
(***************************************************************************)
CONSTANTS Thread, NoThread

VARIABLE holder

Init == holder = NoThread
Acquire(t) == holder = NoThread /\ holder' = t
Release(t) == holder = t /\ holder' = NoThread
Next == \E t \in Thread : Acquire(t) \/ Release(t)
Spec == Init /\ [][Next]_holder
=============================================================================
