----------------------------- MODULE MCPoolLock -----------------------------
EXTENDS PoolLock
CONSTANTS t1, t2, t3, p1, p2, p3
\* Every thread in a process of its own.
OwnProcess(t) == CASE t = t1 -> p1 [] t = t2 -> p2 [] OTHER -> p3
\* Two threads of one process, and a second process that may end.
SharedProcess(t) == IF t = t1 THEN p1 ELSE p2
=============================================================================
