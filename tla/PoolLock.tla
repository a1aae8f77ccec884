------------------------------ MODULE PoolLock ------------------------------
(***************************************************************************)
(* The write lock of a pool-shaped file (cli/commands.rs) and the buyer's  *)
(* money lock built on it (cli/buyer.rs).  The lock is a sentinel file     *)
(* created with create_new, which records its holder and carries an        *)
(* advisory lock for as long as it is held.  Drop removes it; a process    *)
(* that dies leaves it behind, and a later one takes it over when the      *)
(* advisory lock is free and the recorded process is gone.                 *)
(*                                                                         *)
(* A thread may be overtaken, or its process killed, between any two       *)
(* system calls that change or lock something; looking at the sentinel     *)
(* before the lock is tried (metadata, open, read) is one step, since what *)
(* it found is stale by then anyway. An open handle outlives the removal   *)
(* of its file: a path names an inode, a handle holds one. The update      *)
(* under the lock is a read of the file followed by an atomic replacement. *)
(*                                                                         *)
(* Left out: sentinels of other hosts and of builds that took no advisory  *)
(* lock, and platforms that cannot tell whether a process runs: all of     *)
(* them are refused like an unreadable record.                             *)
(***************************************************************************)
EXTENDS Naturals

CONSTANTS
  Thread, NoThread,
  Pid,             \* processes of this host
  PidOf(_),        \* the process a thread runs in
  Survivors,       \* processes that are not killed
  MoneyLock,       \* threads that take it as the buyer's money lock
  Sentinel         \* inodes the file may have

ASSUME LockAssumption ==
  /\ NoThread \notin Thread
  /\ \A t \in Thread : PidOf(t) \in Pid
  /\ Survivors \subseteq Pid /\ MoneyLock \subseteq Thread
  /\ 0 \notin Pid /\ 0 \notin Sentinel

\* The file system never runs out of inodes: there is one that no handle holds.
ASSUME InodeAssumption ==
  \A held \in [Thread -> Sentinel \cup {0}] :
    \E i \in Sentinel : \A t \in Thread : held[t] # i

VARIABLES
  path,      \* the inode the sentinel's name leads to, 0 when there is none
  record,    \* what each inode records: a pid, or 0 when nothing readable
  flock,     \* the thread holding the advisory lock of each inode
  alive,     \* running processes
  pc, fd,    \* each thread's next step and the inode its handle holds
  seen,      \* the record it read from its handle
  file,      \* the updates the guarded file contains
  copy,      \* what the update under way read of it
  done       \* updates reported as written
vars == <<path, record, flock, alive, pc, fd, seen, file, copy, done>>
guarded == <<file, copy, done>>

Nobody == 0
Held == {"update", "write", "unlink"}
Holders == {t \in Thread : pc[t] \in Held}

Init ==
  /\ path = 0
  /\ record = [i \in Sentinel |-> Nobody] /\ flock = [i \in Sentinel |-> NoThread]
  /\ alive = Pid
  /\ pc = [t \in Thread |-> "idle"] /\ fd = [t \in Thread |-> 0] /\ seen = [t \in Thread |-> Nobody]
  /\ file = {} /\ copy = [t \in Thread |-> {}] /\ done = {}

Goes(t, step) == pc' = [pc EXCEPT ![t] = step]
Closes(t) ==
  /\ flock' = [i \in Sentinel |-> IF flock[i] = t THEN NoThread ELSE flock[i]]
  /\ fd' = [fd EXCEPT ![t] = 0] /\ seen' = [seen EXCEPT ![t] = Nobody]
Fails(t) == Goes(t, "idle") /\ Closes(t)
\* A refusal to reclaim: an update of a pool file falls through to the ordinary
\* acquire, the money lock of a recovery gives up.
Refused(t) == Goes(t, IF t \in MoneyLock THEN "idle" ELSE "acquire") /\ Closes(t)
-----------------------------------------------------------------------------
(***************************************************************************)
(* reclaim_pool_write_lock_if_holder_is_gone                               *)
(***************************************************************************)
\* with_pool_write_lock and try_acquire_for_recovery start here: open the
\* sentinel and read what it records, or go on to create it.
Begin(t) ==
  /\ pc[t] = "idle" /\ t \notin done /\ PidOf(t) \in alive
  /\ IF path = 0
       THEN Goes(t, "acquire") /\ UNCHANGED <<fd, seen>>
       ELSE /\ Goes(t, "lock")
            /\ fd' = [fd EXCEPT ![t] = path]
            /\ seen' = [seen EXCEPT ![t] = record[path]]
  /\ UNCHANGED <<path, record, flock, alive, guarded>>

\* BuyerMoneyLock::try_acquire: a fresh buy does not try to reclaim.
BeginOrdinary(t) ==
  /\ pc[t] = "idle" /\ t \in MoneyLock \ done /\ Goes(t, "acquire")
  /\ UNCHANGED <<path, record, flock, alive, fd, seen, guarded>>

\* The advisory lock of the file that was opened.
TryLock(t) ==
  /\ pc[t] = "lock"
  /\ IF flock[fd[t]] = NoThread
       THEN Goes(t, "judge") /\ flock' = [flock EXCEPT ![fd[t]] = t] /\ UNCHANGED <<fd, seen>>
       ELSE Refused(t)
  /\ UNCHANGED <<path, record, alive, guarded>>

\* recorded_holder_is_running, of what was read before the lock was taken: only
\* a readable record of a process that is gone lets the sentinel be claimed.
\* Slip: a process id that cannot be looked up counts as running.
HolderUnknown(t) == FALSE
\* Slip: a free advisory lock is taken for a holder that is gone.
HolderUnlocked(t) == TRUE
HolderGone(t) == seen[t] # Nobody /\ seen[t] \notin alive
Judge(t) ==
  /\ pc[t] = "judge"
  /\ IF HolderGone(t) THEN Goes(t, "claim") /\ UNCHANGED <<flock, fd, seen>> ELSE Refused(t)
  /\ UNCHANGED <<path, record, alive, guarded>>

\* set_len(0), then the write of our own record.
Truncate(t) ==
  /\ pc[t] = "claim" /\ Goes(t, "inscribe")
  /\ record' = [record EXCEPT ![fd[t]] = Nobody]
  /\ UNCHANGED <<path, flock, alive, fd, seen, guarded>>
Inscribe(t) ==
  /\ pc[t] = "inscribe" /\ Goes(t, "readback")
  /\ record' = [record EXCEPT ![fd[t]] = PidOf(t)]
  /\ UNCHANGED <<path, flock, alive, fd, seen, guarded>>

\* The record is read back by path: ours, or the sentinel is another one.
\* Slip: the handle is read back instead of the path.
ReadsHandle(t) == record[fd[t]] = PidOf(t)
ReadsOurs(t) == path # 0 /\ record[path] = PidOf(t)
ReadBack(t) ==
  /\ pc[t] = "readback"
  /\ IF ReadsOurs(t) THEN Goes(t, "update") /\ UNCHANGED <<flock, fd, seen>> ELSE Refused(t)
  /\ UNCHANGED <<path, record, alive, guarded>>
-----------------------------------------------------------------------------
(***************************************************************************)
(* acquire_pool_write_lock_inner: create, record the holder, lock.         *)
(***************************************************************************)
Create(t) ==
  /\ pc[t] = "acquire" /\ path = 0 /\ Goes(t, "record")
  /\ path' = CHOOSE i \in Sentinel : i \notin {fd[u] : u \in Thread}
  /\ fd' = [fd EXCEPT ![t] = path']
  /\ record' = [record EXCEPT ![path'] = Nobody]
  /\ UNCHANGED <<flock, alive, seen, guarded>>
\* The wait ran out, or the money lock does not wait.
GiveUp(t) ==
  /\ pc[t] = "acquire" /\ path # 0 /\ Fails(t)
  /\ UNCHANGED <<path, record, alive, guarded>>
RecordHolder(t) ==
  /\ pc[t] = "record" /\ Goes(t, "hold")
  /\ record' = [record EXCEPT ![fd[t]] = PidOf(t)]
  /\ UNCHANGED <<path, flock, alive, fd, seen, guarded>>
\* try_lock_exclusive fails only against a recovery looking at the sentinel;
\* the file is removed and the update fails.
Hold(t) ==
  /\ pc[t] = "hold"
  /\ IF flock[fd[t]] = NoThread
       THEN Goes(t, "update") /\ flock' = [flock EXCEPT ![fd[t]] = t] /\ UNCHANGED <<path, fd, seen>>
       ELSE Fails(t) /\ path' = 0
  /\ UNCHANGED <<record, alive, guarded>>
-----------------------------------------------------------------------------
(***************************************************************************)
(* The update: a command reads the file, changes its copy and replaces it. *)
(***************************************************************************)
ReadFile(t) ==
  /\ pc[t] = "update" /\ Goes(t, "write")
  /\ copy' = [copy EXCEPT ![t] = file]
  /\ UNCHANGED <<path, record, flock, alive, fd, seen, file, done>>
WriteFile(t) ==
  /\ pc[t] = "write" /\ Goes(t, "unlink")
  /\ file' = copy[t] \cup {t} /\ done' = done \cup {t}
  /\ copy' = [copy EXCEPT ![t] = {}]
  /\ UNCHANGED <<path, record, flock, alive, fd, seen>>

\* Drop: the sentinel is removed by its path, then the handle is closed.
Unlink(t) ==
  /\ pc[t] = "unlink" /\ Goes(t, "release") /\ path' = 0
  /\ UNCHANGED <<record, flock, alive, fd, seen, guarded>>
Release(t) ==
  /\ pc[t] = "release" /\ Fails(t)
  /\ UNCHANGED <<path, record, alive, guarded>>
\* A process is killed: Drop does not run, the kernel frees its locks.
Kill(p) ==
  /\ p \in alive \ Survivors
  /\ alive' = alive \ {p}
  /\ pc' = [t \in Thread |-> IF PidOf(t) = p THEN "dead" ELSE pc[t]]
  /\ fd' = [t \in Thread |-> IF PidOf(t) = p THEN 0 ELSE fd[t]]
  /\ flock' = [i \in Sentinel |->
                 IF flock[i] # NoThread /\ PidOf(flock[i]) = p THEN NoThread ELSE flock[i]]
  /\ seen' = [t \in Thread |-> IF PidOf(t) = p THEN Nobody ELSE seen[t]]
  /\ UNCHANGED <<path, record, guarded>>

Step(t) ==
  \/ Begin(t) \/ BeginOrdinary(t) \/ TryLock(t) \/ Judge(t) \/ Truncate(t)
  \/ Inscribe(t) \/ ReadBack(t) \/ Create(t) \/ GiveUp(t) \/ RecordHolder(t)
  \/ Hold(t) \/ ReadFile(t) \/ WriteFile(t) \/ Unlink(t) \/ Release(t)
Next == (\E t \in Thread : Step(t)) \/ (\E p \in Pid : Kill(p))
Spec == Init /\ [][Next]_vars
\* Every process that runs goes on, and the commands are run again until their
\* update is written.
FairSpec == Spec /\ \A t \in Thread : WF_vars(Step(t))
-----------------------------------------------------------------------------

\* The thread the lock belongs to.  Two holders are no holder of the promise.
Owner ==
  IF Holders = {} THEN NoThread
  ELSE IF \E t \in Thread : Holders = {t} THEN CHOOSE t \in Thread : Holders = {t}
  ELSE Holders
Promise == INSTANCE ExclusiveLock WITH holder <- Owner

\* The sentinel protocol implements the exclusive lock its callers count on,
\* with threads overtaken or killed between any two system calls.
ImplementsExclusiveLock == Promise!Spec

\* An update that was reported as written is in the file: no other one replaced
\* it from a copy read before it.
NoUpdateLost == done \subseteq file

\* What a killed process leaves behind, if it got as far as recording itself,
\* is taken over or removed as long as someone still has an update to make.
LeftBehind(i) == path = i /\ record[i] # Nobody /\ record[i] \notin alive
DeadHolderGivesWay ==
  \A i \in Sentinel : LeftBehind(i) ~> (~LeftBehind(i) \/ \A t \in Thread \ MoneyLock :
                                             t \in done \/ pc[t] = "dead")
=============================================================================
