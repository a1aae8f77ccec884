--------------------------- MODULE PoolLockProofs ---------------------------
(***************************************************************************)
(* The sentinel protocol of the pool lock (PoolLock) excludes two holders, *)
(* loses no update and implements ExclusiveLock, for any number of         *)
(* threads, processes and inodes, wherever threads are overtaken and       *)
(* processes killed, provided every thread runs in a process of its own:   *)
(* the record that is read back names a process, not a thread.             *)
(***************************************************************************)
EXTENDS PoolLock, TLAPS

\* Contenders for one lock are threads of different processes.
OwnProcesses == \A t, u \in Thread : PidOf(t) = PidOf(u) => t = u

Steps == {"idle", "acquire", "lock", "judge", "claim", "inscribe", "readback",
          "record", "hold", "update", "write", "unlink", "release", "dead"}

TypeOK ==
  /\ path \in Sentinel \cup {0}
  /\ record \in [Sentinel -> Pid \cup {0}]
  /\ flock \in [Sentinel -> Thread \cup {NoThread}]
  /\ alive \subseteq Pid
  /\ pc \in [Thread -> Steps]
  /\ fd \in [Thread -> Sentinel \cup {0}]
  /\ seen \in [Thread -> Pid \cup {0}]
  /\ file \subseteq Thread /\ done \subseteq Thread
  /\ copy \in [Thread -> SUBSET Thread]

\* A thread has a handle while it works on a sentinel, and only a running
\* process has threads.
Handles ==
  \A t \in Thread :
    /\ fd[t] = 0 <=> pc[t] \in {"idle", "acquire", "dead"}
    /\ pc[t] = "dead" <=> PidOf(t) \notin alive

\* An advisory lock is held through a handle of the inode.
Locks ==
  /\ \A i \in Sentinel : flock[i] # NoThread => fd[flock[i]] = i
  /\ \A t \in Thread :
       pc[t] \in {"judge", "claim", "inscribe", "readback", "release"} \cup Held => flock[fd[t]] = t

\* The creator of a sentinel owns its path until it holds the lock: a recovery
\* that opened it has seen nothing, or a process that runs.
Creators ==
  \A t \in Thread : pc[t] \in {"record", "hold"} =>
    /\ fd[t] = path
    /\ record[path] = IF pc[t] = "hold" THEN PidOf(t) ELSE Nobody
    /\ \A u \in Thread \ {t} : fd[u] = path =>
         pc[u] \in {"lock", "judge"} /\ seen[u] \in {Nobody, PidOf(t)}

\* The sentinel at the path names a running process only while a thread of it
\* works on that very sentinel.
Records ==
  \A t \in Thread : path # 0 /\ record[path] = PidOf(t) /\ pc[t] # "dead" =>
    fd[t] = path /\ pc[t] \in {"hold", "readback"} \cup Held

\* A holder holds the sentinel at the path.
HeldPath == \A t \in Holders : fd[t] = path

\* What a holder is about to write contains every update reported so far.
Copies == \A t \in Thread : pc[t] = "write" => done \subseteq copy[t]

LockInv ==
  TypeOK /\ Handles /\ Locks /\ Creators /\ Records /\ HeldPath /\ Copies /\ NoUpdateLost
-----------------------------------------------------------------------------
(***************************************************************************)
(* Every step keeps the invariant: one lemma per action, one step per part *)
(* of the invariant.                                                       *)
(***************************************************************************)
LEMMA BeginKeeps ==
  ASSUME OwnProcesses, LockInv, NEW t \in Thread, Begin(t)
  PROVE  LockInv'
  <1> USE LockAssumption DEF LockInv, Begin, Goes, OwnProcesses, guarded, Nobody
  <1>1. TypeOK'
    BY DEF TypeOK, Steps
  <1>2. Handles'
    BY DEF TypeOK, Handles
  <1>3. Locks'
    BY DEF TypeOK, Handles, Locks, Held
  <1>4. Creators'
    BY DEF TypeOK, Handles, Locks, Creators, Held, HeldPath, Holders, Records
  <1>5. Records'
    BY DEF TypeOK, Handles, Locks, Creators, Records, HeldPath, Holders, Held
  <1>6. HeldPath'
    BY DEF TypeOK, Handles, Locks, Creators, Records, HeldPath, Holders, Held
  <1>7. Copies'
    BY DEF TypeOK, Copies, NoUpdateLost, Locks, HeldPath, Holders, Held
  <1>8. NoUpdateLost'
    BY DEF TypeOK, Copies, NoUpdateLost
  <1>9. QED
    BY <1>1, <1>2, <1>3, <1>4, <1>5, <1>6, <1>7, <1>8

LEMMA BeginOrdinaryKeeps ==
  ASSUME OwnProcesses, LockInv, NEW t \in Thread, BeginOrdinary(t)
  PROVE  LockInv'
  <1> USE LockAssumption DEF LockInv, BeginOrdinary, Goes, OwnProcesses, guarded, Nobody
  <1>1. TypeOK'
    BY DEF TypeOK, Steps
  <1>2. Handles'
    BY DEF TypeOK, Handles
  <1>3. Locks'
    BY DEF TypeOK, Handles, Locks, Held
  <1>4. Creators'
    BY DEF TypeOK, Handles, Locks, Creators, Held, HeldPath, Holders, Records
  <1>5. Records'
    BY DEF TypeOK, Handles, Locks, Creators, Records, HeldPath, Holders, Held
  <1>6. HeldPath'
    BY DEF TypeOK, Handles, Locks, Creators, Records, HeldPath, Holders, Held
  <1>7. Copies'
    BY DEF TypeOK, Copies, NoUpdateLost, Locks, HeldPath, Holders, Held
  <1>8. NoUpdateLost'
    BY DEF TypeOK, Copies, NoUpdateLost
  <1>9. QED
    BY <1>1, <1>2, <1>3, <1>4, <1>5, <1>6, <1>7, <1>8

LEMMA TryLockKeeps ==
  ASSUME OwnProcesses, LockInv, NEW t \in Thread, TryLock(t)
  PROVE  LockInv'
  <1> USE LockAssumption DEF LockInv, TryLock, Goes, Refused, Closes, OwnProcesses, guarded, Nobody
  <1>1. TypeOK'
    BY DEF TypeOK, Steps
  <1>2. Handles'
    BY DEF TypeOK, Handles
  <1>3. Locks'
    BY DEF TypeOK, Handles, Locks, Held
  <1>4. Creators'
    BY DEF TypeOK, Handles, Locks, Creators, Held, HeldPath, Holders, Records
  <1>5. Records'
    BY DEF TypeOK, Handles, Locks, Creators, Records, HeldPath, Holders, Held
  <1>6. HeldPath'
    BY DEF TypeOK, Handles, Locks, Creators, Records, HeldPath, Holders, Held
  <1>7. Copies'
    BY DEF TypeOK, Copies, NoUpdateLost, Locks, HeldPath, Holders, Held
  <1>8. NoUpdateLost'
    BY DEF TypeOK, Copies, NoUpdateLost
  <1>9. QED
    BY <1>1, <1>2, <1>3, <1>4, <1>5, <1>6, <1>7, <1>8

LEMMA JudgeKeeps ==
  ASSUME OwnProcesses, LockInv, NEW t \in Thread, Judge(t)
  PROVE  LockInv'
  <1> USE LockAssumption DEF LockInv, Judge, Goes, Refused, Closes, HolderGone, OwnProcesses, guarded, Nobody
  <1>1. TypeOK'
    BY DEF TypeOK, Steps
  <1>2. Handles'
    BY DEF TypeOK, Handles
  <1>3. Locks'
    BY DEF TypeOK, Handles, Locks, Held
  <1>4. Creators'
    BY DEF TypeOK, Handles, Locks, Creators, Held, HeldPath, Holders, Records
  <1>5. Records'
    BY DEF TypeOK, Handles, Locks, Creators, Records, HeldPath, Holders, Held
  <1>6. HeldPath'
    BY DEF TypeOK, Handles, Locks, Creators, Records, HeldPath, Holders, Held
  <1>7. Copies'
    BY DEF TypeOK, Copies, NoUpdateLost, Locks, HeldPath, Holders, Held
  <1>8. NoUpdateLost'
    BY DEF TypeOK, Copies, NoUpdateLost
  <1>9. QED
    BY <1>1, <1>2, <1>3, <1>4, <1>5, <1>6, <1>7, <1>8

LEMMA TruncateKeeps ==
  ASSUME OwnProcesses, LockInv, NEW t \in Thread, Truncate(t)
  PROVE  LockInv'
  <1> USE LockAssumption DEF LockInv, Truncate, Goes, OwnProcesses, guarded, Nobody
  <1>1. TypeOK'
    BY DEF TypeOK, Steps
  <1>2. Handles'
    BY DEF TypeOK, Handles
  <1>3. Locks'
    BY DEF TypeOK, Handles, Locks, Held
  <1>4. Creators'
    BY DEF TypeOK, Handles, Locks, Creators, Held, HeldPath, Holders, Records
  <1>5. Records'
    BY DEF TypeOK, Handles, Locks, Creators, Records, HeldPath, Holders, Held
  <1>6. HeldPath'
    BY DEF TypeOK, Handles, Locks, Creators, Records, HeldPath, Holders, Held
  <1>7. Copies'
    BY DEF TypeOK, Copies, NoUpdateLost, Locks, HeldPath, Holders, Held
  <1>8. NoUpdateLost'
    BY DEF TypeOK, Copies, NoUpdateLost
  <1>9. QED
    BY <1>1, <1>2, <1>3, <1>4, <1>5, <1>6, <1>7, <1>8

LEMMA InscribeKeeps ==
  ASSUME OwnProcesses, LockInv, NEW t \in Thread, Inscribe(t)
  PROVE  LockInv'
  <1> USE LockAssumption DEF LockInv, Inscribe, Goes, OwnProcesses, guarded, Nobody
  <1>1. TypeOK'
    BY DEF TypeOK, Steps
  <1>2. Handles'
    BY DEF TypeOK, Handles
  <1>3. Locks'
    BY DEF TypeOK, Handles, Locks, Held
  <1>4. Creators'
    BY DEF TypeOK, Handles, Locks, Creators, Held, HeldPath, Holders, Records
  <1>5. Records'
    BY DEF TypeOK, Handles, Locks, Creators, Records, HeldPath, Holders, Held
  <1>6. HeldPath'
    BY DEF TypeOK, Handles, Locks, Creators, Records, HeldPath, Holders, Held
  <1>7. Copies'
    BY DEF TypeOK, Copies, NoUpdateLost, Locks, HeldPath, Holders, Held
  <1>8. NoUpdateLost'
    BY DEF TypeOK, Copies, NoUpdateLost
  <1>9. QED
    BY <1>1, <1>2, <1>3, <1>4, <1>5, <1>6, <1>7, <1>8

LEMMA ReadBackKeeps ==
  ASSUME OwnProcesses, LockInv, NEW t \in Thread, ReadBack(t)
  PROVE  LockInv'
  <1> USE LockAssumption DEF LockInv, ReadBack, Goes, Refused, Closes, ReadsOurs, OwnProcesses, guarded, Nobody
  <1>1. TypeOK'
    BY DEF TypeOK, Steps
  <1>2. Handles'
    BY DEF TypeOK, Handles
  <1>3. Locks'
    BY DEF TypeOK, Handles, Locks, Held
  <1>4. Creators'
    BY DEF TypeOK, Handles, Locks, Creators, Held, HeldPath, Holders, Records
  <1>5. Records'
    BY DEF TypeOK, Handles, Locks, Creators, Records, HeldPath, Holders, Held
  <1>6. HeldPath'
    BY DEF TypeOK, Handles, Locks, Creators, Records, HeldPath, Holders, Held
  <1>7. Copies'
    BY DEF TypeOK, Copies, NoUpdateLost, Locks, HeldPath, Holders, Held
  <1>8. NoUpdateLost'
    BY DEF TypeOK, Copies, NoUpdateLost
  <1>9. QED
    BY <1>1, <1>2, <1>3, <1>4, <1>5, <1>6, <1>7, <1>8

\* A new sentinel is an inode that nobody has open and whose lock is free.
LEMMA FreshInode ==
  ASSUME LockInv, NEW t \in Thread, Create(t)
  PROVE  /\ path' \in Sentinel /\ flock[path'] = NoThread
         /\ \A u \in Thread : fd[u] # path'
  <1>1. fd \in [Thread -> Sentinel \cup {0}]
    BY DEF LockInv, TypeOK
  <1>2. PICK i \in Sentinel : i \notin {fd[u] : u \in Thread}
    BY <1>1, InodeAssumption
  <1>3. path' \in Sentinel /\ path' \notin {fd[u] : u \in Thread}
    BY <1>2 DEF Create
  <1>4. flock[path'] = NoThread
    BY <1>3 DEF LockInv, TypeOK, Locks
  <1>5. QED
    BY <1>3, <1>4

LEMMA CreateKeeps ==
  ASSUME OwnProcesses, LockInv, NEW t \in Thread, Create(t)
  PROVE  LockInv'
  <1> USE LockAssumption DEF LockInv, OwnProcesses, guarded, Nobody
  <1>0. /\ pc[t] = "acquire" /\ path = 0 /\ pc' = [pc EXCEPT ![t] = "record"]
        /\ fd' = [fd EXCEPT ![t] = path']
        /\ record' = [record EXCEPT ![path'] = Nobody]
        /\ UNCHANGED <<flock, alive, seen, file, copy, done>>
        /\ path' \in Sentinel /\ flock[path'] = NoThread
        /\ \A u \in Thread : fd[u] # path'
    BY FreshInode DEF Create, Goes
  <1>1. TypeOK'
    BY <1>0 DEF TypeOK, Steps
  <1>2. Handles'
    BY <1>0 DEF TypeOK, Handles
  <1>3. Locks'
    BY <1>0 DEF TypeOK, Handles, Locks, Held
  <1>4. Creators'
    BY <1>0 DEF TypeOK, Handles, Locks, Creators, Held, HeldPath, Holders, Records
  <1>5. Records'
    BY <1>0 DEF TypeOK, Handles, Locks, Creators, Records, HeldPath, Holders, Held
  <1>6. HeldPath'
    BY <1>0 DEF TypeOK, Handles, Locks, Creators, Records, HeldPath, Holders, Held
  <1>7. Copies'
    BY <1>0 DEF TypeOK, Copies, NoUpdateLost, Locks, HeldPath, Holders, Held
  <1>8. NoUpdateLost'
    BY <1>0 DEF TypeOK, Copies, NoUpdateLost
  <1>9. QED
    BY <1>1, <1>2, <1>3, <1>4, <1>5, <1>6, <1>7, <1>8

LEMMA GiveUpKeeps ==
  ASSUME OwnProcesses, LockInv, NEW t \in Thread, GiveUp(t)
  PROVE  LockInv'
  <1> USE LockAssumption DEF LockInv, GiveUp, Fails, Goes, Closes, OwnProcesses, guarded, Nobody
  <1>1. TypeOK'
    BY DEF TypeOK, Steps
  <1>2. Handles'
    BY DEF TypeOK, Handles
  <1>3. Locks'
    BY DEF TypeOK, Handles, Locks, Held
  <1>4. Creators'
    BY DEF TypeOK, Handles, Locks, Creators, Held, HeldPath, Holders, Records
  <1>5. Records'
    BY DEF TypeOK, Handles, Locks, Creators, Records, HeldPath, Holders, Held
  <1>6. HeldPath'
    BY DEF TypeOK, Handles, Locks, Creators, Records, HeldPath, Holders, Held
  <1>7. Copies'
    BY DEF TypeOK, Copies, NoUpdateLost, Locks, HeldPath, Holders, Held
  <1>8. NoUpdateLost'
    BY DEF TypeOK, Copies, NoUpdateLost
  <1>9. QED
    BY <1>1, <1>2, <1>3, <1>4, <1>5, <1>6, <1>7, <1>8

LEMMA RecordHolderKeeps ==
  ASSUME OwnProcesses, LockInv, NEW t \in Thread, RecordHolder(t)
  PROVE  LockInv'
  <1> USE LockAssumption DEF LockInv, RecordHolder, Goes, OwnProcesses, guarded, Nobody
  <1>1. TypeOK'
    BY DEF TypeOK, Steps
  <1>2. Handles'
    BY DEF TypeOK, Handles
  <1>3. Locks'
    BY DEF TypeOK, Handles, Locks, Held
  <1>4. Creators'
    BY DEF TypeOK, Handles, Locks, Creators, Held, HeldPath, Holders, Records
  <1>5. Records'
    BY DEF TypeOK, Handles, Locks, Creators, Records, HeldPath, Holders, Held
  <1>6. HeldPath'
    BY DEF TypeOK, Handles, Locks, Creators, Records, HeldPath, Holders, Held
  <1>7. Copies'
    BY DEF TypeOK, Copies, NoUpdateLost, Locks, HeldPath, Holders, Held
  <1>8. NoUpdateLost'
    BY DEF TypeOK, Copies, NoUpdateLost
  <1>9. QED
    BY <1>1, <1>2, <1>3, <1>4, <1>5, <1>6, <1>7, <1>8

LEMMA HoldKeeps ==
  ASSUME OwnProcesses, LockInv, NEW t \in Thread, Hold(t)
  PROVE  LockInv'
  <1> USE LockAssumption DEF LockInv, Hold, Goes, Fails, Closes, OwnProcesses, guarded, Nobody
  <1>1. TypeOK'
    BY DEF TypeOK, Steps
  <1>2. Handles'
    BY DEF TypeOK, Handles
  <1>3. Locks'
    BY DEF TypeOK, Handles, Locks, Held
  <1>4. Creators'
    BY DEF TypeOK, Handles, Locks, Creators, Held, HeldPath, Holders, Records
  <1>5. Records'
    BY DEF TypeOK, Handles, Locks, Creators, Records, HeldPath, Holders, Held
  <1>6. HeldPath'
    BY DEF TypeOK, Handles, Locks, Creators, Records, HeldPath, Holders, Held
  <1>7. Copies'
    BY DEF TypeOK, Copies, NoUpdateLost, Locks, HeldPath, Holders, Held
  <1>8. NoUpdateLost'
    BY DEF TypeOK, Copies, NoUpdateLost
  <1>9. QED
    BY <1>1, <1>2, <1>3, <1>4, <1>5, <1>6, <1>7, <1>8

LEMMA ReadFileKeeps ==
  ASSUME OwnProcesses, LockInv, NEW t \in Thread, ReadFile(t)
  PROVE  LockInv'
  <1> USE LockAssumption DEF LockInv, ReadFile, Goes, OwnProcesses, guarded, Nobody
  <1>1. TypeOK'
    BY DEF TypeOK, Steps
  <1>2. Handles'
    BY DEF TypeOK, Handles
  <1>3. Locks'
    BY DEF TypeOK, Handles, Locks, Held
  <1>4. Creators'
    BY DEF TypeOK, Handles, Locks, Creators, Held, HeldPath, Holders, Records
  <1>5. Records'
    BY DEF TypeOK, Handles, Locks, Creators, Records, HeldPath, Holders, Held
  <1>6. HeldPath'
    BY DEF TypeOK, Handles, Locks, Creators, Records, HeldPath, Holders, Held
  <1>7. Copies'
    BY DEF TypeOK, Copies, NoUpdateLost, Locks, HeldPath, Holders, Held
  <1>8. NoUpdateLost'
    BY DEF TypeOK, Copies, NoUpdateLost
  <1>9. QED
    BY <1>1, <1>2, <1>3, <1>4, <1>5, <1>6, <1>7, <1>8

LEMMA WriteFileKeeps ==
  ASSUME OwnProcesses, LockInv, NEW t \in Thread, WriteFile(t)
  PROVE  LockInv'
  <1> USE LockAssumption DEF LockInv, WriteFile, Goes, OwnProcesses, guarded, Nobody
  <1>1. TypeOK'
    BY DEF TypeOK, Steps
  <1>2. Handles'
    BY DEF TypeOK, Handles
  <1>3. Locks'
    BY DEF TypeOK, Handles, Locks, Held
  <1>4. Creators'
    BY DEF TypeOK, Handles, Locks, Creators, Held, HeldPath, Holders, Records
  <1>5. Records'
    BY DEF TypeOK, Handles, Locks, Creators, Records, HeldPath, Holders, Held
  <1>6. HeldPath'
    BY DEF TypeOK, Handles, Locks, Creators, Records, HeldPath, Holders, Held
  <1>7. Copies'
    BY DEF TypeOK, Copies, NoUpdateLost, Locks, HeldPath, Holders, Held
  <1>8. NoUpdateLost'
    BY DEF TypeOK, Copies, NoUpdateLost
  <1>9. QED
    BY <1>1, <1>2, <1>3, <1>4, <1>5, <1>6, <1>7, <1>8

LEMMA UnlinkKeeps ==
  ASSUME OwnProcesses, LockInv, NEW t \in Thread, Unlink(t)
  PROVE  LockInv'
  <1> USE LockAssumption DEF LockInv, Unlink, Goes, OwnProcesses, guarded, Nobody
  <1>1. TypeOK'
    BY DEF TypeOK, Steps
  <1>2. Handles'
    BY DEF TypeOK, Handles
  <1>3. Locks'
    BY DEF TypeOK, Handles, Locks, Held
  <1>4. Creators'
    BY DEF TypeOK, Handles, Locks, Creators, Held, HeldPath, Holders, Records
  <1>5. Records'
    BY DEF TypeOK, Handles, Locks, Creators, Records, HeldPath, Holders, Held
  <1>6. HeldPath'
    BY DEF TypeOK, Handles, Locks, Creators, Records, HeldPath, Holders, Held
  <1>7. Copies'
    BY DEF TypeOK, Copies, NoUpdateLost, Locks, HeldPath, Holders, Held
  <1>8. NoUpdateLost'
    BY DEF TypeOK, Copies, NoUpdateLost
  <1>9. QED
    BY <1>1, <1>2, <1>3, <1>4, <1>5, <1>6, <1>7, <1>8

LEMMA ReleaseKeeps ==
  ASSUME OwnProcesses, LockInv, NEW t \in Thread, Release(t)
  PROVE  LockInv'
  <1> USE LockAssumption DEF LockInv, Release, Fails, Goes, Closes, OwnProcesses, guarded, Nobody
  <1>1. TypeOK'
    BY DEF TypeOK, Steps
  <1>2. Handles'
    BY DEF TypeOK, Handles
  <1>3. Locks'
    BY DEF TypeOK, Handles, Locks, Held
  <1>4. Creators'
    BY DEF TypeOK, Handles, Locks, Creators, Held, HeldPath, Holders, Records
  <1>5. Records'
    BY DEF TypeOK, Handles, Locks, Creators, Records, HeldPath, Holders, Held
  <1>6. HeldPath'
    BY DEF TypeOK, Handles, Locks, Creators, Records, HeldPath, Holders, Held
  <1>7. Copies'
    BY DEF TypeOK, Copies, NoUpdateLost, Locks, HeldPath, Holders, Held
  <1>8. NoUpdateLost'
    BY DEF TypeOK, Copies, NoUpdateLost
  <1>9. QED
    BY <1>1, <1>2, <1>3, <1>4, <1>5, <1>6, <1>7, <1>8

\* A killed process leaves its sentinel behind and takes its locks with it.
LEMMA KillKeeps ==
  ASSUME OwnProcesses, LockInv, NEW p \in Pid, Kill(p)
  PROVE  LockInv'
  <1> USE LockAssumption DEF LockInv, Kill, OwnProcesses, guarded, Nobody
  <1>1. TypeOK'
    BY DEF TypeOK, Steps
  <1>2. Handles'
    BY DEF TypeOK, Handles
  <1>3. Locks'
    BY DEF TypeOK, Handles, Locks, Held
  <1>4. Creators'
    BY DEF TypeOK, Handles, Creators
  <1>5. Records'
    BY DEF TypeOK, Handles, Records, Held
  <1>6. HeldPath'
    BY DEF TypeOK, HeldPath, Holders, Held
  <1>7. Copies' /\ NoUpdateLost'
    BY DEF TypeOK, Copies, NoUpdateLost
  <1>8. QED
    BY <1>1, <1>2, <1>3, <1>4, <1>5, <1>6, <1>7

LEMMA InitLockInv == Init => LockInv
  BY LockAssumption
  DEF Init, LockInv, TypeOK, Steps, Handles, Locks, Creators, Records, HeldPath, Holders,
      Held, Copies, NoUpdateLost, Nobody

LEMMA NextLockInv ==
  ASSUME OwnProcesses, LockInv, [Next]_vars
  PROVE  LockInv'
  <1>1. CASE UNCHANGED vars
    BY <1>1 DEF vars, LockInv, TypeOK, Handles, Locks, Creators, Records, HeldPath, Holders,
                Held, Copies, NoUpdateLost
  <1>2. ASSUME NEW t \in Thread, Step(t)
        PROVE  LockInv'
    BY <1>2, BeginKeeps, BeginOrdinaryKeeps, TryLockKeeps, JudgeKeeps, TruncateKeeps,
       InscribeKeeps, ReadBackKeeps, CreateKeeps, GiveUpKeeps, RecordHolderKeeps, HoldKeeps,
       ReadFileKeeps, WriteFileKeeps, UnlinkKeeps, ReleaseKeeps DEF Step
  <1>3. ASSUME NEW p \in Pid, Kill(p)
        PROVE  LockInv'
    BY <1>3, KillKeeps
  <1>4. QED
    BY <1>1, <1>2, <1>3 DEF Next

\* The sentinel protocol keeps its inductive invariant.
THEOREM LockInvariant ==
  ASSUME OwnProcesses
  PROVE  Spec => []LockInv
  <1>1. LockInv /\ [Next]_vars => LockInv'
    BY NextLockInv
  <1>2. QED
    BY <1>1, InitLockInv, PTL DEF Spec

\* At most one thread of all the processes is between taking the lock and
\* removing its sentinel (PoolWriteLock).
MutualExclusion == \A t, u \in Holders : t = u

LEMMA OneHolder == LockInv => MutualExclusion
  BY DEF LockInv, MutualExclusion, Locks, HeldPath, Holders, Held, TypeOK

\* The sentinel protocol of PoolWriteLock excludes two holders.
THEOREM MutualExclusionHolds ==
  ASSUME OwnProcesses
  PROVE  Spec => []MutualExclusion
  BY LockInvariant, OneHolder, PTL

\* An update that a command reported as written stays in the file, whoever
\* writes after it (write_pool_file_atomically under with_pool_write_lock).
THEOREM NoUpdateIsLost ==
  ASSUME OwnProcesses
  PROVE  Spec => []NoUpdateLost
  <1>1. LockInv => NoUpdateLost
    BY DEF LockInv
  <1>2. QED
    BY <1>1, LockInvariant, PTL
-----------------------------------------------------------------------------
(***************************************************************************)
(* The refinement.  Under LockInv the set of holders is empty or one       *)
(* thread, and a step empties it, fills it or leaves it alone.             *)
(***************************************************************************)
LEMMA OwnerIs ==
  /\ Holders = {} => Owner = NoThread
  /\ \A t \in Thread : Holders = {t} => Owner = t
  BY DEF Owner

LEMMA HoldersStep ==
  ASSUME OwnProcesses, LockInv, [Next]_vars
  PROVE  \/ Holders' = Holders
         \/ \E t \in Thread : Holders = {} /\ Holders' = {t}
         \/ \E t \in Thread : Holders = {t} /\ Holders' = {}
  <1>0. MutualExclusion /\ MutualExclusion'
    <2>1. LockInv'
      BY NextLockInv
    <2>2. MutualExclusion'
      BY <2>1 DEF LockInv, MutualExclusion, Locks, HeldPath, Holders, Held, TypeOK
    <2>3. QED
      BY <2>2, OneHolder
  <1>1. CASE UNCHANGED vars
    BY <1>1 DEF vars, Holders
  <1>2. ASSUME NEW t \in Thread, Step(t)
        PROVE  \A u \in Thread \ {t} : pc'[u] = pc[u]
    BY <1>2 DEF LockInv, TypeOK, Step, Begin, BeginOrdinary, TryLock, Judge, Truncate, Inscribe,
         ReadBack, Create, GiveUp, RecordHolder, Hold, ReadFile, WriteFile, Unlink, Release,
         Goes, Refused, Fails
  <1>3. ASSUME NEW p \in Pid, Kill(p)
        PROVE  Holders' \subseteq Holders
    BY <1>3 DEF Kill, Holders, Held
  <1>4. ASSUME NEW t \in Thread, Step(t)
        PROVE  Holders' \ {t} = Holders \ {t}
    BY <1>2, <1>4 DEF Holders
  <1>5. QED
    BY <1>0, <1>1, <1>3, <1>4 DEF Next, MutualExclusion, Holders

\* The pool lock implements the exclusive lock its callers rely on.
THEOREM Refinement ==
  ASSUME OwnProcesses
  PROVE  Spec => ImplementsExclusiveLock
  <1>1. Init => Promise!Init
    BY OwnerIs DEF Init, Promise!Init, Holders, Held
  <1>2. LockInv /\ [Next]_vars => [Promise!Next]_Owner
    <2> SUFFICES ASSUME LockInv, [Next]_vars
                 PROVE  [Promise!Next]_Owner
      OBVIOUS
    <2>1. CASE Holders' = Holders
      BY <2>1 DEF Owner
    <2>2. ASSUME NEW t \in Thread, Holders = {}, Holders' = {t}
          PROVE  Promise!Next
      <3>1. Owner = NoThread /\ Owner' = t
        BY <2>2 DEF Owner
      <3>2. QED
        BY <3>1 DEF Promise!Next, Promise!Acquire
    <2>3. ASSUME NEW t \in Thread, Holders = {t}, Holders' = {}
          PROVE  Promise!Next
      <3>1. Owner = t /\ Owner' = NoThread
        BY <2>3 DEF Owner
      <3>2. QED
        BY <3>1 DEF Promise!Next, Promise!Release
    <2>4. QED
      BY <2>1, <2>2, <2>3, HoldersStep
  <1>3. QED
    BY <1>1, <1>2, LockInvariant, PTL DEF Spec, ImplementsExclusiveLock, Promise!Spec
=============================================================================
