-------------------------- MODULE SubscriptionKeeper --------------------------
(***************************************************************************)
(* The seller's weekly keeper, crates/dexdo/src/seller/keeper.rs, beside   *)
(* the deal it keeps moving (TokenContract).  The keeper reads the deal,   *)
(* plans from its own clock, reads again, sends finalize or settleWeek,    *)
(* reads a third time and decides from that read alone whether the call    *)
(* did what it had scheduled.  Between any two of those steps blocks pass  *)
(* and anybody may claim, settle, stop or dispute.                         *)
(*                                                                         *)
(* The deal is a subscription that has just been opened, which is when     *)
(* run_seller_pool starts the keeper.  Of the calls that reach an open     *)
(* deal only withdrawShell is left out: it touches nothing the keeper      *)
(* reads.  The observer is the pool's: it checks every state the keeper    *)
(* reads before it writes the capacity record from it, and its error ends  *)
(* the task.  The record itself is SellerMeter's, and so is the claim      *)
(* driver beside the keeper, whose error ends both.                        *)
(***************************************************************************)
EXTENDS TokenContract

CONSTANTS
  Skews,         \* by how much the seller's clock may run ahead of block.timestamp
  NoSnapshot,    \* no account: deal_snapshot returned None
  MaxRestarts    \* bound: restarts of the seller process

ASSUME KeeperAssumption ==
  /\ Skews \subseteq Int
  /\ MaxRestarts \in Nat

\* The book matches a subscription only for whole weeks (InferenceOrderBook.sol),
\* and the deal takes no fill outside its own bounds.
WeeklyFills == {n \in FillTicks : n \in 2..MaxTicks /\ n % SUB_WEEKS = 0}

VARIABLE keeper   \* the keeper's task, its clock and the call it has in flight

keeperVars == <<deal, now, keeper>>

\* getState and getSubscription, read as one coherent snapshot.
SnapshotFields ==
  {"funded", "opened", "disputed", "probeAccepted", "deposit", "probeTick",
   "tokensFinal", "tokensPend", "lastClaimTime", "subWeeks", "weekIndex",
   "tokensPerWeek", "fundedTokens", "tokensPaid", "periodStart", "weekBaseTokens"}

\* An absent account is not taken for a state of the deal.
ASSUME SnapshotAssumption == NoSnapshot \notin [SnapshotFields -> Int \cup BOOLEAN]

DealSnapshot ==
  IF deal.alive THEN [f \in SnapshotFields |-> deal[f]] ELSE NoSnapshot

IsStopped(s) ==
  s.funded /\ ~s.opened /\ ~s.disputed /\ s.deposit = 0 /\ s.probeTick = 0

LocalClock == now + keeper.skew
-----------------------------------------------------------------------------
(***************************************************************************)
(* What the keeper accepts as a state of the deal, and as a later state.   *)
(***************************************************************************)
ValidSnapshot(s) ==
  /\ s.tokensFinal <= s.tokensPend
  /\ s.opened => s.funded
  /\ s.subWeeks # 0 =>
       /\ s.weekIndex <= s.subWeeks
       /\ s.tokensPend <= s.fundedTokens
       /\ IsStopped(s) \/ s.weekBaseTokens <= s.tokensPend
       /\ s.opened /\ s.probeAccepted =>
            /\ s.tokensFinal >= TICK_SIZE /\ s.tokensPaid >= TICK_SIZE
            /\ s.periodStart # 0 /\ s.lastClaimTime # 0

\* Slip: the period may never move, not even when the probe is accepted.
NonRegressingFrozen(before, after) ==
  /\ after.tokensFinal >= before.tokensFinal
  /\ after.tokensPend >= before.tokensPend
  /\ after.weekIndex >= before.weekIndex
  /\ after.periodStart = before.periodStart

NonRegressing(before, after) ==
  /\ \A f \in {"tokensFinal", "lastClaimTime", "weekIndex", "tokensPaid",
               "weekBaseTokens", "periodStart"} : after[f] >= before[f]
  /\ \/ after.tokensPend >= before.tokensPend
     \/ ~IsStopped(before) /\ IsStopped(after)
  /\ before.probeAccepted => after.probeAccepted
  /\ \A f \in {"subWeeks", "tokensPerWeek", "fundedTokens"} : after[f] = before[f]
  /\ \/ after.periodStart = before.periodStart
     \/ ~before.probeAccepted /\ after.probeAccepted

\* KeeperCursor::accept
Acceptable(s) ==
  ValidSnapshot(s) /\ (keeper.last # NoSnapshot => NonRegressing(keeper.last, s))

\* SubscriptionCapacityObserver: validate_live_deal_shape, and authoritative_cap
\* as the contract's own cap.  A disputed deal is not one to serve.
Servable(s) ==
  \/ IsStopped(s)
  \/ /\ s.funded /\ ~s.disputed
     /\ s.probeAccepted => s.opened
     /\ s.fundedTokens > 0
     /\ IF s.probeAccepted THEN s.tokensPend >= TICK_SIZE ELSE s.tokensPend = 0
     /\ s.probeAccepted => s.tokensPend <= ClaimCap(s)
-----------------------------------------------------------------------------
(***************************************************************************)
(* What there is to do about snapshot s when the seller's clock says c.    *)
(***************************************************************************)
Idle == MIN_CLAIM_INTERVAL

PromoteDeadline(s) == s.lastClaimTime + CLAIM_PROMOTE_WINDOW

NextWeekBoundary(s) == s.periodStart + (s.weekIndex + 1) * SUB_WEEK_LEN

ScheduledWeekTarget(s, c) == Lesser((c - s.periodStart) \div SUB_WEEK_LEN, s.subWeeks)

\* The moments at which there will be something to do.
Deadlines(s) ==
  (IF s.tokensPend > s.tokensFinal \/ s.weekIndex = s.subWeeks
   THEN {PromoteDeadline(s)} ELSE {})
  \cup (IF s.weekIndex < s.subWeeks THEN {NextWeekBoundary(s)} ELSE {})

WaitUntil(s, c) ==
  LET ahead == {t \in Deadlines(s) : t > c} \cup {c + Idle}
  IN  CHOOSE t \in ahead : \A u \in ahead : t <= u

Nothing(t) == [does |-> "wait", until |-> t]
Over       == [does |-> "end"]
Promotion  == [does |-> "finalize"]
Weeks(n)   == [does |-> "settleWeek", target |-> n]

\* Slips: a deal whose weeks are all charged is left to itself, or is taken to
\* be over.
PlanWithoutClose(s, c) ==
  IF IsStopped(s) THEN Over
  ELSE IF ~s.opened \/ ~s.probeAccepted \/ s.disputed THEN Nothing(c + Idle)
  ELSE IF s.tokensPend > s.tokensFinal /\ c >= PromoteDeadline(s) THEN Promotion
  ELSE IF s.weekIndex < s.subWeeks /\ c >= NextWeekBoundary(s)
       THEN Weeks(ScheduledWeekTarget(s, c))
  ELSE Nothing(WaitUntil(s, c))

PlanEndsWithWeeks(s, c) ==
  IF IsStopped(s) \/ s.weekIndex = s.subWeeks THEN Over
  ELSE IF ~s.opened \/ ~s.probeAccepted \/ s.disputed THEN Nothing(c + Idle)
  ELSE IF s.tokensPend > s.tokensFinal /\ c >= PromoteDeadline(s) THEN Promotion
  ELSE IF c >= NextWeekBoundary(s) THEN Weeks(ScheduledWeekTarget(s, c))
  ELSE Nothing(WaitUntil(s, c))

Plan(s, c) ==
  IF IsStopped(s) THEN Over
  ELSE IF ~s.opened \/ ~s.probeAccepted \/ s.disputed THEN Nothing(c + Idle)
  ELSE IF s.tokensPend > s.tokensFinal /\ c >= PromoteDeadline(s) THEN Promotion
  ELSE IF s.weekIndex < s.subWeeks /\ c >= NextWeekBoundary(s)
       THEN Weeks(ScheduledWeekTarget(s, c))
  ELSE IF /\ s.weekIndex = s.subWeeks
          /\ c >= PromoteDeadline(s) /\ s.tokensFinal = s.tokensPend
       THEN Weeks(s.subWeeks)
  ELSE Nothing(WaitUntil(s, c))
-----------------------------------------------------------------------------
(***************************************************************************)
(* The task.  pc: "schedule" and "reread" before the first and the second  *)
(* read of a step, "send" before the call, "reconcile" before the third    *)
(* read, "asleep", "done", "failed" (the task returned an error and the    *)
(* pool does not start it again), "unrecorded" (it returned the error of   *)
(* the capacity record, which could not be written or removed) and "down"  *)
(* (the process is gone).  call is the fate of the message: "none",        *)
(* "sent", "landed" or "lost".                                             *)
(***************************************************************************)
Fresh(skew, restarts) ==
  [pc |-> "schedule", skew |-> skew, clock |-> now + skew, last |-> NoSnapshot,
   plan |-> Over, call |-> "none", restarts |-> restarts]

\* The deal as open() leaves it: listed, matched, both bonds in, the probe tick
\* set aside.
OpenedDeal(b, ticks, t) ==
  LET matched == FundFromOrderBookEffect(PostFromNoteEffect(NewDeal), t, b,
                                         ticks * Unit + BondAmount, TRUE)
  IN  OpenEffect(FundDealEffect(matched, BondAmount), t)

KeeperInit ==
  /\ now = 1
  /\ deal \in {OpenedDeal(b, ticks, 1) : b \in Buyers, ticks \in WeeklyFills}
  /\ keeper \in {Fresh(skew, 0) : skew \in Skews}

\* The task goes on as k; the chain is not touched.
Task(k) == keeper' = k /\ UNCHANGED <<deal, now>>

\* What the task holds while it sleeps, and what is left of it when it ends.
AsleepAt(s, until) ==
  [keeper EXCEPT !.pc = "asleep", !.last = s, !.plan = Nothing(until), !.clock = 0,
                 !.call = "none"]
Ended(pc) ==
  [keeper EXCEPT !.pc = pc, !.last = NoSnapshot, !.plan = Over, !.clock = 0,
                 !.call = "none"]
Done == Task(Ended("done"))
Fail == Task(Ended("failed"))

\* The observer's own write goes wrong.
ObserverFails ==
  /\ keeper.pc \in {"schedule", "reread", "reconcile"}
  /\ IF deal.alive THEN Acceptable(DealSnapshot) ELSE keeper.last # NoSnapshot
  /\ Task(Ended("unrecorded"))

\* What a read that only plans leads to.
Planned(s, next) ==
  LET p == Plan(s, keeper.clock)
  IN  CASE p.does = "wait" -> Task(AsleepAt(s, p.until))
        [] p.does = "end"  -> Done
        [] OTHER           -> Task([keeper EXCEPT !.pc = next, !.last = s, !.plan = p])

\* The first read of a step.  An absent account is the end of a deal the keeper
\* has seen alive, and an error otherwise.
Schedule ==
  /\ keeper.pc = "schedule"
  /\ LET s == DealSnapshot
     IN  IF s = NoSnapshot THEN IF keeper.last # NoSnapshot THEN Done ELSE Fail
         ELSE IF Acceptable(s) /\ Servable(s) THEN Planned(s, "reread") ELSE Fail

\* The read right before the write, planned against the same clock reading.
Reread ==
  /\ keeper.pc = "reread"
  /\ LET s == DealSnapshot
     IN  IF s = NoSnapshot THEN Done
         ELSE IF Acceptable(s) /\ Servable(s) THEN Planned(s, "send") ELSE Fail

\* chain.finalize sends nothing when the claim it should promote is trusted by
\* now; neither sends anything to a deal that is gone.
Send ==
  /\ keeper.pc = "send"
  /\ LET moot == \/ ~deal.alive
                 \/ keeper.plan.does = "finalize" /\ deal.tokensFinal >= deal.tokensPend
     IN  Task([keeper EXCEPT !.pc = "reconcile", !.call = IF moot THEN "landed" ELSE "sent"])

\* The message reaches the contract, which runs it at the block's time, refuses
\* it, or is gone.  A message that outlives the task's interest in it is a call
\* that anyone could have made (Others).
Land ==
  LET promotes == keeper.plan.does = "finalize"
      refused  == \/ ~deal.alive
                  \/ promotes /\ ~FinalizeReady
                  \/ ~promotes /\ ~SettleWeekReady
  IN  /\ keeper.pc = "reconcile" /\ keeper.call = "sent"
      /\ keeper' = [keeper EXCEPT !.call = "landed"]
      /\ \/ promotes /\ Finalize
         \/ ~promotes /\ SettleWeek
         \/ refused /\ UNCHANGED <<deal, now>>

Lose ==
  /\ keeper.pc = "reconcile" /\ keeper.call = "sent"
  /\ Task([keeper EXCEPT !.call = "lost"])

\* The clock is read once, at the start of a step.
NextStep(s) ==
  [keeper EXCEPT !.pc = "schedule", !.clock = LocalClock, !.last = s, !.call = "none",
                 !.plan = Over]

\* reconcile_write: did the scheduled change happen, whoever made it?
Applied(before, after) ==
  IF keeper.plan.does = "finalize" THEN after.tokensFinal > before.tokensFinal
  ELSE before.weekIndex < before.subWeeks /\ after.weekIndex = keeper.plan.target

\* The read after the write; the backend has given up polling or seen the
\* change, so a message may still be on its way.  A disputed deal is waited for
\* by the code, but the pool's observer is asked first.
Reconcile ==
  /\ keeper.pc = "reconcile"
  /\ LET s == DealSnapshot
     IN  IF s = NoSnapshot THEN Done
         ELSE IF ~(Acceptable(s) /\ Servable(s)) THEN Fail
         ELSE IF IsStopped(s) THEN Done
         ELSE IF s.disputed
              THEN Task(AsleepAt(s, LocalClock + Idle))
         ELSE IF Applied(keeper.last, s) THEN Task(NextStep(s))
         ELSE Fail

Wake ==
  /\ keeper.pc = "asleep"
  /\ LocalClock >= keeper.plan.until
  /\ Task(NextStep(keeper.last))

\* The seller's process dies; the keeper keeps no journal.
Crash ==
  /\ deal.alive /\ keeper.pc \notin {"down", "done"}
  /\ keeper.restarts < MaxRestarts
  /\ Task(Ended("down"))

\* A restarted seller takes up the deals that are open.
Restart ==
  /\ keeper.pc = "down" /\ deal.opened
  /\ Task(Fresh(keeper.skew, keeper.restarts + 1))
-----------------------------------------------------------------------------
(***************************************************************************)
(* The others: the buyer, the seller's claim driver, anyone.               *)
(***************************************************************************)
Others ==
  /\ \/ AcceptProbe
     \/ \E cumulative \in 0..MaxTicks * TICK_SIZE : ClaimTokens(cumulative)
     \/ Finalize \/ SettleWeek
     \/ Stop \/ SellerStop
     \/ Dispute \/ ReleaseDispute \/ ResolveDisputeTimeout
  /\ UNCHANGED keeper

\* Time matters to a living deal and to a sleeping task.
Blocks ==
  /\ deal.alive \/ keeper.pc = "asleep"
  /\ now < MaxTime
  /\ now' = now + 1
  /\ UNCHANGED <<deal, keeper>>

\* The deal is gone, and so is the task or the last second of the model.
Finished ==
  /\ ~deal.alive
  /\ keeper.pc \in {"done", "failed", "unrecorded", "down"} \/ now = MaxTime
  /\ UNCHANGED keeperVars

KeeperStep == Schedule \/ Reread \/ Send \/ Reconcile \/ Wake

KeeperNext ==
  \/ KeeperStep \/ ObserverFails \/ Land \/ Lose \/ Crash \/ Restart
  \/ Others \/ Blocks \/ Finished

\* Blocks come, the task is scheduled and a crashed seller is started again.
\* Nobody else is relied on, and no message is sure to arrive.
KeeperFairness ==
  /\ WF_keeperVars(Blocks)
  /\ WF_keeperVars(KeeperStep)
  /\ WF_keeperVars(Restart)

KeeperSpec == KeeperInit /\ [][KeeperNext]_keeperVars /\ KeeperFairness
-----------------------------------------------------------------------------
(***************************************************************************)
(* Properties.                                                             *)
(***************************************************************************)

\* What may go wrong with a read through no fault of the keeper's: the deal is
\* disputed, or gone before it was first read; the message was lost or is late,
\* or arrived before its time because the seller's clock is ahead of the chain's;
\* or another week ended between the clock reading and the read that judges the
\* call.
Excused ==
  \/ deal.alive /\ deal.disputed
  \/ ~deal.alive /\ keeper.last = NoSnapshot
  \/ keeper.call \in {"lost", "sent"}
  \/ keeper.call = "landed" /\ keeper.skew > 0
  \/ /\ keeper.plan.does = "settleWeek"
     /\ WeeksElapsedAt(deal, now) > ScheduledWeekTarget(deal, keeper.clock)

\* Whatever claims, settlements, stops and restarts interleave with its reads,
\* the keeper and its observer take every state of a correct deal that is not
\* disputed for a good one and every change for a forward one, and the keeper
\* recognises its own call or somebody else's as the progress it wanted: no step
\* fails without an outside cause.
NoFalseAlarm ==
  [][keeper.pc # "failed" /\ keeper'.pc = "failed" => Excused]_keeperVars

\* When the task ends, the deal has ended: the keeper never walks away from a
\* subscription that still has weeks to settle.
DoneMeansClosed == keeper.pc = "done" => ~deal.alive

\* With nobody but the keeper to settle, a subscription past its probe is
\* closed, unless it is disputed or the keeper's task failed.
KeeperCloses ==
  LET horizon == SUB_WEEKS * SUB_WEEK_LEN + CLAIM_PROMOTE_WINDOW
  IN  (Streaming /\ now + horizon <= MaxTime)
        ~> (~deal.alive \/ deal.disputed \/ keeper.pc \in {"failed", "unrecorded"})
=============================================================================
