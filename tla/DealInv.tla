------------------------------ MODULE DealInv -------------------------------
(***************************************************************************)
(* What the proofs about a deal and its weekly keeper speak of: storage    *)
(* records of the deal contract, how two of them compare, and the          *)
(* inductive invariants.                                                   *)
(*                                                                         *)
(* IndInv: the deal can pay what it has promised, and its claims are       *)
(* bounded.  BooksInv: escrow, earnings and paid marks are the same whole  *)
(* ticks.  StakesInv: the bonds and the purchase behind an open deal.      *)
(* KeeperInv: the keeper's task against the deal it last read.             *)
(***************************************************************************)
EXTENDS SubscriptionKeeper

\* d can pay everything it has promised, and extra besides.
Covers(d, extra) == Typed(d) /\ Earmarks(d) + extra <= d.balance

\* The inductive invariant, of a storage record.
Safe(d) == Typed(d) /\ (d.alive => Earmarks(d) <= d.balance)

\* A storage record whose contract is gone.
Gone(d) == Typed(d) /\ ~d.alive

-----------------------------------------------------------------------------
(***************************************************************************)
(* What a step leaves alone.                                               *)
(***************************************************************************)
\* e has the status flags of d.
SameStatus(d, e) ==
  /\ e.alive = d.alive /\ e.funded = d.funded /\ e.opened = d.opened
  /\ e.everOpened = d.everOpened /\ e.disputed = d.disputed
  /\ e.probeAccepted = d.probeAccepted

\* Its claims and its clock are those of d.
SameClaims(d, e) ==
  /\ e.tokensFinal = d.tokensFinal /\ e.tokensPend = d.tokensPend
  /\ e.lastClaimTime = d.lastClaimTime /\ e.periodStart = d.periodStart

\* Both.
Same(d, e) == SameStatus(d, e) /\ SameClaims(d, e)

-----------------------------------------------------------------------------
(***************************************************************************)
(* The inductive invariant.  Solvency alone is not inductive: the residue  *)
(* cleanupUnopened burns is all that is left only because an unopened deal *)
(* owes nothing, which is the life cycle below.                            *)
(***************************************************************************)
\* NoDebtBehindLivingDeal, of a storage record.
Lifecycle(d) ==
  d.alive =>
    /\ d.everOpened = d.opened
    /\ d.opened => d.funded
    /\ d.disputed \/ d.probeAccepted => d.opened
    /\ ~d.opened => d.finalizedOwed = 0 /\ d.feeAccrued = 0
                    /\ d.probeTick = 0 /\ d.tokensPend = 0

\* OneTickAtRisk and ClaimRate, of a storage record.
ClaimsBounded(d) ==
  d.alive =>
    /\ d.tokensFinal <= d.tokensPend
    /\ d.tokensPend <= d.tokensFinal + TICK_SIZE
    /\ d.opened /\ d.probeAccepted =>
         (d.tokensPend - TICK_SIZE) * MIN_SECONDS_PER_TICK
           <= (d.lastClaimTime - d.periodStart) * TICK_SIZE

\* The three together.
Sound(d) == Safe(d) /\ Lifecycle(d) /\ ClaimsBounded(d)

\* The invariant of the deal as it stands.
IndInv == Sound(deal) /\ now \in 0..MaxTime

\* e owes what d owes.
SameDebts(d, e) ==
  /\ e.finalizedOwed = d.finalizedOwed /\ e.feeAccrued = d.feeAccrued
  /\ e.probeTick = d.probeTick

-----------------------------------------------------------------------------
(***************************************************************************)
(* Records that differ in some fields only.                                *)
(***************************************************************************)
\* d and e differ in the fields X at most.
Agree(d, e, X) ==
  /\ DOMAIN d = DealFields /\ DOMAIN e = DealFields
  /\ \A f \in DealFields : f \notin X => d[f] = e[f]

\* Fields that charging neither reads nor writes, but for the trusted mark.
Unread == {"tokensFinal", "ticksFinalized", "reported", "disputed", "everDisputed", "disputeTime"}

\* What charging weeks writes.
Charges == {"deposit", "finalizedOwed", "feeAccrued", "tokensPaid", "weekIndex", "weekBaseTokens"}

\* The highest claim, trusted or not.
Peak(d) == Greater(d.tokensFinal, d.tokensPend)

\* What only reporting reads until a deal closes: closing recounts it.
Slack == {"ticksFinalized", "reported"}

\* The record once contested claims are dropped and the dispute lifted.
Lifted(d) == [VoidClaims(d) EXCEPT !.disputed = FALSE]

\* No step that ends a deal alters its term, opens it or raises a dispute.
SameTerm(d, e) ==
  /\ DOMAIN e = DealFields
  /\ e.periodStart = d.periodStart /\ e.subWeeks = d.subWeeks
  /\ e.probeAccepted = d.probeAccepted
  /\ e.opened = d.opened \/ e.opened = FALSE
  /\ e.disputed = d.disputed \/ e.disputed = FALSE

\* The deal is gone and shut.
Closed(d, e) == SameTerm(d, e) /\ e.alive = FALSE /\ e.opened = FALSE

-----------------------------------------------------------------------------
(***************************************************************************)
(* The books of a deal, in whole ticks.                                    *)
(***************************************************************************)
\* InferenceOrderBook: pricePerTick is a multiple of PRICE_STEP.
WholeShells == (P * PLATFORM_FEE_BPS) % BPS_DENOMINATOR = 0

\* InferenceOrderBook: a subscription's ticks divide into weeks.
WholeWeeks == TRUE \in Shapes => \A n \in FillTicks : n % SUB_WEEKS = 0

\* Ticks paid for: the probe tick, then whole weeks of j ticks.
Mark(d, j) == Greater(1, d.weekIndex * j)

\* A funded deal of K ticks, j a week, in ticks.
BooksAt(d, K, j) ==
  /\ K >= 2 /\ d.fundedTokens = K * TICK_SIZE
  /\ IsSubscription(d) =>
       /\ K = j * SUB_WEEKS /\ d.tokensPerWeek = j * TICK_SIZE
       /\ d.probeAccepted => d.tokensPend <= d.weekBaseTokens + d.tokensPerWeek
  /\ d.weekIndex <= d.subWeeks
  /\ ~d.probeAccepted => d.weekIndex = 0
  /\ ~d.opened => d.deposit = K * Unit
  /\ d.opened /\ ~d.probeAccepted => d.probeTick = P /\ d.deposit = K * Unit - P
  /\ d.probeAccepted => /\ d.tokensPaid = Mark(d, j) * TICK_SIZE
                        /\ d.deposit = (K - Mark(d, j)) * Unit
                        /\ SellerGain(d) = Mark(d, j) * P

\* Some whole numbers of ticks account for the deal.
BooksHeld(d) == \E K, j \in Nat \ {0} : BooksAt(d, K, j)

\* No bond is kept that is not on record.
BondFlag(d) == d.alive /\ ~d.sellerBondFunded => d.sellerBond = 0

\* The books of a deal at every stage of its life.
Booked(d) ==
  /\ ~d.alive => ~d.opened
  /\ BondFlag(d)
  /\ d.alive /\ ~d.probeAccepted => SellerGain(d) = 0
  /\ d.alive /\ d.funded => \E K, j \in Nat \ {0} : BooksAt(d, K, j)

\* The inductive invariant of the books.
BooksInv == IndInv /\ Booked(deal)

\* Nothing the books are about has changed.
SameBooks(d, e) ==
  /\ e.alive = d.alive /\ e.funded = d.funded /\ e.opened = d.opened
  /\ e.probeAccepted = d.probeAccepted /\ e.probeTick = d.probeTick
  /\ e.deposit = d.deposit /\ e.fundedTokens = d.fundedTokens
  /\ e.tokensPerWeek = d.tokensPerWeek /\ e.subWeeks = d.subWeeks
  /\ e.weekIndex = d.weekIndex /\ e.tokensPaid = d.tokensPaid
  /\ e.weekBaseTokens = d.weekBaseTokens /\ e.tokensPend = d.tokensPend

\* s is d with the weeks due charged: in good order, its status, claims and bond as before.
WeeksBooked(d, s) ==
  /\ BooksHeld(s)
  /\ s.alive = d.alive /\ s.funded = d.funded /\ s.opened = d.opened
  /\ s.probeAccepted = d.probeAccepted /\ s.tokensPend = d.tokensPend
  /\ s.sellerBond = d.sellerBond /\ s.sellerBondFunded = d.sellerBondFunded
  /\ Typed(s)

-----------------------------------------------------------------------------
(***************************************************************************)
(* What each way out of a deal costs its parties.                          *)
(***************************************************************************)
\* The money of the parties is where it was.
SameParties(d, e) ==
  /\ e.buyer = d.buyer /\ e.put = d.put /\ e.got = d.got /\ e.balance = d.balance
  /\ e.buyerBond = d.buyerBond /\ e.sellerBond = d.sellerBond

\* The claims a dispute trusts, charged.
Trusted(d) ==
  LET weeks == ChargeWeeksThrough(ReleaseProbe(d), WeeksElapsedAt(d, d.disputeTime))
      base  == ClaimBase(weeks)
      owed  == IF weeks.tokensFinal > base THEN weeks.tokensFinal - base ELSE 0
  IN  ChargeTokens(weeks, owed)

\* The seller's share of the balance: what is neither escrow, nor the buyer's bond, nor fees.
Tally(c) ==
  c.got[Seller] - c.put[Seller] + c.balance - c.deposit - c.buyerBond - c.feeAccrued

\* The value of n tokens, fee included.
Value(n) == PayOf(n) + FeeOf(n)

\* What the seller earns of it from an escrow.
Earned(escrow, n) ==
  IF Value(n) > escrow THEN escrow - Lesser(escrow, FeeOf(n)) ELSE PayOf(n)

\* The price of a tick is at least three of the smallest units, the fee at most the price
\* (InferenceOrderBook: a positive multiple of PRICE_STEP; TokenContract: 250 of 10 000).
ModestFee == P >= 3 /\ PLATFORM_FEE_BPS <= BPS_DENOMINATOR

\* Tokens of trusted claims that no charge has covered.
Unpaid(d) == IF d.tokensFinal > ClaimBase(d) THEN d.tokensFinal - ClaimBase(d) ELSE 0

\* The escrow of a dispute, the probe tick with it while it is on trial.
Contested(d) == d.deposit + (IF d.probeAccepted THEN 0 ELSE d.probeTick)

\* A dispute as it stands: both bonds in full, at most one claim pending.
Staking(d) ==
  /\ Covers(d, 0) /\ d.buyer \in Buyers
  /\ d.buyerBond = BondAmount /\ d.sellerBond = BondAmount
  /\ d.tokensFinal <= d.tokensPend
  /\ ~d.probeAccepted => d.tokensPend = 0 /\ d.probeTick = P

\* What a refused dispute burns of the escrow of an ordinary deal.
Burnt(d) ==
  LET pending == IF d.tokensPend > d.tokensFinal THEN d.tokensPend - d.tokensFinal ELSE 0
  IN  Lesser(Value(pending), d.deposit)

-----------------------------------------------------------------------------
(***************************************************************************)
(* The stakes of a deal at every stage of its life.                        *)
(***************************************************************************)
\* The seller's bond stands behind a deal from its opening on, its buyer is known, a dispute is
\* on record, and an ordinary deal's claims stay within what was funded.
Staked(d) ==
  /\ ~d.alive => ~d.disputed
  /\ d.alive =>
       /\ d.sellerBondFunded => d.sellerBond = BondAmount
       /\ d.opened => d.sellerBondFunded
       /\ d.funded => d.buyer \in Buyers
       /\ d.disputed => d.everDisputed
       /\ ~d.probeAccepted => d.tokensPend = 0
       /\ d.probeAccepted => /\ d.tokensFinal >= TICK_SIZE
                             /\ ~IsSubscription(d) => d.tokensPend <= d.fundedTokens

\* What the buyer of the only fill has paid: his bond, on record when it is there, and the price
\* of the ticks that were funded.
Bought(d) ==
  d.alive =>
    /\ d.fills = 0 => /\ ~d.funded /\ d.buyer = NoBuyer /\ ~d.buyerBondFunded
                      /\ \A b \in Buyers : BuyerLoss(d, b) = 0
    /\ d.buyerBond = (IF d.buyerBondFunded THEN BondAmount ELSE 0)
    /\ d.opened => d.buyerBondFunded
    /\ d.funded => BuyerLoss(d, d.buyer) = d.buyerBond + (d.fundedTokens \div TICK_SIZE) * Unit

\* Nothing the stakes are about has changed, the trusted claims aside.
SameStakes(d, e) ==
  /\ e.alive = d.alive /\ e.opened = d.opened /\ e.funded = d.funded /\ e.buyer = d.buyer
  /\ e.disputed = d.disputed /\ e.everDisputed = d.everDisputed
  /\ e.sellerBond = d.sellerBond /\ e.sellerBondFunded = d.sellerBondFunded
  /\ e.probeAccepted = d.probeAccepted /\ e.tokensPend = d.tokensPend
  /\ e.subWeeks = d.subWeeks /\ e.fundedTokens = d.fundedTokens

\* Nor what the buyer has paid.
SamePurchase(d, e) ==
  /\ e.alive = d.alive /\ e.opened = d.opened /\ e.funded = d.funded /\ e.buyer = d.buyer
  /\ e.fills = d.fills /\ e.fundedTokens = d.fundedTokens
  /\ e.buyerBond = d.buyerBond /\ e.buyerBondFunded = d.buyerBondFunded
  /\ e.put = d.put /\ \A b \in Buyers : e.got[b] = d.got[b]

\* The fields a step may change without a stake being touched.
Aside ==
  Charges \cup Slack \cup
  {"authorized", "offerPosted", "everOpened", "probeTick", "probeTime", "balance", "fundedTime",
   "disputeTime", "tokensPerWeek", "periodStart", "lastClaimTime", "burned"}

\* The stakes, and on one fill the purchase, of the deal as it stands.
StakesInv == BooksInv /\ Staked(deal) /\ (MaxFills <= 1 => Bought(deal))

\* An ordinary deal past its trial, K ticks funded, one of them paid.
Ordinary(d, K) ==
  /\ Covers(d, 0) /\ d.buyer \in Buyers /\ d.probeAccepted /\ ~IsSubscription(d)
  /\ K \in Nat \ {0} /\ d.deposit = (K - 1) * Unit /\ d.tokensPaid = TICK_SIZE
  /\ TICK_SIZE <= d.tokensFinal /\ d.tokensFinal <= d.tokensPend /\ d.tokensPend <= K * TICK_SIZE

\* The bill FairBill promises for deal d when it closes at time t as e.
Billed(d, t, e) ==
  LET later == d.tokensPend - TICK_SIZE
  IN  /\ SellerGain(e) + P >= PayOf(Matured(d, t))
      /\ BuyerLoss(e, d.buyer) <= Unit + PayOf(later) + FeeOf(later) + P

-----------------------------------------------------------------------------
(***************************************************************************)
(* The keeper beside its deal.                                             *)
(***************************************************************************)
\* The seller's clock does not run ahead of block.timestamp.
NotAhead == keeper.skew <= 0

\* The marks of a deal are numbers.
Marked(d) ==
  /\ DOMAIN d = DealFields
  /\ d.probeAccepted \in BOOLEAN /\ d.disputed \in BOOLEAN
  /\ d.opened \in BOOLEAN /\ d.funded \in BOOLEAN
  /\ d.deposit \in Int /\ d.probeTick \in Int
  /\ d.tokensFinal \in Nat /\ d.tokensPend \in Nat /\ d.lastClaimTime \in Nat
  /\ d.subWeeks = SUB_WEEKS /\ d.weekIndex \in Nat /\ d.tokensPerWeek \in Nat
  /\ d.fundedTokens \in Nat /\ d.tokensPaid \in Nat /\ d.periodStart \in Nat
  /\ d.weekBaseTokens \in Nat

\* The weeks that have ended at time t, not capped by the term.
FullWeeks(d, t) == (t - d.periodStart) \div SUB_WEEK_LEN

\* A subscription under way: the marks of a living, open deal at time t.
UnderWay(d, t) ==
  /\ Marked(d)
  /\ d.alive = TRUE /\ d.opened /\ d.funded
  /\ d.tokensPerWeek >= TICK_SIZE /\ d.fundedTokens >= TICK_SIZE
  /\ 1 <= d.periodStart /\ d.periodStart <= t
  /\ 1 <= d.lastClaimTime /\ d.lastClaimTime <= t
  /\ d.tokensFinal <= d.tokensPend /\ d.tokensPend <= d.fundedTokens
  /\ d.weekBaseTokens <= d.tokensPend
  /\ d.weekIndex <= SUB_WEEKS
  /\ d.probeAccepted =>
       /\ d.tokensFinal >= TICK_SIZE /\ d.tokensPaid >= TICK_SIZE
       /\ d.tokensPaid <= (d.weekIndex + 1) * d.tokensPerWeek
       /\ d.weekIndex <= FullWeeks(d, t)
       /\ d.tokensPend <= d.weekBaseTokens + d.tokensPerWeek
  /\ ~d.probeAccepted =>
       /\ d.tokensPend = 0 /\ d.tokensPaid = 0 /\ d.weekIndex = 0
       /\ d.weekBaseTokens = 0

\* How a deal that lives on has moved since it was s.
Since(s, d) ==
  /\ d.tokensFinal >= s.tokensFinal /\ d.tokensPend >= s.tokensPend
  /\ d.lastClaimTime >= s.lastClaimTime /\ d.weekIndex >= s.weekIndex
  /\ d.tokensPaid >= s.tokensPaid /\ d.weekBaseTokens >= s.weekBaseTokens
  /\ d.periodStart >= s.periodStart
  /\ d.subWeeks = s.subWeeks /\ d.tokensPerWeek = s.tokensPerWeek
  /\ d.fundedTokens = s.fundedTokens
  /\ s.probeAccepted => d.probeAccepted
  /\ d.periodStart = s.periodStart \/ (~s.probeAccepted /\ d.probeAccepted)
  /\ s.disputed => d.disputed
  \* a pending claim stands until it is trusted, and after the term none is made
  /\ (s.tokensPend > s.tokensFinal /\ d.tokensFinal = s.tokensFinal)
        \/ (s.probeAccepted /\ s.weekIndex >= s.subWeeks) =>
       d.tokensPend = s.tokensPend /\ d.lastClaimTime = s.lastClaimTime

\* Why the keeper sent what it sent, by what it had read and its clock.
PlanFits(p, s, c) ==
  /\ s.probeAccepted
  /\ \/ /\ p.does = "finalize"
        /\ s.tokensPend > s.tokensFinal /\ c >= PromoteDeadline(s)
     \/ /\ p.does = "settleWeek"
        /\ s.weekIndex < s.subWeeks /\ c >= NextWeekBoundary(s)
        /\ p.target = ScheduledWeekTarget(s, c)
     \/ /\ p.does = "settleWeek"
        /\ s.weekIndex = s.subWeeks /\ c >= PromoteDeadline(s)

\* The change the keeper wanted, in a deal that goes on.
Progress(p, s, d) ==
  IF p.does = "finalize" THEN d.tokensFinal > s.tokensFinal
  ELSE s.weekIndex < s.subWeeks /\ d.weekIndex >= p.target

\* Where the task may be.
Places ==
  {"schedule", "reread", "send", "reconcile", "asleep", "done", "failed", "unrecorded", "down"}

\* What the task is and what it holds.
TaskTyped ==
  /\ DOMAIN keeper = {"pc", "skew", "clock", "last", "plan", "call", "restarts"}
  /\ keeper.pc \in Places /\ keeper.skew \in Skews
  /\ keeper.skew \in Int
  /\ keeper.clock \in Int /\ (NotAhead => keeper.clock <= now)

\* What was read is older than what the deal is now.
ReadEarlier ==
  /\ keeper.pc \in {"reread", "send", "reconcile"} => keeper.last # NoSnapshot
  /\ deal.alive /\ keeper.last # NoSnapshot => Since(keeper.last, deal)

\* What is read of a deal under way.
Reading(s) ==
  /\ s.probeAccepted \in BOOLEAN /\ s.disputed \in BOOLEAN
  /\ s.subWeeks = SUB_WEEKS
  /\ s.tokensFinal \in Nat /\ s.tokensPend \in Nat /\ s.lastClaimTime \in Nat
  /\ s.weekIndex \in Nat /\ s.tokensPaid \in Nat /\ s.periodStart \in Nat
  /\ s.weekBaseTokens \in Nat

\* What the keeper holds is such a reading.
ReadSound == keeper.last # NoSnapshot => Reading(keeper.last)

\* The call in flight, and what it has led to unless it came before its time.
CallFits ==
  /\ keeper.pc \in {"send", "reconcile"} => PlanFits(keeper.plan, keeper.last, keeper.clock)
  /\ keeper.pc = "reconcile" => keeper.call \in {"sent", "landed", "lost"}
  /\ keeper.pc = "reconcile" /\ keeper.call = "landed" /\ deal.alive =>
       deal.disputed \/ ~NotAhead \/ Progress(keeper.plan, keeper.last, deal)

\* The deal as the keeper may find it.
DealSound ==
  /\ now \in Nat
  /\ DOMAIN deal = DealFields /\ deal.alive \in BOOLEAN
  /\ deal.periodStart \in Nat /\ deal.subWeeks = SUB_WEEKS /\ deal.periodStart <= now
  /\ deal.alive => UnderWay(deal, now)

\* The inductive invariant of the keeper and its deal.
KeeperInv ==
  /\ DealSound /\ TaskTyped /\ ReadEarlier /\ ReadSound /\ CallFits
  /\ DoneMeansClosed

\* e has the status and every mark of d.
SameMarks(d, e) ==
  /\ DOMAIN e = DealFields
  /\ e.alive = d.alive /\ e.opened = d.opened /\ e.funded = d.funded
  /\ e.disputed = d.disputed /\ e.probeAccepted = d.probeAccepted
  /\ e.tokensFinal = d.tokensFinal /\ e.tokensPend = d.tokensPend
  /\ e.lastClaimTime = d.lastClaimTime /\ e.subWeeks = d.subWeeks
  /\ e.weekIndex = d.weekIndex /\ e.tokensPerWeek = d.tokensPerWeek
  /\ e.fundedTokens = d.fundedTokens /\ e.tokensPaid = d.tokensPaid
  /\ e.periodStart = d.periodStart /\ e.weekBaseTokens = d.weekBaseTokens

\* A deal past its trial, as charging weeks needs it.
Running(d) ==
  /\ Marked(d)
  /\ d.probeAccepted = TRUE
  /\ d.tokensPerWeek >= TICK_SIZE
  /\ d.tokensFinal <= d.tokensPend /\ d.weekBaseTokens <= d.tokensPend
  /\ d.tokensPaid >= TICK_SIZE
  /\ d.tokensPaid <= (d.weekIndex + 1) * d.tokensPerWeek

\* Weeks were charged: from d to e.
Charged(d, e) ==
  /\ DOMAIN e = DealFields
  /\ e.alive = d.alive /\ e.opened = d.opened /\ e.funded = d.funded
  /\ e.disputed = d.disputed /\ e.probeAccepted = d.probeAccepted
  /\ e.tokensFinal = d.tokensFinal /\ e.tokensPend = d.tokensPend
  /\ e.lastClaimTime = d.lastClaimTime /\ e.subWeeks = d.subWeeks
  /\ e.tokensPerWeek = d.tokensPerWeek /\ e.fundedTokens = d.fundedTokens
  /\ e.periodStart = d.periodStart
  /\ e.weekIndex >= d.weekIndex /\ e.tokensPaid >= d.tokensPaid
  /\ e.weekBaseTokens >= d.weekBaseTokens

\* A call closes the deal or moves it forward.
Moved ==
  /\ now' = now
  /\ \/ Closed(deal, deal')
     \/ UnderWay(deal', now) /\ Since(deal, deal')

\* s is what the keeper reads of d.
SameReading(s, d) ==
  /\ s.opened = d.opened /\ s.funded = d.funded
  /\ s.disputed = d.disputed /\ s.probeAccepted = d.probeAccepted
  /\ s.tokensFinal = d.tokensFinal /\ s.tokensPend = d.tokensPend
  /\ s.lastClaimTime = d.lastClaimTime /\ s.subWeeks = d.subWeeks
  /\ s.weekIndex = d.weekIndex /\ s.tokensPerWeek = d.tokensPerWeek
  /\ s.fundedTokens = d.fundedTokens /\ s.tokensPaid = d.tokensPaid
  /\ s.periodStart = d.periodStart /\ s.weekBaseTokens = d.weekBaseTokens
=============================================================================
